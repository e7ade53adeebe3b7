---------------------------- MODULE WebhookProofs ----------------------------
(***************************************************************************)
(* From the outbox to the merchants, for any number of events, configs,    *)
(* attempts, retries and faults.                                           *)
(***************************************************************************)
EXTENDS WebhookDelivery, TLAPS

-----------------------------------------------------------------------------
(* The invariants.                                                         *)

\* The types of TypeOK, in the groups of the writers below.  An event that is
\* still to be delivered has retries left, so that a failed enqueue can be
\* counted.
OutboxTypes ==
  /\ status \in [Events -> {"PENDING", "DISPATCHED", "PROCESSED", "FAILED"}]
  /\ retries \in [Events -> 0 .. MaxRetries]
  /\ due \in [Events -> BOOLEAN] /\ processed \in [Events -> BOOLEAN]
  /\ claimed \in [Events -> NotClaimed .. MaxRetries - 1]
  /\ rejected \in SUBSET {e \in Events : claimed[e] # NotClaimed}
  /\ \A e \in Events :
       status[e] \in {"PENDING", "DISPATCHED"} => retries[e] < MaxRetries

\* A job that has not failed has attempts left.
QueueTypes ==
  /\ job \in [Events -> {"NONE", "WAITING", "ACTIVE", "DELAYED", "COMPLETED", "FAILED"}]
  /\ attempts \in [Events -> 0 .. MaxAttempts] /\ stalled \in [Events -> BOOLEAN]
  /\ pc \in [Attempts -> {"idle", "sending", "ack", "nack"}]
  /\ lost \in [Attempts -> BOOLEAN]
  /\ closing \in [Events -> {"none", "logs", "event", "write", "letter"}]
  /\ \A e \in Events : job[e] # "FAILED" => attempts[e] < MaxAttempts

DeliveryTypes ==
  /\ part \in [Attempts -> [Configs ->
                 {"out", "open", "todo", "accepted", "refused", "done", "failed"}]]
  /\ begun \in [Attempts -> [Configs -> 0 .. MaxAttempts]]
  /\ log \in [Events -> [Configs -> [status : DeliveryStatus, attempt : 0 .. MaxAttempts]]]
  /\ manual \in SUBSET [event : Events, config : Configs, ok : BOOLEAN,
                        attempt : 1 .. MaxAttempts]
  /\ accepted \in [Events -> [Configs -> 0 .. 2]]

LetterTypes ==
  /\ failing \in [Events -> SUBSET Configs] /\ deadConfigs \in [Events -> SUBSET Configs]
  /\ dead \in SUBSET Events /\ requeueing \in [Events -> {"none", "event", "job"}]

CounterTypes == faults \in 0 .. MaxFaults /\ manuals \in 0 .. MaxManual

Types == OutboxTypes /\ QueueTypes /\ DeliveryTypes /\ LetterTypes /\ CounterTypes

\* The lock of a job has one holder, which is the attempt the queue waits for.
LockIsHeldOnce ==
  /\ \A a \in Attempts : Active(a) => job[a[1]] = "ACTIVE"
  /\ \A a, b \in Attempts : Active(a) /\ Active(b) /\ a[1] = b[1] => a = b

\* Only an attempt that is sending has destinations.
PartsAreSent ==
  \A a \in Attempts : pc[a] # "sending" => part[a] = NoParts

\* Whatever stands for an acceptance was one.
AcceptanceIsReal ==
  /\ \A a \in Attempts, c \in Configs :
       part[a][c] \in {"accepted", "done"} => accepted[a[1]][c] > 0
  /\ \A e \in Events, c \in Configs :
       log[e][c].status = "DELIVERED" => accepted[e][c] > 0
  /\ \A m \in manual : m.ok => accepted[m.event][m.config] > 0

AcceptanceInv ==
  Types /\ LockIsHeldOnce /\ PartsAreSent /\ AcceptanceIsReal /\ ProcessedWasAccepted

\* No fault and no retry by hand so far: nobody lost a lock.
Undisturbed == faults = 0 /\ manuals = 0

\* Then an acceptance is in the log or in the hands of an attempt, and a
\* refusal is of a destination that has never accepted.
AcceptanceIsKnown ==
  Undisturbed =>
    /\ manual = NoManual
    /\ \A a \in Attempts : ~lost[a]
    /\ \A e \in Events, c \in Configs :
         /\ accepted[e][c] <= 1
         /\ accepted[e][c] = 1 =>
              \/ log[e][c].status = "DELIVERED"
              \/ \E a \in Attempts : a[1] = e /\ part[a][c] = "accepted"
    /\ \A a \in Attempts, c \in Configs :
         part[a][c] = "refused" => accepted[a[1]][c] = 0

\* One attempt at a time writes the log of an event.
OneWriter == "stall" \notin FaultKinds /\ MaxManual = 0

\* An attempt that holds an answer holds the only one.
AnswerIsFirst ==
  OneWriter =>
    /\ manual = NoManual
    /\ \A a \in Attempts : ~lost[a]
    /\ \A a \in Attempts, c \in Configs :
         part[a][c] \in {"accepted", "refused"} => log[a[1]][c].status # "DELIVERED"

\* The dispatcher never takes an event that the queue still has.
Orderly ==
  ~SlowQueue /\ ~Requeues /\ "unanswered" \notin FaultKinds

\* No enqueue fails: the dispatcher has nothing to mark as failed.
EnqueuesSucceed == FaultKinds \cap {"enqueue", "unanswered"} = {}

\* No delivery of the event is still to be retried.
Conclusive(e) ==
  \A c \in Configs : log[e][c].status \in {"NONE", "DELIVERED", "FAILED_FINAL"}

\* While nobody loses a lock, the handler of a failed job works alone.
ClosingIsAlone ==
  "stall" \notin FaultKinds =>
    /\ \A a \in Attempts : ~lost[a]
    /\ \A e \in Events :
         /\ closing[e] # "none" => job[e] = "FAILED"
         /\ closing[e] = "write" => status[e] # "PROCESSED"
         /\ requeueing[e] = "event" => e \in dead

\* What the dispatcher may claim, or has claimed, is out of the queue's hands.
OneSideHasIt ==
  "stall" \notin FaultKinds /\ Orderly =>
    \A e \in Events :
      /\ requeueing[e] = "none"
      /\ due[e] \/ claimed[e] # NotClaimed =>
           job[e] \notin {"WAITING", "ACTIVE", "DELAYED"} /\ closing[e] = "none"
      /\ claimed[e] # NotClaimed => status[e] = "DISPATCHED" /\ ~due[e]

\* The handler fails the rows, then the event, then writes the letter; and a
\* letter stays what it was.
LettersAreFinal ==
  OneWriter /\ Orderly =>
    \A e \in Events :
      /\ closing[e] \in {"event", "write", "letter"} => Conclusive(e)
      /\ closing[e] = "letter" => Ended(e)
      /\ e \in dead => Conclusive(e) /\ Ended(e) /\ job[e] \in {"FAILED", "NONE"}

\* No row that says processed is taken up again: either nothing is ever marked
\* as failed by the dispatcher, or it has the event to itself when it does so.
SureDispatch == EnqueuesSucceed \/ ("stall" \notin FaultKinds /\ Orderly)

\* An event with a processing date has ended.
ProcessedIsOver == \A e \in Events : processed[e] => Ended(e)

\* The queue waits only for attempts that exist.
JobIsHeld ==
  /\ \A a \in Attempts : pc[a] = "idle" => ~lost[a]
  /\ \A e \in Events :
       job[e] = "ACTIVE" => \E a \in Attempts : a[1] = e /\ Active(a)

\* Somebody has a step to take on the event: the dispatcher, the clock of its
\* watchdog, the queue, a handler, a script, or an attempt that works or may begin.
InHand(e) ==
  \/ claimed[e] # NotClaimed \/ Dispatchable(e)
  \/ ~due[e] /\ ~InQueue(e)
  \/ job[e] = "DELAYED" \/ closing[e] # "none" \/ requeueing[e] # "none"
  \/ \E a \in Attempts : a[1] = e /\ (pc[a] # "idle" \/ job[e] = "WAITING")

\* An event that has not ended is in somebody's hands.
NoEventIsStranded == \A e \in Events : Ended(e) \/ InHand(e)

-----------------------------------------------------------------------------
(* Who writes what.                                                        *)

\* The dispatcher's columns are written by the dispatcher, an attempt that
\* begins or ends, the handler of a failed job, the requeue and a crash.
LEMMA OutboxWriters ==
  ASSUME Next
  PROVE  \/ UNCHANGED <<outbox, dispatcher>>
         \/ \E batch \in SUBSET Events : ClaimDispatchable(batch)
         \/ \E e \in Events :
              \/ Enqueue(e) \/ EnqueueThrows(e) \/ MarkEnqueueFailed(e)
              \/ DispatchAborts(e) \/ BecomeDue(e) \/ FailEvent(e) \/ ResetEvent(e)
         \/ \E a \in Attempts : Take(a) \/ Settle(a)
         \/ Crash
<1> DEFINE Same == UNCHANGED <<outbox, dispatcher>>
<1>1. ASSUME NEW e \in Events,
             BackoffEnds(e) \/ ForgetJob(e) \/ FailLogs(e) \/ ReadFailedEvent(e)
                     \/ AddDeadLetter(e) \/ RequeueThrows(e)
      PROVE  Same
  BY <1>1
     DEF BackoffEnds, ForgetJob, FailLogs, ReadFailedEvent, AddDeadLetter,
         RequeueThrows, outbox, dispatcher
<1>2. ASSUME NEW e \in Events, NEW force \in BOOLEAN,
             ResetLogs(e, force)
      PROVE  Same
  BY <1>2 DEF ResetLogs, outbox, dispatcher
<1>3. ASSUME NEW e \in Events, NEW remove \in BOOLEAN,
             AddRequeuedJob(e, remove)
      PROVE  Same
  BY <1>3 DEF AddRequeuedJob, outbox, dispatcher
<1>4. ASSUME NEW e \in Events, NEW c \in Configs,
             RetryByHand(e, c)
      PROVE  Same
  BY <1>4 DEF RetryByHand, outbox, dispatcher
<1>5. CASE RecordByHand
  BY <1>5 DEF RecordByHand, outbox, dispatcher
<1>6. ASSUME NEW a \in Attempts,
             Finish(a) \/ Stall(a)
      PROVE  Same
  BY <1>6 DEF Finish, Stall, FailJob, outbox, dispatcher
<1>7. ASSUME NEW a \in Attempts, NEW c \in Configs,
             Send(a, c) \/ Record(a, c) \/ RecordThrows(a, c)
      PROVE  Same
  BY <1>7 DEF Send, Record, RecordThrows, outbox, dispatcher
<1> QED
  BY <1>1, <1>2, <1>3, <1>4, <1>5, <1>6, <1>7 DEF Next, Dispatch, Close, Step

\* The queue and its attempts are written by whoever adds a job, by an attempt
\* that begins or ends, the queue itself, the handler and a fault of the worker.
LEMMA QueueWriters ==
  ASSUME Next
  PROVE  \/ UNCHANGED <<queue, pc, lost, closing>>
         \/ \E e \in Events :
              \/ Enqueue(e) \/ EnqueueThrows(e) \/ BackoffEnds(e) \/ ForgetJob(e)
              \/ FailLogs(e) \/ ReadFailedEvent(e) \/ FailEvent(e) \/ AddDeadLetter(e)
              \/ \E remove \in BOOLEAN : AddRequeuedJob(e, remove)
         \/ \E a \in Attempts : Take(a) \/ Settle(a) \/ Finish(a) \/ Stall(a)
         \/ Crash
<1> DEFINE Same == UNCHANGED <<queue, pc, lost, closing>>
<1>1. ASSUME NEW batch \in SUBSET Events,
             ClaimDispatchable(batch)
      PROVE  Same
  BY <1>1 DEF ClaimDispatchable, queue, deliveries, closings
<1>2. ASSUME NEW e \in Events,
             MarkEnqueueFailed(e) \/ DispatchAborts(e) \/ BecomeDue(e) \/ ResetEvent(e)
                     \/ RequeueThrows(e)
      PROVE  Same
  BY <1>2
     DEF MarkEnqueueFailed, DispatchAborts, BecomeDue, ResetEvent, RequeueThrows,
         queue, deliveries, closings
<1>3. ASSUME NEW e \in Events, NEW force \in BOOLEAN,
             ResetLogs(e, force)
      PROVE  Same
  BY <1>3 DEF ResetLogs, queue, deliveries, closings
<1>4. ASSUME NEW e \in Events, NEW c \in Configs,
             RetryByHand(e, c)
      PROVE  Same
  BY <1>4 DEF RetryByHand, queue, deliveries, closings
<1>5. CASE RecordByHand
  BY <1>5 DEF RecordByHand, queue, deliveries, closings
<1>6. ASSUME NEW a \in Attempts, NEW c \in Configs,
             Send(a, c) \/ Record(a, c) \/ RecordThrows(a, c)
      PROVE  Same
  BY <1>6 DEF Send, Record, RecordThrows, queue, deliveries, closings
<1> QED
  BY <1>1, <1>2, <1>3, <1>4, <1>5, <1>6 DEF Next, Dispatch, Close, Step

\* An attempt is moved by its own steps and by the faults of its worker.
LEMMA AttemptWriters ==
  ASSUME Next
  PROVE  \/ UNCHANGED deliveries
         \/ \E a \in Attempts :
              \/ Take(a) \/ Settle(a) \/ Finish(a) \/ Stall(a)
              \/ \E c \in Configs : Send(a, c) \/ Record(a, c) \/ RecordThrows(a, c)
         \/ Crash
<1> DEFINE Same == UNCHANGED deliveries
<1>1. ASSUME NEW batch \in SUBSET Events,
             ClaimDispatchable(batch)
      PROVE  Same
  BY <1>1 DEF ClaimDispatchable, deliveries
<1>2. ASSUME NEW e \in Events,
             Enqueue(e) \/ EnqueueThrows(e) \/ MarkEnqueueFailed(e) \/ DispatchAborts(e)
                     \/ BecomeDue(e) \/ BackoffEnds(e) \/ ForgetJob(e) \/ FailLogs(e)
                     \/ ReadFailedEvent(e) \/ FailEvent(e) \/ AddDeadLetter(e) \/ ResetEvent(e)
                     \/ RequeueThrows(e)
      PROVE  Same
  BY <1>2
     DEF Enqueue, EnqueueThrows, MarkEnqueueFailed, DispatchAborts, BecomeDue,
         BackoffEnds, ForgetJob, FailLogs, ReadFailedEvent, FailEvent,
         AddDeadLetter, ResetEvent, RequeueThrows, deliveries
<1>3. ASSUME NEW e \in Events, NEW force \in BOOLEAN,
             ResetLogs(e, force)
      PROVE  Same
  BY <1>3 DEF ResetLogs, deliveries
<1>4. ASSUME NEW e \in Events, NEW remove \in BOOLEAN,
             AddRequeuedJob(e, remove)
      PROVE  Same
  BY <1>4 DEF AddRequeuedJob, deliveries
<1>5. ASSUME NEW e \in Events, NEW c \in Configs,
             RetryByHand(e, c)
      PROVE  Same
  BY <1>5 DEF RetryByHand, deliveries
<1>6. CASE RecordByHand
  BY <1>6 DEF RecordByHand, deliveries
<1> QED
  BY <1>1, <1>2, <1>3, <1>4, <1>5, <1>6 DEF Next, Dispatch, Close, Step

\* The deliveries are written by the attempts, the handler of a failed job, the
\* requeue, the retry by hand and a crash.
LEMMA DeliveryWriters ==
  ASSUME Next
  PROVE  \/ UNCHANGED <<part, begun, log, manual, accepted, manuals>>
         \/ \E e \in Events :
              \/ FailLogs(e) \/ \E force \in BOOLEAN : ResetLogs(e, force)
              \/ \E c \in Configs : RetryByHand(e, c)
         \/ RecordByHand
         \/ \E a \in Attempts :
              \/ Take(a) \/ Settle(a)
              \/ \E c \in Configs : Send(a, c) \/ Record(a, c) \/ RecordThrows(a, c)
         \/ Crash
<1> DEFINE Same == UNCHANGED <<part, begun, log, manual, accepted, manuals>>
<1>1. ASSUME NEW batch \in SUBSET Events,
             ClaimDispatchable(batch)
      PROVE  Same
  BY <1>1 DEF ClaimDispatchable, deliveries
<1>2. ASSUME NEW e \in Events,
             Enqueue(e) \/ EnqueueThrows(e) \/ MarkEnqueueFailed(e) \/ DispatchAborts(e)
                     \/ BecomeDue(e) \/ BackoffEnds(e) \/ ForgetJob(e) \/ ReadFailedEvent(e)
                     \/ FailEvent(e) \/ AddDeadLetter(e) \/ ResetEvent(e) \/ RequeueThrows(e)
      PROVE  Same
  BY <1>2
     DEF Enqueue, EnqueueThrows, MarkEnqueueFailed, DispatchAborts, BecomeDue,
         BackoffEnds, ForgetJob, ReadFailedEvent, FailEvent, AddDeadLetter,
         ResetEvent, RequeueThrows, deliveries
<1>3. ASSUME NEW e \in Events, NEW remove \in BOOLEAN,
             AddRequeuedJob(e, remove)
      PROVE  Same
  BY <1>3 DEF AddRequeuedJob, deliveries
<1>4. ASSUME NEW a \in Attempts,
             Finish(a) \/ Stall(a)
      PROVE  Same
  BY <1>4 DEF Finish, Stall, FailJob, deliveries
<1> QED
  BY <1>1, <1>2, <1>3, <1>4 DEF Next, Dispatch, Close, Step

\* Dead letters are written by the handler, the requeue and a crash.
LEMMA LetterWriters ==
  ASSUME Next
  PROVE  \/ UNCHANGED <<failing, deadLetters, requeueing>>
         \/ \E e \in Events :
              \/ FailLogs(e) \/ AddDeadLetter(e)
              \/ \E force \in BOOLEAN : ResetLogs(e, force)
              \/ ResetEvent(e) \/ RequeueThrows(e)
              \/ \E remove \in BOOLEAN : AddRequeuedJob(e, remove)
         \/ Crash
<1> DEFINE Same == UNCHANGED <<failing, deadLetters, requeueing>>
<1>1. ASSUME NEW batch \in SUBSET Events,
             ClaimDispatchable(batch)
      PROVE  Same
  BY <1>1 DEF ClaimDispatchable, deadLetters, closings
<1>2. ASSUME NEW e \in Events,
             Enqueue(e) \/ EnqueueThrows(e) \/ MarkEnqueueFailed(e) \/ DispatchAborts(e)
                     \/ BecomeDue(e) \/ BackoffEnds(e) \/ ForgetJob(e) \/ ReadFailedEvent(e)
                     \/ FailEvent(e)
      PROVE  Same
  BY <1>2
     DEF Enqueue, EnqueueThrows, MarkEnqueueFailed, DispatchAborts, BecomeDue,
         BackoffEnds, ForgetJob, ReadFailedEvent, FailEvent, deadLetters, closings
<1>3. ASSUME NEW e \in Events, NEW c \in Configs,
             RetryByHand(e, c)
      PROVE  Same
  BY <1>3 DEF RetryByHand, deadLetters, closings
<1>4. CASE RecordByHand
  BY <1>4 DEF RecordByHand, deadLetters, closings
<1>5. ASSUME NEW a \in Attempts,
             Take(a) \/ Settle(a) \/ Finish(a) \/ Stall(a)
      PROVE  Same
  BY <1>5 DEF Take, Settle, Finish, Stall, FailJob, deadLetters, closings
<1>6. ASSUME NEW a \in Attempts, NEW c \in Configs,
             Send(a, c) \/ Record(a, c) \/ RecordThrows(a, c)
      PROVE  Same
  BY <1>6 DEF Send, Record, RecordThrows, deadLetters, closings
<1> QED
  BY <1>1, <1>2, <1>3, <1>4, <1>5, <1>6 DEF Next, Dispatch, Close, Step

-----------------------------------------------------------------------------
(* Types.                                                                  *)

\* What the assumption on the constants says of them one by one.
LEMMA ConstantTypes ==
  /\ MaxAttempts \in Nat /\ MaxAttempts > 0 /\ MaxRetries \in Nat /\ MaxRetries > 0
  /\ MaxFaults \in Nat /\ MaxManual \in Nat
  /\ \A a \in Attempts : a[1] \in Events
BY DeliveryAssumption DEF Attempts

\* One entry of a table of tables changes.
LEMMA GridUpdate ==
  ASSUME NEW S, NEW T, NEW V, NEW f \in [S -> [T -> V]],
         NEW x \in S, NEW y \in T, NEW v \in V, NEW g, g = [f EXCEPT ![x][y] = v]
  PROVE  /\ g \in [S -> [T -> V]]
         /\ \A i \in S, j \in T : g[i][j] = IF i = x /\ j = y THEN v ELSE f[i][j]
<1>1. f[x] \in [T -> V]
  OBVIOUS
<1>2. [f[x] EXCEPT ![y] = v] \in [T -> V]
  BY <1>1
<1>3. g = [f EXCEPT ![x] = [f[x] EXCEPT ![y] = v]]
  OBVIOUS
<1>4. g \in [S -> [T -> V]]
  BY <1>2, <1>3
<1>5. ASSUME NEW i \in S, NEW j \in T
      PROVE  g[i][j] = IF i = x /\ j = y THEN v ELSE f[i][j]
  <2>1. CASE i = x
    BY <2>1, <1>1, <1>3
  <2>2. CASE i # x
    BY <2>2, <1>3
  <2> QED
    BY <2>1, <2>2
<1> QED
  BY <1>4, <1>5

\* The columns keep their types; what the dispatcher claims has a retry left.
LEMMA OutboxTyped ==
  ASSUME OutboxTypes, Next
  PROVE  OutboxTypes'
<1> USE ConstantTypes DEF OutboxTypes, NotClaimed
<1>1. CASE UNCHANGED <<outbox, dispatcher>>
  BY <1>1 DEF outbox, dispatcher
<1>2. ASSUME NEW batch \in SUBSET Events, ClaimDispatchable(batch)
      PROVE  OutboxTypes'
  BY <1>2 DEF ClaimDispatchable, Dispatchable
<1>3. ASSUME NEW e \in Events, Enqueue(e) \/ EnqueueThrows(e) \/ BecomeDue(e)
      PROVE  OutboxTypes'
  <2>1. CASE Enqueue(e)
    BY <2>1 DEF Enqueue, outbox
  <2>2. CASE EnqueueThrows(e)
    BY <2>2 DEF EnqueueThrows, outbox
  <2>3. CASE BecomeDue(e)
    BY <2>3 DEF BecomeDue, dispatcher
  <2> QED
    BY <1>3, <2>1, <2>2, <2>3
<1>4. ASSUME NEW e \in Events, MarkEnqueueFailed(e)
      PROVE  OutboxTypes'
  BY <1>4 DEF MarkEnqueueFailed
<1>5. ASSUME NEW e \in Events, DispatchAborts(e)
      PROVE  OutboxTypes'
  BY <1>5 DEF DispatchAborts, outbox
<1>6. ASSUME NEW e \in Events, FailEvent(e) \/ ResetEvent(e)
      PROVE  OutboxTypes'
  <2>1. CASE FailEvent(e)
    BY <2>1 DEF FailEvent, dispatcher
  <2>2. CASE ResetEvent(e)
    BY <2>2 DEF ResetEvent, dispatcher
  <2> QED
    BY <1>6, <2>1, <2>2
<1>7. ASSUME NEW a \in Attempts, Take(a) \/ Settle(a)
      PROVE  OutboxTypes'
  BY <1>7 DEF Take, Settle, outbox, dispatcher
<1>8. CASE Crash
  BY <1>8 DEF Crash, outbox
<1> QED
  BY <1>1, <1>2, <1>3, <1>4, <1>5, <1>6, <1>7, <1>8, OutboxWriters

\* The attempts of a job run out only when it has failed; the lock is taken from
\* a waiting job and given up with the job.
LEMMA QueueTyped ==
  ASSUME QueueTypes, LockIsHeldOnce, Next
  PROVE  QueueTypes' /\ LockIsHeldOnce'
<1> DEFINE Goal == QueueTypes' /\ LockIsHeldOnce'
<1> USE ConstantTypes DEF QueueTypes, LockIsHeldOnce, Active
<1>1. CASE UNCHANGED <<queue, pc, lost, closing>>
  BY <1>1 DEF queue
<1>2. ASSUME NEW e \in Events,
             \/ Enqueue(e) \/ EnqueueThrows(e)
             \/ \E remove \in BOOLEAN : AddRequeuedJob(e, remove)
      PROVE  Goal
  BY <1>2 DEF Enqueue, EnqueueThrows, AddRequeuedJob, AddJob, queue, deliveries, closings
<1>3. ASSUME NEW e \in Events, BackoffEnds(e) \/ ForgetJob(e)
      PROVE  Goal
  <2>1. CASE BackoffEnds(e)
    BY <2>1 DEF BackoffEnds, deliveries, closings
  <2>2. CASE ForgetJob(e)
    BY <2>2 DEF ForgetJob, deliveries, closings
  <2> QED
    BY <1>3, <2>1, <2>2
<1>4. ASSUME NEW e \in Events,
             FailLogs(e) \/ ReadFailedEvent(e) \/ FailEvent(e) \/ AddDeadLetter(e)
      PROVE  Goal
  <2>1. UNCHANGED <<queue, deliveries>>
    BY <1>4 DEF FailLogs, ReadFailedEvent, FailEvent, AddDeadLetter
  <2>2. closing' \in [Events -> {"none", "logs", "event", "write", "letter"}]
    BY <1>4 DEF FailLogs, ReadFailedEvent, FailEvent, AddDeadLetter
  <2> QED
    BY <2>1, <2>2 DEF queue, deliveries
<1>5. ASSUME NEW a \in Attempts, Take(a) \/ Settle(a)
      PROVE  Goal
  BY <1>5 DEF Take, Settle, GoTo, queue, closings
<1>6. ASSUME NEW a \in Attempts, Finish(a)
      PROVE  Goal
  BY <1>6 DEF Finish, FailJob, GoTo, queue, closings
<1>7. ASSUME NEW a \in Attempts, Stall(a)
      PROVE  Goal
  BY <1>7 DEF Stall, ReturnJobs, Exhausted
<1>8. CASE Crash
  BY <1>8 DEF Crash, ReturnJobs, Exhausted
<1> QED
  BY <1>1, <1>2, <1>3, <1>4, <1>5, <1>6, <1>7, <1>8, QueueWriters

\* A destination that accepts is served, and no other count changes.
LEMMA AcceptUpdates ==
  ASSUME DeliveryTypes, NEW e \in Events, NEW c \in Configs, Accept(e, c)
  PROVE  /\ accepted' \in [Events -> [Configs -> 0 .. 2]]
         /\ accepted'[e][c] > 0 /\ accepted'[e][c] <= accepted[e][c] + 1
         /\ \A f \in Events, d \in Configs :
              /\ <<f, d>> # <<e, c>> => accepted'[f][d] = accepted[f][d]
              /\ accepted'[f][d] >= accepted[f][d]
<1> DEFINE n == IF accepted[e][c] < 2 THEN accepted[e][c] + 1 ELSE accepted[e][c]
<1>1. accepted \in [Events -> [Configs -> 0 .. 2]] /\ accepted[e][c] \in 0 .. 2
  BY DEF DeliveryTypes
<1>2. n \in 0 .. 2 /\ n > 0 /\ n <= accepted[e][c] + 1 /\ n >= accepted[e][c]
  BY <1>1
<1>3. accepted' = [accepted EXCEPT ![e][c] = n]
  BY DEF Accept
<1> HIDE DEF n
<1>4. /\ accepted' \in [Events -> [Configs -> 0 .. 2]]
      /\ \A f \in Events, d \in Configs :
           accepted'[f][d] = IF f = e /\ d = c THEN n ELSE accepted[f][d]
  BY <1>1, <1>2, <1>3, GridUpdate
<1> QED
  BY <1>1, <1>2, <1>4

\* The deliveries keep their types; attempt numbers stay within the maximum.
LEMMA DeliveriesTyped ==
  ASSUME QueueTypes, DeliveryTypes, Next
  PROVE  DeliveryTypes'
<1> USE ConstantTypes DEF QueueTypes, DeliveryTypes, DeliveryStatus
<1>1. CASE UNCHANGED <<part, begun, log, manual, accepted, manuals>>
  BY <1>1
<1>2. ASSUME NEW e \in Events, FailLogs(e)
      PROVE  DeliveryTypes'
  BY <1>2 DEF FailLogs, Rows, Undelivered, deliveries
<1>3. ASSUME NEW e \in Events, NEW force \in BOOLEAN, ResetLogs(e, force)
      PROVE  DeliveryTypes'
  BY <1>3 DEF ResetLogs, Rows, Undelivered, deliveries
<1>4. ASSUME NEW e \in Events, NEW c \in Configs, RetryByHand(e, c)
      PROVE  DeliveryTypes'
  <2>1. UNCHANGED <<log, part, begun>>
    BY <1>4 DEF RetryByHand, deliveries
  <2>2. accepted' \in [Events -> [Configs -> 0 .. 2]]
    BY <1>4, AcceptUpdates DEF RetryByHand
  <2>3. log[e][c].attempt \in 0 .. MaxAttempts
    OBVIOUS
  <2>4. NextAttempt(log[e][c].attempt) \in 1 .. MaxAttempts
    BY <2>3 DEF NextAttempt
  <2>5. manual' \in SUBSET [event : Events, config : Configs, ok : BOOLEAN,
                           attempt : 1 .. MaxAttempts]
    BY <1>4, <2>4 DEF RetryByHand
  <2> QED
    BY <2>1, <2>2, <2>5
<1>5. CASE RecordByHand
  BY <1>5 DEF RecordByHand, Delivered, Refused, NoManual, deliveries
<1>6. ASSUME NEW a \in Attempts, Take(a) \/ Settle(a)
      PROVE  DeliveryTypes'
  <2>1. UNCHANGED <<log, begun, manual, accepted>>
    BY <1>6 DEF Take, Settle
  <2>2. CASE Take(a)
    <3>1. CASE part' = part
      BY <2>1, <3>1
    <3>2. CASE \E open \in SUBSET Destinations[a[1]] :
                 part' = [part EXCEPT ![a] = Parts(a[1], open)]
      BY <2>1, <3>2 DEF Parts
    <3> QED
      BY <2>2, <3>1, <3>2 DEF Take, outbox
  <2>3. CASE Settle(a)
    BY <2>1, <2>3 DEF Settle, NoParts
  <2> QED
    BY <1>6, <2>2, <2>3
<1>7. ASSUME NEW a \in Attempts, NEW c \in Configs, Send(a, c)
      PROVE  DeliveryTypes'
  <2>1. UNCHANGED <<log, manual>>
    BY <1>7 DEF Send
  <2>2. accepted' \in [Events -> [Configs -> 0 .. 2]]
    BY <1>7, AcceptUpdates DEF Send
  <2>3. log[a[1]][c].attempt \in 0 .. MaxAttempts
    OBVIOUS
  <2>4. NextAttempt(log[a[1]][c].attempt) \in 0 .. MaxAttempts
    BY <2>3 DEF NextAttempt
  <2>5. begun' \in [Attempts -> [Configs -> 0 .. MaxAttempts]]
    <3>1. \/ UNCHANGED begun
          \/ begun' = [begun EXCEPT ![a][c] = NextAttempt(log[a[1]][c].attempt)]
      BY <1>7 DEF Send
    <3>2. CASE UNCHANGED begun
      BY <3>2
    <3>3. CASE begun' = [begun EXCEPT ![a][c] = NextAttempt(log[a[1]][c].attempt)]
      BY <2>4, <3>3, GridUpdate
    <3> QED
      BY <3>1, <3>2, <3>3
  <2>6. \E v \in {"done", "accepted", "refused"} : part' = [part EXCEPT ![a][c] = v]
    BY <1>7 DEF Send
  <2>7. part' \in [Attempts -> [Configs ->
                  {"out", "open", "todo", "accepted", "refused", "done", "failed"}]]
    BY <2>6, GridUpdate
  <2> QED
    BY <2>1, <2>2, <2>5, <2>7
<1>8. ASSUME NEW a \in Attempts, NEW c \in Configs, Record(a, c) \/ RecordThrows(a, c)
      PROVE  DeliveryTypes'
  <2>1. UNCHANGED <<manual, accepted>>
    BY <1>8 DEF Record, RecordThrows
  <2>2. begun[a][c] \in 0 .. MaxAttempts
    OBVIOUS
  <2>3. begun' \in [Attempts -> [Configs -> 0 .. MaxAttempts]]
    <3>1. begun' = [begun EXCEPT ![a][c] = 0]
      BY <1>8 DEF Record, RecordThrows
    <3> QED
      BY <3>1, GridUpdate
  <2>4. part' \in [Attempts -> [Configs ->
                  {"out", "open", "todo", "accepted", "refused", "done", "failed"}]]
    <3>1. \E v \in {"done", "failed"} : part' = [part EXCEPT ![a][c] = v]
      BY <1>8 DEF Record, RecordThrows
    <3> QED
      BY <3>1, GridUpdate
  <2>5. log' \in [Events -> [Configs -> [status : DeliveryStatus, attempt : 0 .. MaxAttempts]]]
    <3>1. \/ UNCHANGED log
          \/ \E v \in {Delivered(begun[a][c]), Refused(begun[a][c])} :
               log' = [log EXCEPT ![a[1]][c] = v]
      BY <1>8 DEF Record, RecordThrows
    <3>2. Delivered(begun[a][c]) \in [status : DeliveryStatus, attempt : 0 .. MaxAttempts]
      BY <2>2 DEF Delivered
    <3>3. Refused(begun[a][c]) \in [status : DeliveryStatus, attempt : 0 .. MaxAttempts]
      BY <2>2 DEF Refused
    <3>4. CASE UNCHANGED log
      BY <3>4
    <3>5. ASSUME NEW v \in {Delivered(begun[a][c]), Refused(begun[a][c])},
                 log' = [log EXCEPT ![a[1]][c] = v]
          PROVE  log' \in [Events -> [Configs ->
                            [status : DeliveryStatus, attempt : 0 .. MaxAttempts]]]
      BY <3>2, <3>3, <3>5, GridUpdate
    <3> QED
      BY <3>1, <3>4, <3>5
  <2> QED
    BY <2>1, <2>3, <2>4, <2>5
<1>9. CASE Crash
  BY <1>9 DEF Crash, NoParts
<1> QED
  BY <1>1, <1>2, <1>3, <1>4, <1>5, <1>6, <1>7, <1>8, <1>9, DeliveryWriters

\* Dead letters and requeues keep their types.
LEMMA LettersTyped ==
  ASSUME LetterTypes, Next
  PROVE  LetterTypes'
<1> USE DEF LetterTypes
<1>1. CASE UNCHANGED <<failing, deadLetters, requeueing>>
  BY <1>1 DEF deadLetters
<1>2. ASSUME NEW e \in Events, FailLogs(e) \/ AddDeadLetter(e)
      PROVE  LetterTypes'
  BY <1>2 DEF FailLogs, AddDeadLetter, Undelivered, deadLetters
<1>3. ASSUME NEW e \in Events, NEW force \in BOOLEAN, ResetLogs(e, force)
      PROVE  LetterTypes'
  BY <1>3 DEF ResetLogs, deadLetters, closings
<1>4. ASSUME NEW e \in Events, ResetEvent(e) \/ RequeueThrows(e)
      PROVE  LetterTypes'
  BY <1>4 DEF ResetEvent, RequeueThrows, deadLetters, closings
<1>5. ASSUME NEW e \in Events, NEW remove \in BOOLEAN, AddRequeuedJob(e, remove)
      PROVE  LetterTypes'
  BY <1>5 DEF AddRequeuedJob, closings
<1>6. CASE Crash
  BY <1>6 DEF Crash, deadLetters
<1> QED
  BY <1>1, <1>2, <1>3, <1>4, <1>5, <1>6, LetterWriters

\* Faults and retries by hand are counted, never forgotten, and bounded.
LEMMA CountersTyped ==
  ASSUME CounterTypes, Next
  PROVE  CounterTypes' /\ faults' >= faults /\ manuals' >= manuals
<1> DEFINE Goal == CounterTypes' /\ faults' >= faults /\ manuals' >= manuals
<1> USE ConstantTypes DEF CounterTypes, Fault
<1>1. ASSUME NEW batch \in SUBSET Events, ClaimDispatchable(batch)
      PROVE  Goal
  BY <1>1 DEF ClaimDispatchable
<1>2. ASSUME NEW e \in Events,
             \/ Enqueue(e) \/ EnqueueThrows(e) \/ MarkEnqueueFailed(e) \/ DispatchAborts(e)
             \/ BecomeDue(e) \/ BackoffEnds(e) \/ ForgetJob(e)
      PROVE  Goal
  BY <1>2 DEF Enqueue, EnqueueThrows, MarkEnqueueFailed, DispatchAborts, BecomeDue,
              BackoffEnds, ForgetJob
<1>3. ASSUME NEW e \in Events,
             FailLogs(e) \/ ReadFailedEvent(e) \/ FailEvent(e) \/ AddDeadLetter(e)
      PROVE  Goal
  <2>1. UNCHANGED <<faults, manuals>>
    BY <1>3 DEF FailLogs, ReadFailedEvent, FailEvent, AddDeadLetter
  <2> QED
    BY <2>1
<1>4. ASSUME NEW e \in Events,
             \/ \E force \in BOOLEAN : ResetLogs(e, force)
             \/ ResetEvent(e)
             \/ \E remove \in BOOLEAN : AddRequeuedJob(e, remove)
             \/ RequeueThrows(e)
             \/ \E c \in Configs : RetryByHand(e, c)
      PROVE  Goal
  <2>1. ASSUME NEW force \in BOOLEAN, ResetLogs(e, force)
        PROVE  Goal
    <3>1. UNCHANGED <<faults, manuals>>
      BY <2>1 DEF ResetLogs
    <3> QED
      BY <3>1
  <2>2. CASE ResetEvent(e) \/ RequeueThrows(e)
    BY <2>2 DEF ResetEvent, RequeueThrows
  <2>3. CASE \E remove \in BOOLEAN : AddRequeuedJob(e, remove)
    BY <2>3 DEF AddRequeuedJob
  <2>4. CASE \E c \in Configs : RetryByHand(e, c)
    BY <2>4 DEF RetryByHand
  <2> QED
    BY <1>4, <2>1, <2>2, <2>3, <2>4
<1>5. CASE RecordByHand
  BY <1>5 DEF RecordByHand
<1>6. ASSUME NEW a \in Attempts, Take(a) \/ Settle(a) \/ Finish(a) \/ Stall(a)
      PROVE  Goal
  BY <1>6 DEF Take, Settle, Finish, Stall
<1>7. ASSUME NEW a \in Attempts, NEW c \in Configs,
             Send(a, c) \/ Record(a, c) \/ RecordThrows(a, c)
      PROVE  Goal
  BY <1>7 DEF Send, Record, RecordThrows
<1>8. CASE Crash
  BY <1>8 DEF Crash
<1> QED
  BY <1>1, <1>2, <1>3, <1>4, <1>5, <1>6, <1>7, <1>8 DEF Next, Dispatch, Close, Step

\* Every step keeps the types, and one holder per lock.
LEMMA TypesHold ==
  ASSUME Types, LockIsHeldOnce, [Next]_vars
  PROVE  Types' /\ LockIsHeldOnce'
<1>1. CASE Next
  BY <1>1, OutboxTyped, QueueTyped, DeliveriesTyped, LettersTyped, CountersTyped DEF Types
<1>2. CASE UNCHANGED vars
  BY <1>2 DEF vars, outbox, dispatcher, queue, deliveries, closings, deadLetters,
         Types, OutboxTypes, QueueTypes, DeliveryTypes, LetterTypes, CounterTypes,
         LockIsHeldOnce, Active
<1> QED
  BY <1>1, <1>2

\* The groups are the type invariant.
LEMMA TypesAreTypeOK == Types => TypeOK
BY DEF Types, OutboxTypes, QueueTypes, DeliveryTypes, LetterTypes, CounterTypes, TypeOK

-----------------------------------------------------------------------------
(* What was processed was accepted.                                        *)

\* Only an attempt that is sending has destinations, after every step.
LEMMA PartsStaySent ==
  ASSUME Types, PartsAreSent, Next
  PROVE  PartsAreSent'
<1> USE DEF PartsAreSent, Types, QueueTypes, DeliveryTypes
<1>1. CASE UNCHANGED deliveries
  BY <1>1 DEF deliveries
<1>2. ASSUME NEW a \in Attempts, Take(a)
      PROVE  PartsAreSent'
  BY <1>2 DEF Take, GoTo, outbox
<1>3. ASSUME NEW a \in Attempts, Settle(a) \/ Finish(a) \/ Stall(a)
      PROVE  PartsAreSent'
  BY <1>3 DEF Settle, Finish, Stall, GoTo
<1>4. ASSUME NEW a \in Attempts, NEW c \in Configs,
             Send(a, c) \/ Record(a, c) \/ RecordThrows(a, c)
      PROVE  PartsAreSent'
  <2>1. part[a][c] \in {"todo", "accepted", "refused"} /\ UNCHANGED pc
    BY <1>4 DEF Send, Record, RecordThrows
  <2>2. pc[a] = "sending"
    BY <2>1 DEF NoParts
  <2>3. ASSUME NEW b \in Attempts, b # a
        PROVE  part'[b] = part[b]
    BY <1>4, <2>3 DEF Send, Record, RecordThrows
  <2> QED
    BY <2>1, <2>2, <2>3
<1>5. CASE Crash
  BY <1>5 DEF Crash
<1> QED
  BY <1>1, <1>2, <1>3, <1>4, <1>5, AttemptWriters

\* What the tables hold.
LEMMA Entries ==
  ASSUME DeliveryTypes
  PROVE  \A e \in Events, c \in Configs :
           /\ accepted[e][c] \in 0 .. 2
           /\ log[e][c] \in [status : DeliveryStatus, attempt : 0 .. MaxAttempts]
<1>1. ASSUME NEW e \in Events, NEW c \in Configs
      PROVE  /\ accepted[e][c] \in 0 .. 2
             /\ log[e][c] \in [status : DeliveryStatus, attempt : 0 .. MaxAttempts]
  <2>1. /\ accepted[e] \in [Configs -> 0 .. 2]
        /\ log[e] \in [Configs -> [status : DeliveryStatus, attempt : 0 .. MaxAttempts]]
    BY DEF DeliveryTypes
  <2> QED
    BY <2>1
<1> QED
  BY <1>1

\* Nobody takes an acceptance back.
LEMMA AcceptedGrows ==
  ASSUME Types, Next
  PROVE  \A e \in Events, c \in Configs : accepted'[e][c] >= accepted[e][c]
<1> DEFINE Goal == \A e \in Events, c \in Configs : accepted'[e][c] >= accepted[e][c]
<1>1. DeliveryTypes
  BY DEF Types
<1>2. CASE UNCHANGED accepted
  <2>1. \A e \in Events, c \in Configs : accepted[e][c] \in 0 .. 2
    BY <1>1, Entries
  <2> QED
    BY <1>2, <2>1
<1>3. ASSUME NEW e \in Events, NEW c \in Configs, Accept(e, c)
      PROVE  Goal
  BY <1>1, <1>3, AcceptUpdates
<1>4. \/ UNCHANGED accepted
      \/ \E e \in Events, c \in Configs : Accept(e, c)
  <2>1. ASSUME NEW e \in Events,
               FailLogs(e) \/ \E force \in BOOLEAN : ResetLogs(e, force)
        PROVE  UNCHANGED accepted
    BY <2>1 DEF FailLogs, ResetLogs
  <2>2. ASSUME NEW e \in Events, NEW c \in Configs, RetryByHand(e, c)
        PROVE  UNCHANGED accepted \/ Accept(e, c)
    BY <2>2 DEF RetryByHand
  <2>3. ASSUME NEW a \in Attempts, NEW c \in Configs, Send(a, c)
        PROVE  UNCHANGED accepted \/ Accept(a[1], c)
    BY <2>3 DEF Send
  <2>4. ASSUME NEW a \in Attempts,
               Take(a) \/ Settle(a) \/ \E c \in Configs : Record(a, c) \/ RecordThrows(a, c)
        PROVE  UNCHANGED accepted
    BY <2>4 DEF Take, Settle, Record, RecordThrows
  <2>5. CASE RecordByHand \/ Crash
    BY <2>5 DEF RecordByHand, Crash
  <2>6. CASE UNCHANGED accepted
    BY <2>6
  <2>7. \/ UNCHANGED accepted
        \/ \E e \in Events :
             \/ FailLogs(e) \/ \E force \in BOOLEAN : ResetLogs(e, force)
             \/ \E c \in Configs : RetryByHand(e, c)
        \/ \E a \in Attempts :
             \/ Take(a) \/ Settle(a)
             \/ \E c \in Configs : Send(a, c) \/ Record(a, c) \/ RecordThrows(a, c)
        \/ RecordByHand \/ Crash
    BY DeliveryWriters
  <2> QED
    BY <2>1, <2>2, <2>3, <2>4, <2>5, <2>7, ConstantTypes
<1> QED
  BY <1>2, <1>3, <1>4

\* Acceptances are numbers before and after a step, and do not get fewer.
LEMMA AcceptedCounts ==
  ASSUME Types, Next
  PROVE  /\ DeliveryTypes /\ DeliveryTypes'
         /\ \A e \in Events, c \in Configs :
              /\ accepted[e][c] \in Nat /\ accepted'[e][c] \in Nat
              /\ accepted'[e][c] >= accepted[e][c]
<1>1. DeliveryTypes /\ DeliveryTypes'
  BY DeliveriesTyped DEF Types
<1>2. \A e \in Events, c \in Configs : accepted[e][c] \in 0 .. 2
  BY <1>1, Entries
<1>3. \A e \in Events, c \in Configs : accepted'[e][c] >= accepted[e][c]
  BY AcceptedGrows
<1>4. ASSUME NEW e \in Events, NEW c \in Configs
      PROVE  accepted'[e][c] \in Nat
  <2>1. accepted'[e] \in [Configs -> 0 .. 2]
    BY <1>1 DEF DeliveryTypes
  <2> QED
    BY <2>1
<1> QED
  BY <1>1, <1>2, <1>3, <1>4

\* The handler of a failed job and the requeue rewrite rows in bulk, but neither
\* a delivered row nor to a delivered one.
LEMMA SweepsSpareDelivered ==
  ASSUME DeliveryTypes, NEW e \in Events,
         FailLogs(e) \/ \E force \in BOOLEAN : ResetLogs(e, force)
  PROVE  \A f \in Events, c \in Configs :
           log'[f][c].status = "DELIVERED" <=> log[f][c].status = "DELIVERED"
<1>1. \E w \in {"FAILED_FINAL", "PENDING"}, n \in {attempts[e], 0}, X \in SUBSET Undelivered(e) :
        log' = [log EXCEPT ![e] = [c \in Configs |->
                  IF c \in X THEN [status |-> w, attempt |-> n] ELSE log[e][c]]]
  <2>1. CASE FailLogs(e)
    BY <2>1 DEF FailLogs, Rows
  <2>2. ASSUME NEW force \in BOOLEAN, ResetLogs(e, force)
        PROVE  log' = [log EXCEPT ![e] = [c \in Configs |->
                 IF c \in Resettable(e) THEN [status |-> "PENDING", attempt |-> 0]
                 ELSE log[e][c]]]
    BY <2>2 DEF ResetLogs, Rows
  <2>3. Resettable(e) \in SUBSET Undelivered(e)
    BY DEF Resettable
  <2> QED
    BY <2>1, <2>2, <2>3
<1>2. \A c \in Undelivered(e) : c \in Configs /\ log[e][c].status # "DELIVERED"
  BY DEF Undelivered
<1> QED
  BY <1>1, <1>2 DEF DeliveryTypes

\* No step takes something for an acceptance that was none.
LEMMA AcceptanceStaysReal ==
  ASSUME Types, AcceptanceIsReal, Next
  PROVE  AcceptanceIsReal'
<1> DEFINE P == \A a \in Attempts, c \in Configs :
                 part[a][c] \in {"accepted", "done"} => accepted[a[1]][c] > 0
           L == \A e \in Events, c \in Configs :
                 log[e][c].status = "DELIVERED" => accepted[e][c] > 0
           M == \A m \in manual : m.ok => accepted[m.event][m.config] > 0
<1>0. /\ DeliveryTypes /\ DeliveryTypes'
      /\ \A e \in Events, c \in Configs :
           /\ accepted[e][c] \in Nat /\ accepted'[e][c] \in Nat
           /\ accepted'[e][c] >= accepted[e][c]
  BY AcceptedCounts
<1>1. part' = part => P'
  BY <1>0, ConstantTypes DEF AcceptanceIsReal
<1>2. log' = log => L'
  BY <1>0 DEF AcceptanceIsReal
<1>3. manual' = manual => M'
  BY <1>0 DEF AcceptanceIsReal, DeliveryTypes
<1>4. CASE UNCHANGED <<part, begun, log, manual, accepted, manuals>>
  BY <1>1, <1>2, <1>3, <1>4 DEF AcceptanceIsReal
<1>5. ASSUME NEW e \in Events,
             FailLogs(e) \/ \E force \in BOOLEAN : ResetLogs(e, force)
      PROVE  AcceptanceIsReal'
  <2>1. UNCHANGED <<part, manual>>
    BY <1>5 DEF FailLogs, ResetLogs, deliveries
  <2>2. \A f \in Events, c \in Configs :
          log'[f][c].status = "DELIVERED" => log[f][c].status = "DELIVERED"
    BY <1>5, SweepsSpareDelivered DEF Types
  <2>3. L'
    BY <1>0, <2>2 DEF AcceptanceIsReal
  <2> QED
    BY <1>1, <1>3, <2>1, <2>3 DEF AcceptanceIsReal
<1>6. ASSUME NEW e \in Events, NEW c \in Configs, RetryByHand(e, c)
      PROVE  AcceptanceIsReal'
  <2>1. UNCHANGED <<part, log>>
    BY <1>6 DEF RetryByHand, deliveries
  <2>2. PICK ok \in BOOLEAN :
          /\ manual' = {[event |-> e, config |-> c, ok |-> ok,
                         attempt |-> NextAttempt(log[e][c].attempt)]}
          /\ ok => Accept(e, c)
    BY <1>6 DEF RetryByHand
  <2>3. ok => accepted'[e][c] > 0
    BY <1>0, <2>2, AcceptUpdates
  <2>4. M'
    BY <2>2, <2>3
  <2> QED
    BY <1>1, <1>2, <2>1, <2>4 DEF AcceptanceIsReal
<1>7. CASE RecordByHand
  <2>1. UNCHANGED <<part, accepted>> /\ manual' = {}
    BY <1>7 DEF RecordByHand, deliveries, NoManual
  <2>2. PICK m \in manual :
          log' = [log EXCEPT ![m.event][m.config] =
                    IF m.ok THEN Delivered(m.attempt) ELSE Refused(m.attempt)]
    BY <1>7 DEF RecordByHand
  <2>3. m.event \in Events /\ m.config \in Configs /\ m.ok \in BOOLEAN
    BY <1>0 DEF DeliveryTypes
  <2>4. \A f \in Events, d \in Configs :
          log'[f][d].status = "DELIVERED" =>
            log[f][d].status = "DELIVERED" \/ (f = m.event /\ d = m.config /\ m.ok)
    BY <1>0, <2>2, <2>3 DEF Refused, DeliveryTypes
  <2>5. L'
    BY <1>0, <2>1, <2>4 DEF AcceptanceIsReal
  <2> QED
    BY <1>1, <2>1, <2>5 DEF AcceptanceIsReal
<1>8. ASSUME NEW a \in Attempts, Take(a) \/ Settle(a)
      PROVE  AcceptanceIsReal'
  <2>1. UNCHANGED <<log, manual, accepted>>
    BY <1>8 DEF Take, Settle
  <2>2. \A b \in Attempts, c \in Configs :
          part'[b][c] \in {"accepted", "done"} => part[b][c] \in {"accepted", "done"}
    <3>1. \/ UNCHANGED part
          \/ \E w \in {NoParts} \cup {Parts(a[1], open) : open \in SUBSET Destinations[a[1]]} :
               part' = [part EXCEPT ![a] = w]
      BY <1>8 DEF Take, Settle
    <3>2. \A w \in {NoParts} \cup {Parts(a[1], open) : open \in SUBSET Destinations[a[1]]},
             c \in Configs : w[c] \notin {"accepted", "done"}
      BY DEF NoParts, Parts
    <3> QED
      BY <1>0, <3>1, <3>2 DEF DeliveryTypes
  <2>3. P'
    BY <1>0, <2>1, <2>2, ConstantTypes DEF AcceptanceIsReal
  <2> QED
    BY <1>2, <1>3, <2>1, <2>3 DEF AcceptanceIsReal
<1>9. ASSUME NEW a \in Attempts, NEW c \in Configs, Send(a, c)
      PROVE  AcceptanceIsReal'
  <2>1. UNCHANGED <<log, manual>>
    BY <1>9 DEF Send
  <2>2. PICK v \in {"done", "accepted", "refused"} :
          /\ part' = [part EXCEPT ![a][c] = v]
          /\ v = "done" => log[a[1]][c].status = "DELIVERED"
          /\ v = "accepted" => Accept(a[1], c)
    BY <1>9 DEF Send
  <2>3. v \in {"done", "accepted"} => accepted'[a[1]][c] > 0
    BY <1>0, <2>2, ConstantTypes, AcceptUpdates DEF AcceptanceIsReal
  <2>4. \A b \in Attempts, d \in Configs :
          part'[b][d] = IF b = a /\ d = c THEN v ELSE part[b][d]
    BY <1>0, <2>2, GridUpdate DEF DeliveryTypes
  <2>5. P'
    BY <1>0, <2>3, <2>4, ConstantTypes DEF AcceptanceIsReal
  <2> QED
    BY <1>2, <1>3, <2>1, <2>5 DEF AcceptanceIsReal
<1>10. ASSUME NEW a \in Attempts, NEW c \in Configs, Record(a, c) \/ RecordThrows(a, c)
       PROVE  AcceptanceIsReal'
  <2>1. UNCHANGED <<manual, accepted>>
    BY <1>10 DEF Record, RecordThrows
  <2>2. PICK v \in {"done", "failed"} :
          /\ part' = [part EXCEPT ![a][c] = v]
          /\ v = "done" => part[a][c] = "accepted"
    BY <1>10 DEF Record, RecordThrows
  <2>3. \A b \in Attempts, d \in Configs :
          part'[b][d] = IF b = a /\ d = c THEN v ELSE part[b][d]
    BY <1>0, <2>2, GridUpdate DEF DeliveryTypes
  <2>4. P'
    BY <1>0, <2>1, <2>2, <2>3, ConstantTypes DEF AcceptanceIsReal
  <2>5. \A f \in Events, d \in Configs :
          log'[f][d].status = "DELIVERED" =>
            log[f][d].status = "DELIVERED"
              \/ (f = a[1] /\ d = c /\ part[a][c] = "accepted")
    BY <1>0, <1>10, ConstantTypes DEF Record, RecordThrows, Refused, DeliveryTypes
  <2>6. L'
    BY <1>0, <2>1, <2>5 DEF AcceptanceIsReal
  <2> QED
    BY <1>3, <2>1, <2>4, <2>6 DEF AcceptanceIsReal
<1>11. CASE Crash
  <2>1. UNCHANGED <<log, manual, accepted>>
    BY <1>11 DEF Crash
  <2>2. P'
    BY <1>11 DEF Crash, NoParts
  <2> QED
    BY <1>2, <1>3, <2>1, <2>2 DEF AcceptanceIsReal
<1> QED
  BY <1>4, <1>5, <1>6, <1>7, <1>8, <1>9, <1>10, <1>11, DeliveryWriters

\* An event becomes processed only by an attempt that has all destinations done,
\* or by one of an event without destinations.
LEMMA ProcessedStaysAccepted ==
  ASSUME Types, AcceptanceIsReal, ProcessedWasAccepted, Next
  PROVE  ProcessedWasAccepted'
<1>0. /\ OutboxTypes
      /\ \A e \in Events : Destinations[e] \subseteq Configs
      /\ \A e \in Events, c \in Configs :
           /\ accepted[e][c] \in Nat /\ accepted'[e][c] \in Nat
           /\ accepted'[e][c] >= accepted[e][c]
  BY AcceptedCounts, DeliveryAssumption DEF Types
<1>1. ASSUME \A e \in Events :
               status'[e] = "PROCESSED" =>
                 status[e] = "PROCESSED" \/ \A c \in Destinations[e] : accepted[e][c] > 0
      PROVE  ProcessedWasAccepted'
  BY <1>0, <1>1 DEF ProcessedWasAccepted
<1>2. CASE UNCHANGED <<outbox, dispatcher>>
  BY <1>1, <1>2 DEF outbox
<1>3. ASSUME NEW batch \in SUBSET Events, ClaimDispatchable(batch)
      PROVE  ProcessedWasAccepted'
  BY <1>1, <1>3 DEF ClaimDispatchable
<1>4. ASSUME NEW e \in Events,
             \/ Enqueue(e) \/ EnqueueThrows(e) \/ MarkEnqueueFailed(e)
             \/ DispatchAborts(e) \/ BecomeDue(e) \/ FailEvent(e) \/ ResetEvent(e)
      PROVE  ProcessedWasAccepted'
  <2>1. UNCHANGED status \/ \E s \in {"FAILED", "DISPATCHED"} : status' = [status EXCEPT ![e] = s]
    BY <1>4 DEF Enqueue, EnqueueThrows, MarkEnqueueFailed, DispatchAborts, BecomeDue,
                FailEvent, ResetEvent, outbox
  <2> QED
    BY <1>0, <1>1, <2>1 DEF OutboxTypes
<1>5. ASSUME NEW a \in Attempts, Take(a)
      PROVE  ProcessedWasAccepted'
  BY <1>0, <1>1, <1>5, ConstantTypes DEF Take, outbox, OutboxTypes
<1>6. ASSUME NEW a \in Attempts, Settle(a)
      PROVE  ProcessedWasAccepted'
  <2>1. AllDelivered(a) => \A c \in Destinations[a[1]] : accepted[a[1]][c] > 0
    BY <1>0, ConstantTypes DEF AllDelivered, AcceptanceIsReal
  <2> QED
    BY <1>0, <1>1, <1>6, <2>1, ConstantTypes DEF Settle, OutboxTypes
<1>7. CASE Crash
  BY <1>1, <1>7 DEF Crash, outbox
<1> QED
  BY <1>2, <1>3, <1>4, <1>5, <1>6, <1>7, OutboxWriters

\* Nothing is accepted, or needs to be, in the beginning.
LEMMA AcceptanceStart == Init => AcceptanceInv
<1> SUFFICES ASSUME Init PROVE AcceptanceInv
  OBVIOUS
<1> USE ConstantTypes DEF Init
<1>1. OutboxTypes /\ LetterTypes /\ CounterTypes
  BY DEF OutboxTypes, LetterTypes, CounterTypes, NotClaimed
<1>2. QueueTypes /\ LockIsHeldOnce
  BY DEF QueueTypes, LockIsHeldOnce, Active
<1>3. DeliveryTypes
  BY DEF DeliveryTypes, NoParts, NoRow, NoManual, DeliveryStatus
<1>4. PartsAreSent /\ ProcessedWasAccepted
  BY DEF PartsAreSent, ProcessedWasAccepted
<1>5. AcceptanceIsReal
  BY DEF AcceptanceIsReal, NoParts, NoRow, NoManual
<1> QED
  BY <1>1, <1>2, <1>3, <1>4, <1>5 DEF AcceptanceInv, Types

\* The inductive invariant behind at-least-once delivery, for every fault.
LEMMA AcceptanceInvariant == Spec => []AcceptanceInv
<1>1. AcceptanceInv /\ [Next]_vars => AcceptanceInv'
  <2>1. CASE Next
    BY <2>1, TypesHold, PartsStaySent, AcceptanceStaysReal, ProcessedStaysAccepted
       DEF AcceptanceInv
  <2>2. CASE UNCHANGED vars
    BY <2>2, TypesHold DEF AcceptanceInv, vars, outbox, deliveries, PartsAreSent,
       AcceptanceIsReal, ProcessedWasAccepted
  <2> QED
    BY <2>1, <2>2
<1> QED
  BY <1>1, AcceptanceStart, PTL DEF Spec

\* Delivery is at least once: an event is marked as processed only when each of
\* its destinations has accepted it, whatever stalls, crashes, overlaps,
\* requeues and retries by hand came between.
THEOREM DeliveryIsAtLeastOnce == Spec => []DeliveryInv
<1>1. AcceptanceInv => DeliveryInv
  BY TypesAreTypeOK DEF AcceptanceInv, DeliveryInv
<1> QED
  BY <1>1, AcceptanceInvariant, PTL

-----------------------------------------------------------------------------
(* Repeats, and rows that say what was delivered.                          *)

\* Two attempts that send for one event are one, unless a lock was lost.
LEMMA SenderIsAlone ==
  ASSUME Types, LockIsHeldOnce, PartsAreSent, \A a \in Attempts : ~lost[a],
         NEW a \in Attempts, NEW b \in Attempts, a[1] = b[1],
         NEW c \in Configs, NEW d \in Configs, part[a][c] # "out", part[b][d] # "out"
  PROVE  a = b
<1>1. pc[a] = "sending" /\ pc[b] = "sending"
  BY DEF PartsAreSent, NoParts
<1> QED
  BY <1>1 DEF LockIsHeldOnce, Active

\* Beginning and settling an attempt neither makes nor drops an answer.
LEMMA AnswersStay ==
  ASSUME DeliveryTypes, PartsAreSent, NEW a \in Attempts, Take(a) \/ Settle(a)
  PROVE  \A b \in Attempts, c \in Configs, v \in {"accepted", "refused"} :
           part'[b][c] = v <=> part[b][c] = v
<1>1. \/ UNCHANGED part
      \/ \E w \in {NoParts} \cup {Parts(a[1], open) : open \in SUBSET Destinations[a[1]]} :
           part' = [part EXCEPT ![a] = w]
  BY DEF Take, Settle
<1>2. \A w \in {NoParts} \cup {Parts(a[1], open) : open \in SUBSET Destinations[a[1]]},
         c \in Configs : w[c] \notin {"accepted", "refused"}
  BY DEF NoParts, Parts
<1>3. \A c \in Configs : part[a][c] \notin {"accepted", "refused"}
  BY DEF Take, Settle, PartsAreSent, NoParts
<1> QED
  BY <1>1, <1>2, <1>3 DEF DeliveryTypes

\* What a step without a fault or a retry by hand does to the deliveries.
LEMMA CalmSteps ==
  ASSUME Types, AcceptanceIsKnown, Next, Undisturbed'
  PROVE  /\ Undisturbed /\ manual' = NoManual /\ \A a \in Attempts : ~lost'[a]
         /\ \/ UNCHANGED <<part, log, accepted>>
            \/ \E e \in Events : FailLogs(e) \/ \E force \in BOOLEAN : ResetLogs(e, force)
            \/ \E a \in Attempts :
                 \/ Take(a) \/ Settle(a)
                 \/ \E c \in Configs : Send(a, c) \/ Record(a, c)
<1>1. faults = 0 /\ manuals = 0 /\ faults' = 0 /\ manuals' = 0
  BY CountersTyped, ConstantTypes DEF Undisturbed, Types, CounterTypes
<1>2. Undisturbed /\ manual = NoManual /\ \A a \in Attempts : ~lost[a]
  BY <1>1 DEF Undisturbed, AcceptanceIsKnown
<1>3. ~RecordByHand /\ ~Crash
  BY <1>1, <1>2 DEF RecordByHand, NoManual, Crash, Fault
<1>4. \A a \in Attempts : ~Stall(a) /\ \A c \in Configs : ~RecordThrows(a, c)
  BY <1>1 DEF Stall, RecordThrows, Fault
<1>5. \A e \in Events, c \in Configs : ~RetryByHand(e, c)
  BY <1>1 DEF RetryByHand
<1>6. \A a \in Attempts : ~lost'[a]
  <2>1. CASE UNCHANGED deliveries
    BY <1>2, <2>1 DEF deliveries
  <2>2. ASSUME NEW a \in Attempts,
               \/ Take(a) \/ Settle(a) \/ \E c \in Configs : Send(a, c) \/ Record(a, c)
        PROVE  UNCHANGED lost
    BY <2>2 DEF Take, Settle, Send, Record
  <2>3. ASSUME NEW a \in Attempts, Finish(a)
        PROVE  lost' = [lost EXCEPT ![a] = FALSE]
    BY <2>3 DEF Finish
  <2> QED
    BY <1>2, <1>3, <1>4, <2>1, <2>2, <2>3, AttemptWriters DEF Types, QueueTypes
<1>7. manual' = NoManual
  BY <1>2, <1>3, <1>5, DeliveryWriters
     DEF FailLogs, ResetLogs, Take, Settle, Send, Record, RecordThrows
<1> QED
  BY <1>2, <1>3, <1>4, <1>5, <1>6, <1>7, DeliveryWriters

\* Without faults and retries by hand the single sender of an event knows of
\* every acceptance, so that it never asks a destination again.
LEMMA AcceptanceStaysKnown ==
  ASSUME AcceptanceInv, AcceptanceIsKnown, Next
  PROVE  AcceptanceIsKnown'
<1> SUFFICES ASSUME Undisturbed'
             PROVE  AcceptanceIsKnown'
  BY DEF AcceptanceIsKnown
<1> DEFINE Known(e, c) == \/ log[e][c].status = "DELIVERED"
                          \/ \E a \in Attempts : a[1] = e /\ part[a][c] = "accepted"
           Once == \A e \in Events, c \in Configs :
                     accepted[e][c] <= 1 /\ (accepted[e][c] = 1 => Known(e, c))
           Refusals == \A a \in Attempts, c \in Configs :
                         part[a][c] = "refused" => accepted[a[1]][c] = 0
<1>1. /\ manual' = NoManual /\ \A a \in Attempts : ~lost'[a]
      /\ Once /\ Refusals /\ \A a \in Attempts : ~lost[a]
  BY CalmSteps DEF AcceptanceIsKnown, AcceptanceInv
<1>2. SUFFICES Once' /\ Refusals'
  BY <1>1 DEF AcceptanceIsKnown
<1>3. /\ Types /\ LockIsHeldOnce /\ PartsAreSent /\ DeliveryTypes
      /\ \A e \in Events, c \in Configs :
           accepted[e][c] \in 0 .. 2 /\ accepted'[e][c] \in Nat
      /\ \A a \in Attempts : a[1] \in Events
  BY Entries, AcceptedCounts, ConstantTypes DEF AcceptanceInv, Types
<1>4. CASE UNCHANGED <<part, log, accepted>>
  BY <1>1, <1>4
<1>5. ASSUME NEW e \in Events, FailLogs(e) \/ \E force \in BOOLEAN : ResetLogs(e, force)
      PROVE  Once' /\ Refusals'
  <2>1. UNCHANGED <<part, accepted>>
    BY <1>5 DEF FailLogs, ResetLogs, deliveries
  <2>2. \A f \in Events, c \in Configs :
          log[f][c].status = "DELIVERED" => log'[f][c].status = "DELIVERED"
    BY <1>3, <1>5, SweepsSpareDelivered
  <2> QED
    BY <1>1, <2>1, <2>2
<1>6. ASSUME NEW a \in Attempts, Take(a) \/ Settle(a)
      PROVE  Once' /\ Refusals'
  <2>1. UNCHANGED <<log, accepted>>
    BY <1>6 DEF Take, Settle
  <2>2. \A b \in Attempts, c \in Configs, v \in {"accepted", "refused"} :
          part'[b][c] = v <=> part[b][c] = v
    BY <1>3, <1>6, AnswersStay
  <2>3. Once'
    BY <1>1, <2>1, <2>2
  <2>4. Refusals'
    BY <1>1, <2>1, <2>2
  <2> QED
    BY <2>3, <2>4
<1>7. ASSUME NEW a \in Attempts, NEW c \in Configs, Send(a, c)
      PROVE  Once' /\ Refusals'
  <2>1. UNCHANGED log /\ part[a][c] = "todo" /\ a[1] \in Events
    BY <1>3, <1>7 DEF Send
  <2>2. PICK v \in {"done", "accepted", "refused"} :
          /\ part' = [part EXCEPT ![a][c] = v]
          /\ v # "done" => log[a[1]][c].status # "DELIVERED"
          /\ IF v = "accepted" THEN Accept(a[1], c) ELSE UNCHANGED accepted
    BY <1>7 DEF Send
  <2>3. \A b \in Attempts, d \in Configs :
          part'[b][d] = IF b = a /\ d = c THEN v ELSE part[b][d]
    BY <1>3, <2>2, GridUpdate DEF DeliveryTypes
  <2>4. \A b \in Attempts :
          b[1] = a[1] /\ part[b][c] \in {"accepted", "refused"} => b = a
    BY <1>1, <1>3, <2>1, SenderIsAlone
  <2>5. v # "done" => accepted[a[1]][c] = 0
    BY <1>1, <1>3, <2>1, <2>2, <2>4
  <2>6. \A e \in Events, d \in Configs :
          <<e, d>> # <<a[1], c>> => accepted'[e][d] = accepted[e][d]
    BY <1>3, <2>1, <2>2, AcceptUpdates
  <2>7. v = "accepted" => accepted'[a[1]][c] = 1
    BY <1>3, <2>1, <2>2, <2>5, AcceptUpdates
  <2>8. v # "accepted" => accepted'[a[1]][c] = accepted[a[1]][c]
    BY <2>2
  <2>9. Refusals'
    BY <1>1, <1>3, <2>1, <2>3, <2>4, <2>5, <2>6, <2>8
  <2>10. ASSUME NEW e \in Events, NEW d \in Configs
         PROVE  accepted'[e][d] <= 1 /\ (accepted'[e][d] = 1 => Known(e, d)')
    <3>1. CASE <<e, d>> = <<a[1], c>> /\ v = "accepted"
      BY <2>3, <2>7, <3>1
    <3>2. CASE <<e, d>> # <<a[1], c>> \/ v # "accepted"
      <4>1. accepted'[e][d] = accepted[e][d]
        BY <2>6, <2>8, <3>2
      <4>2. \A b \in Attempts : part[b][d] = "accepted" => part'[b][d] = "accepted"
        BY <2>1, <2>3
      <4> QED
        BY <1>1, <2>1, <4>1, <4>2
    <3> QED
      BY <3>1, <3>2
  <2> QED
    BY <2>9, <2>10
<1>8. ASSUME NEW a \in Attempts, NEW c \in Configs, Record(a, c)
      PROVE  Once' /\ Refusals'
  <2>1. UNCHANGED accepted /\ part[a][c] \in {"accepted", "refused"} /\ a[1] \in Events
    BY <1>3, <1>8 DEF Record
  <2>2. \A b \in Attempts, d \in Configs :
          part'[b][d] = IF b = a /\ d = c
                        THEN IF part[a][c] = "accepted" THEN "done" ELSE "failed"
                        ELSE part[b][d]
    BY <1>3, <1>8 DEF Record, DeliveryTypes
  <2>3. \A e \in Events, d \in Configs :
          log'[e][d] = IF e = a[1] /\ d = c
                       THEN IF part[a][c] = "accepted" THEN Delivered(begun[a][c])
                                                       ELSE Refused(begun[a][c])
                       ELSE log[e][d]
    BY <1>3, <1>8, <2>1 DEF Record, DeliveryTypes
  <2>4. Refusals'
    BY <1>1, <2>1, <2>2
  <2>5. ASSUME NEW e \in Events, NEW d \in Configs
        PROVE  accepted'[e][d] <= 1 /\ (accepted'[e][d] = 1 => Known(e, d)')
    <3>1. CASE e = a[1] /\ d = c /\ part[a][c] = "accepted"
      BY <1>1, <2>1, <2>3, <3>1 DEF Delivered
    <3>2. CASE e = a[1] /\ d = c /\ part[a][c] = "refused"
      BY <1>1, <2>1, <3>2
    <3>3. CASE ~(e = a[1] /\ d = c)
      BY <1>1, <2>1, <2>2, <2>3, <3>3
    <3> QED
      BY <2>1, <3>1, <3>2, <3>3
  <2> QED
    BY <2>4, <2>5
<1> QED
  BY <1>4, <1>5, <1>6, <1>7, <1>8, CalmSteps DEF AcceptanceInv

\* A destination is sent an event it has accepted again only after a fault or a
\* retry by hand.
THEOREM RepeatsAreExcused == Spec => []RepeatsNeedAFault
<1>1. Init => AcceptanceIsKnown
  BY ConstantTypes DEF Init, AcceptanceIsKnown, NoParts, NoRow
<1>2. AcceptanceInv /\ AcceptanceIsKnown /\ [Next]_vars => AcceptanceIsKnown'
  <2>1. ASSUME AcceptanceIsKnown, UNCHANGED vars
        PROVE  AcceptanceIsKnown'
    BY <2>1 DEF vars, deliveries, AcceptanceIsKnown, Undisturbed
  <2> QED
    BY <2>1, AcceptanceStaysKnown
<1>3. AcceptanceIsKnown => RepeatsNeedAFault
  BY DEF AcceptanceIsKnown, Undisturbed, RepeatsNeedAFault
<1> QED
  BY <1>1, <1>2, <1>3, AcceptanceInvariant, PTL DEF Spec

\* Without stalls nobody loses a lock.
LEMMA LocksAreKept ==
  ASSUME "stall" \notin FaultKinds, Types, \A a \in Attempts : ~lost[a], Next
  PROVE  /\ \A a \in Attempts : ~Stall(a)
         /\ \A a \in Attempts : ~lost'[a]
<1>1. \A a \in Attempts : ~Stall(a)
  BY DEF Stall, Fault
<1>2. CASE UNCHANGED deliveries
  BY <1>1, <1>2 DEF deliveries
<1>3. ASSUME NEW a \in Attempts,
             \/ Take(a) \/ Settle(a)
             \/ \E c \in Configs : Send(a, c) \/ Record(a, c) \/ RecordThrows(a, c)
      PROVE  UNCHANGED lost
  BY <1>3 DEF Take, Settle, Send, Record, RecordThrows
<1>4. ASSUME NEW a \in Attempts, Finish(a)
      PROVE  lost' = [lost EXCEPT ![a] = FALSE]
  BY <1>4 DEF Finish
<1>5. CASE Crash
  BY <1>1, <1>5 DEF Crash
<1> QED
  BY <1>1, <1>2, <1>3, <1>4, <1>5, AttemptWriters DEF Types, QueueTypes

\* What a step does to the deliveries while one attempt at a time writes them.
LEMMA OneWriterSteps ==
  ASSUME OneWriter, Types, AnswerIsFirst, Next
  PROVE  /\ manual' = NoManual /\ \A a \in Attempts : ~lost'[a]
         /\ \/ UNCHANGED <<part, log>>
            \/ \E e \in Events : FailLogs(e) \/ \E force \in BOOLEAN : ResetLogs(e, force)
            \/ \E a \in Attempts :
                 \/ Take(a) \/ Settle(a)
                 \/ \E c \in Configs : Send(a, c) \/ Record(a, c) \/ RecordThrows(a, c)
            \/ Crash
<1>1. manual = NoManual /\ \A a \in Attempts : ~lost[a]
  BY DEF AnswerIsFirst
<1>2. ~RecordByHand
  BY <1>1 DEF RecordByHand, NoManual
<1>3. \A a \in Attempts : ~Stall(a)
  BY DEF OneWriter, Stall, Fault
<1>4. \A e \in Events, c \in Configs : ~RetryByHand(e, c)
  BY ConstantTypes DEF OneWriter, Types, CounterTypes, RetryByHand
<1>5. \A a \in Attempts : ~lost'[a]
  BY <1>1, LocksAreKept DEF OneWriter
<1>6. manual' = NoManual
  BY <1>1, <1>2, <1>4, DeliveryWriters
     DEF FailLogs, ResetLogs, Take, Settle, Send, Record, RecordThrows, Crash
<1> QED
  BY <1>2, <1>3, <1>4, <1>5, <1>6, DeliveryWriters

\* With one writer, an answer that is still to be recorded finds a row that is
\* not delivered.
LEMMA AnswerStaysFirst ==
  ASSUME AcceptanceInv, AnswerIsFirst, Next
  PROVE  AnswerIsFirst'
<1> SUFFICES ASSUME OneWriter
             PROVE  AnswerIsFirst'
  BY DEF AnswerIsFirst
<1> DEFINE First == \A a \in Attempts, c \in Configs :
                      part[a][c] \in {"accepted", "refused"} =>
                        log[a[1]][c].status # "DELIVERED"
<1>1. /\ manual' = NoManual /\ \A a \in Attempts : ~lost'[a]
      /\ First /\ \A a \in Attempts : ~lost[a]
  BY OneWriterSteps DEF AnswerIsFirst, AcceptanceInv
<1>2. SUFFICES First'
  BY <1>1 DEF AnswerIsFirst
<1>3. /\ Types /\ LockIsHeldOnce /\ PartsAreSent /\ DeliveryTypes
      /\ \A a \in Attempts : a[1] \in Events
  BY ConstantTypes DEF AcceptanceInv, Types
<1>4. CASE UNCHANGED <<part, log>>
  BY <1>1, <1>4
<1>5. ASSUME NEW e \in Events, FailLogs(e) \/ \E force \in BOOLEAN : ResetLogs(e, force)
      PROVE  First'
  <2>1. UNCHANGED part
    BY <1>5 DEF FailLogs, ResetLogs, deliveries
  <2>2. \A f \in Events, c \in Configs :
          log'[f][c].status = "DELIVERED" => log[f][c].status = "DELIVERED"
    BY <1>3, <1>5, SweepsSpareDelivered
  <2> QED
    BY <1>1, <1>3, <2>1, <2>2
<1>6. ASSUME NEW a \in Attempts, Take(a) \/ Settle(a)
      PROVE  First'
  <2>1. UNCHANGED log
    BY <1>6 DEF Take, Settle
  <2>2. \A b \in Attempts, c \in Configs, v \in {"accepted", "refused"} :
          part'[b][c] = v <=> part[b][c] = v
    BY <1>3, <1>6, AnswersStay
  <2> QED
    BY <1>1, <2>1, <2>2
<1>7. ASSUME NEW a \in Attempts, NEW c \in Configs, Send(a, c)
      PROVE  First'
  <2>1. PICK v \in {"done", "accepted", "refused"} :
          /\ part' = [part EXCEPT ![a][c] = v]
          /\ v # "done" => log[a[1]][c].status # "DELIVERED"
    BY <1>7 DEF Send
  <2>2. \A b \in Attempts, d \in Configs :
          part'[b][d] = IF b = a /\ d = c THEN v ELSE part[b][d]
    BY <1>3, <2>1, GridUpdate DEF DeliveryTypes
  <2>3. UNCHANGED log
    BY <1>7 DEF Send
  <2> QED
    BY <1>1, <2>1, <2>2, <2>3
<1>8. ASSUME NEW a \in Attempts, NEW c \in Configs, Record(a, c) \/ RecordThrows(a, c)
      PROVE  First'
  <2>1. part[a][c] \in {"accepted", "refused"}
    BY <1>8 DEF Record, RecordThrows
  <2>2. \A b \in Attempts :
          b[1] = a[1] /\ part[b][c] \in {"accepted", "refused"} => b = a
    BY <1>1, <1>3, <2>1, SenderIsAlone
  <2>3. PICK v \in {"done", "failed"} : part' = [part EXCEPT ![a][c] = v]
    BY <1>8 DEF Record, RecordThrows
  <2>4. \A b \in Attempts, d \in Configs :
          part'[b][d] = IF b = a /\ d = c THEN v ELSE part[b][d]
    BY <1>3, <2>3, GridUpdate DEF DeliveryTypes
  <2>5. \A e \in Events, d \in Configs :
          ~(e = a[1] /\ d = c) => log'[e][d] = log[e][d]
    BY <1>3, <1>8 DEF Record, RecordThrows, DeliveryTypes
  <2> QED
    BY <1>1, <1>3, <2>2, <2>4, <2>5
<1>9. CASE Crash
  BY <1>9 DEF Crash, NoParts
<1> QED
  BY <1>4, <1>5, <1>6, <1>7, <1>8, <1>9, OneWriterSteps DEF AcceptanceInv

\* A delivery recorded as delivered stays so, through crashes, failed writes,
\* requeues and final failures, as long as no worker loses the lock of a job it
\* still works on and no merchant retries by hand: either may write a refusal
\* over a row that was delivered since.
THEOREM DeliveriesStay == OneWriter => (Spec => DeliveredIsKept)
<1> DEFINE Kept == \A e \in Events, c \in Configs :
                     log[e][c].status = "DELIVERED" => log'[e][c].status = "DELIVERED"
<1> SUFFICES ASSUME OneWriter PROVE Spec => DeliveredIsKept
  OBVIOUS
<1>1. Init => AnswerIsFirst
  BY ConstantTypes DEF Init, AnswerIsFirst, NoParts
<1>2. AcceptanceInv /\ AnswerIsFirst /\ [Next]_vars => AnswerIsFirst'
  <2>1. ASSUME AnswerIsFirst, UNCHANGED vars
        PROVE  AnswerIsFirst'
    BY <2>1 DEF vars, deliveries, AnswerIsFirst
  <2> QED
    BY <2>1, AnswerStaysFirst
<1>3. AcceptanceInv /\ AnswerIsFirst /\ [Next]_vars => [Kept]_vars
  <2> SUFFICES ASSUME AcceptanceInv, AnswerIsFirst, Next
               PROVE  Kept
    OBVIOUS
  <2>1. /\ Types /\ DeliveryTypes /\ \A a \in Attempts : a[1] \in Events
    BY ConstantTypes DEF AcceptanceInv, Types
  <2>2. CASE UNCHANGED log
    BY <2>2
  <2>3. ASSUME NEW e \in Events, FailLogs(e) \/ \E force \in BOOLEAN : ResetLogs(e, force)
        PROVE  Kept
    BY <2>1, <2>3, SweepsSpareDelivered
  <2>4. ASSUME NEW a \in Attempts, NEW c \in Configs, Record(a, c) \/ RecordThrows(a, c)
        PROVE  Kept
    <3>1. log[a[1]][c].status # "DELIVERED"
      BY <2>4 DEF AnswerIsFirst, Record, RecordThrows
    <3>2. \A e \in Events, d \in Configs :
            ~(e = a[1] /\ d = c) => log'[e][d] = log[e][d]
      BY <2>1, <2>4 DEF Record, RecordThrows, DeliveryTypes
    <3> QED
      BY <3>1, <3>2
  <2>5. ASSUME NEW a \in Attempts, Take(a) \/ Settle(a) \/ \E c \in Configs : Send(a, c)
        PROVE  UNCHANGED log
    BY <2>5 DEF Take, Settle, Send
  <2>6. CASE Crash
    BY <2>2, <2>6 DEF Crash
  <2> QED
    BY <2>1, <2>2, <2>3, <2>4, <2>5, <2>6, OneWriterSteps
<1>4. Spec => [][Kept]_vars
  BY <1>1, <1>2, <1>3, AcceptanceInvariant, PTL DEF Spec
<1> QED
  BY <1>4 DEF DeliveredIsKept

-----------------------------------------------------------------------------
(* Dead letters.                                                           *)

\* While the handler of a failed job works, the job has no attempt.
LEMMA ClosingStaysAlone ==
  ASSUME AcceptanceInv, ClosingIsAlone, Next
  PROVE  ClosingIsAlone'
<1> SUFFICES ASSUME "stall" \notin FaultKinds
             PROVE  ClosingIsAlone'
  BY DEF ClosingIsAlone
<1> DEFINE Failed == \A e \in Events : closing[e] # "none" => job[e] = "FAILED"
           Open == \A e \in Events : closing[e] = "write" => status[e] # "PROCESSED"
           Letter == \A e \in Events : requeueing[e] = "event" => e \in dead
<1>1. /\ OutboxTypes /\ QueueTypes /\ LetterTypes /\ LockIsHeldOnce /\ PartsAreSent
      /\ Failed /\ Open /\ Letter /\ \A a \in Attempts : a[1] \in Events /\ ~lost[a]
  BY ConstantTypes DEF AcceptanceInv, Types, ClosingIsAlone
<1>2. \A a \in Attempts : ~Stall(a) /\ ~lost'[a]
  BY <1>1, LocksAreKept DEF AcceptanceInv
<1>3. \A a \in Attempts : pc[a] # "idle" => job[a[1]] = "ACTIVE"
  BY <1>1 DEF LockIsHeldOnce, Active
<1>4. Failed'
  <2> USE <1>1 DEF QueueTypes
  <2>1. CASE UNCHANGED <<queue, pc, lost, closing>>
    BY <2>1 DEF queue
  <2>2. ASSUME NEW e \in Events,
               \/ Enqueue(e) \/ EnqueueThrows(e)
               \/ \E remove \in BOOLEAN : AddRequeuedJob(e, remove)
        PROVE  Failed'
    <3>1. UNCHANGED closing /\ \A f \in Events : job[f] = "FAILED" => job'[f] = "FAILED"
      BY <2>2 DEF Enqueue, EnqueueThrows, AddRequeuedJob, AddJob, queue, closings
    <3> QED
      BY <3>1
  <2>3. ASSUME NEW e \in Events, BackoffEnds(e) \/ ForgetJob(e)
        PROVE  Failed'
    <3>1. /\ UNCHANGED closing /\ closing[e] = "none"
          /\ \A f \in Events : f # e => job'[f] = job[f]
      BY <2>3 DEF BackoffEnds, ForgetJob, closings
    <3> QED
      BY <3>1
  <2>4. ASSUME NEW e \in Events,
               FailLogs(e) \/ ReadFailedEvent(e) \/ FailEvent(e) \/ AddDeadLetter(e)
        PROVE  Failed'
    <3>1. /\ UNCHANGED job /\ closing[e] # "none"
          /\ \A f \in Events : f # e => closing'[f] = closing[f]
      BY <2>4 DEF FailLogs, ReadFailedEvent, FailEvent, AddDeadLetter, queue
    <3> QED
      BY <3>1
  <2>5. ASSUME NEW a \in Attempts, Take(a) \/ Settle(a)
        PROVE  Failed'
    <3>1. /\ UNCHANGED closing
          /\ \A f \in Events : job[f] = "FAILED" => job'[f] = "FAILED"
      BY <2>5 DEF Take, Settle, closings, queue
    <3> QED
      BY <3>1
  <2>6. ASSUME NEW a \in Attempts, Finish(a)
        PROVE  Failed'
    <3>1. job[a[1]] = "ACTIVE" /\ ~lost[a]
      BY <1>3, <2>6 DEF Finish
    <3>2. CASE pc[a] = "ack"
      BY <2>6, <3>1, <3>2 DEF Finish, closings
    <3>3. CASE pc[a] = "nack"
      BY <2>6, <3>1, <3>3, ConstantTypes DEF Finish, FailJob
    <3> QED
      BY <2>6, <3>2, <3>3 DEF Finish
  <2>7. CASE Crash
    BY <2>7 DEF Crash, Exhausted
  <2> QED
    BY <1>2, <2>1, <2>2, <2>3, <2>4, <2>5, <2>6, <2>7, QueueWriters
<1>5. Open'
  <2>1. ASSUME NEW e \in Events, closing'[e] = "write", status'[e] = "PROCESSED"
        PROVE  FALSE
    <3>1. CASE closing[e] = "write" /\ status[e] # "PROCESSED"
      <4>1. job[e] = "FAILED"
        BY <1>1, <3>1
      <4>2. \E a \in Attempts : a[1] = e /\ (Take(a) \/ Settle(a))
        <5>1. CASE UNCHANGED <<outbox, dispatcher>>
          BY <2>1, <3>1, <5>1 DEF outbox
        <5>2. ASSUME NEW batch \in SUBSET Events, ClaimDispatchable(batch)
              PROVE  FALSE
          BY <2>1, <3>1, <5>2 DEF ClaimDispatchable
        <5>3. ASSUME NEW f \in Events,
                     \/ Enqueue(f) \/ EnqueueThrows(f) \/ MarkEnqueueFailed(f)
                     \/ DispatchAborts(f) \/ BecomeDue(f) \/ FailEvent(f) \/ ResetEvent(f)
              PROVE  FALSE
          <6>1. \/ UNCHANGED status
                \/ \E s \in {"FAILED", "DISPATCHED"} : status' = [status EXCEPT ![f] = s]
            BY <5>3
               DEF Enqueue, EnqueueThrows, MarkEnqueueFailed, DispatchAborts,
                   BecomeDue,
                        FailEvent, ResetEvent, outbox
          <6> QED
            BY <1>1, <2>1, <3>1, <6>1 DEF OutboxTypes
        <5>4. ASSUME NEW a \in Attempts, Take(a) \/ Settle(a)
              PROVE  a[1] = e
          <6>1. \A f \in Events : f # a[1] => status'[f] = status[f]
            BY <1>1, <5>4 DEF Take, Settle, outbox, OutboxTypes
          <6> QED
            BY <2>1, <3>1, <6>1
        <5>5. ~Crash
          BY <2>1, <3>1 DEF Crash, outbox
        <5> QED
          BY <5>1, <5>2, <5>3, <5>4, <5>5, OutboxWriters
      <4> QED
        BY <1>3, <4>1, <4>2 DEF Take, Settle
    <3>2. CASE closing[e] # "write"
      <4>1. status'[e] # "PROCESSED"
        <5>1. CASE UNCHANGED <<queue, pc, lost, closing>>
          BY <2>1, <3>2, <5>1
        <5>2. ASSUME NEW f \in Events,
                     \/ Enqueue(f) \/ EnqueueThrows(f) \/ BackoffEnds(f) \/ ForgetJob(f)
                     \/ FailLogs(f) \/ FailEvent(f) \/ AddDeadLetter(f)
                     \/ \E remove \in BOOLEAN : AddRequeuedJob(f, remove)
              PROVE  FALSE
          <6>1. \/ UNCHANGED closing
                \/ \E p \in {"event", "letter", "none"} : closing' = [closing EXCEPT ![f] = p]
            BY <5>2 DEF Enqueue, EnqueueThrows, BackoffEnds, ForgetJob, FailLogs, FailEvent,
                        AddDeadLetter, AddRequeuedJob, closings
          <6> QED
            BY <1>1, <2>1, <3>2, <6>1 DEF QueueTypes
        <5>3. ASSUME NEW f \in Events, ReadFailedEvent(f)
              PROVE  status'[e] # "PROCESSED"
          BY <1>1, <2>1, <3>2, <5>3 DEF ReadFailedEvent, outbox, QueueTypes
        <5>4. ASSUME NEW a \in Attempts, Take(a) \/ Settle(a) \/ Finish(a)
              PROVE  FALSE
          <6>1. \/ UNCHANGED closing
                \/ \E p \in {"logs", closing[a[1]]} : closing' = [closing EXCEPT ![a[1]] = p]
            BY <5>4 DEF Take, Settle, Finish, FailJob, closings
          <6> QED
            BY <1>1, <2>1, <3>2, <6>1 DEF QueueTypes
        <5>5. ~Crash
          BY <2>1 DEF Crash
        <5> QED
          BY <1>2, <5>1, <5>2, <5>3, <5>4, <5>5, QueueWriters
      <4> QED
        BY <2>1, <4>1
    <3> QED
      BY <1>1, <2>1, <3>1, <3>2
  <2> QED
    BY <2>1
<1>6. Letter'
  <2> USE <1>1 DEF LetterTypes
  <2>1. CASE UNCHANGED <<failing, deadLetters, requeueing>>
    BY <2>1 DEF deadLetters
  <2>2. ASSUME NEW e \in Events, FailLogs(e) \/ AddDeadLetter(e)
        PROVE  Letter'
    BY <2>2 DEF FailLogs, AddDeadLetter, deadLetters
  <2>3. ASSUME NEW e \in Events, NEW force \in BOOLEAN, ResetLogs(e, force)
        PROVE  Letter'
    BY <2>3 DEF ResetLogs, deadLetters
  <2>4. ASSUME NEW e \in Events, ResetEvent(e) \/ RequeueThrows(e)
        PROVE  Letter'
    BY <2>4 DEF ResetEvent, RequeueThrows, deadLetters
  <2>5. ASSUME NEW e \in Events, NEW remove \in BOOLEAN, AddRequeuedJob(e, remove)
        PROVE  Letter'
    BY <2>5 DEF AddRequeuedJob
  <2>6. CASE Crash
    BY <2>6 DEF Crash, deadLetters
  <2> QED
    BY <2>1, <2>2, <2>3, <2>4, <2>5, <2>6, LetterWriters
<1> QED
  BY <1>2, <1>4, <1>5, <1>6 DEF ClosingIsAlone

\* Who has the event: the dispatcher, or the queue with its handlers.
LEMMA OneSideStaysInCharge ==
  ASSUME AcceptanceInv, ClosingIsAlone, OneSideHasIt, Next
  PROVE  OneSideHasIt'
<1> SUFFICES ASSUME "stall" \notin FaultKinds, Orderly
             PROVE  OneSideHasIt'
  BY DEF OneSideHasIt
<1> DEFINE Here(e) == job[e] \notin {"WAITING", "ACTIVE", "DELAYED"} /\ closing[e] = "none"
           Side == \A e \in Events :
                     /\ requeueing[e] = "none"
                     /\ due[e] \/ claimed[e] # NotClaimed => Here(e)
                     /\ claimed[e] # NotClaimed => status[e] = "DISPATCHED" /\ ~due[e]
<1>1. /\ OutboxTypes /\ QueueTypes /\ LetterTypes /\ Side
      /\ \A a \in Attempts :
           a[1] \in Events /\ (pc[a] # "idle" => job[a[1]] = "ACTIVE")
  BY ConstantTypes
     DEF AcceptanceInv, Types, OneSideHasIt, ClosingIsAlone, LockIsHeldOnce, Active
<1>2. /\ \A e \in Events :
           job[e] \in {"NONE", "WAITING", "ACTIVE", "DELAYED", "COMPLETED", "FAILED"}
      /\ \A e \in Events, force \in BOOLEAN : ~ResetLogs(e, force)
      /\ \A e \in Events : ~ResetEvent(e) /\ ~RequeueThrows(e)
      /\ \A e \in Events, remove \in BOOLEAN : ~AddRequeuedJob(e, remove)
      /\ \A a \in Attempts : ~Stall(a)
  <2>1. \A e \in Events :
          job[e] \in {"NONE", "WAITING", "ACTIVE", "DELAYED", "COMPLETED", "FAILED"}
    BY <1>1 DEF QueueTypes
  <2>2. \A e \in Events, force \in BOOLEAN : ~ResetLogs(e, force)
    BY DEF Orderly, ResetLogs
  <2>3. /\ \A e \in Events : ~ResetEvent(e) /\ ~RequeueThrows(e)
        /\ \A e \in Events, remove \in BOOLEAN : ~AddRequeuedJob(e, remove)
    BY <1>1 DEF ResetEvent, RequeueThrows, AddRequeuedJob
  <2>4. \A a \in Attempts : ~Stall(a)
    BY DEF Stall, Fault
  <2> QED
    BY <2>1, <2>2, <2>3, <2>4
<1>3. \A e \in Events : requeueing'[e] = "none"
  BY <1>1, <1>2, LetterWriters DEF FailLogs, AddDeadLetter, Crash
<1>4. ASSUME NEW e \in Events, due'[e] \/ claimed'[e] # NotClaimed
      PROVE  /\ Here(e)
             /\ claimed'[e] # NotClaimed => status'[e] = "DISPATCHED" /\ ~due'[e]
  <2> USE <1>1, <1>4 DEF OutboxTypes
  <2>1. CASE UNCHANGED <<outbox, dispatcher>>
    BY <2>1 DEF outbox, dispatcher
  <2>2. ASSUME NEW batch \in SUBSET Events, ClaimDispatchable(batch)
        PROVE  /\ Here(e)
               /\ claimed'[e] # NotClaimed => status'[e] = "DISPATCHED" /\ ~due'[e]
    <3>1. CASE e \in batch
      BY <2>2, <3>1 DEF ClaimDispatchable, Dispatchable
    <3>2. CASE e \notin batch
      BY <2>2, <3>2 DEF ClaimDispatchable
    <3> QED
      BY <3>1, <3>2
  <2>3. ASSUME NEW f \in Events,
               \/ Enqueue(f) \/ EnqueueThrows(f) \/ MarkEnqueueFailed(f) \/ DispatchAborts(f)
        PROVE  /\ Here(e)
               /\ claimed'[e] # NotClaimed => status'[e] = "DISPATCHED" /\ ~due'[e]
    <3>1. CASE Enqueue(f)
      BY <3>1 DEF Enqueue, outbox
    <3>2. CASE EnqueueThrows(f)
      BY <3>2 DEF EnqueueThrows, outbox
    <3>3. CASE MarkEnqueueFailed(f)
      BY <3>3 DEF MarkEnqueueFailed
    <3>4. CASE DispatchAborts(f)
      BY <3>4 DEF DispatchAborts, outbox
    <3> QED
      BY <2>3, <3>1, <3>2, <3>3, <3>4
  <2>4. ASSUME NEW f \in Events, BecomeDue(f)
        PROVE  /\ Here(e)
               /\ claimed'[e] # NotClaimed => status'[e] = "DISPATCHED" /\ ~due'[e]
    <3>1. ~InQueue(f) /\ claimed[f] = NotClaimed
      BY <2>4 DEF BecomeDue, Orderly
    <3> QED
      BY <2>4, <3>1 DEF BecomeDue, InQueue, dispatcher
  <2>5. ASSUME NEW f \in Events, FailEvent(f)
        PROVE  /\ Here(e)
               /\ claimed'[e] # NotClaimed => status'[e] = "DISPATCHED" /\ ~due'[e]
    BY <2>5 DEF FailEvent, dispatcher
  <2>6. ASSUME NEW a \in Attempts, Take(a) \/ Settle(a)
        PROVE  /\ Here(e)
               /\ claimed'[e] # NotClaimed => status'[e] = "DISPATCHED" /\ ~due'[e]
    <3>1. UNCHANGED <<due, claimed>>
      BY <2>6 DEF Take, Settle, outbox, dispatcher
    <3>2. job[a[1]] \in {"WAITING", "ACTIVE"}
      BY <2>6 DEF Take, Settle
    <3>3. status'[e] = status[e]
      BY <2>6, <3>1, <3>2 DEF Take, Settle, outbox
    <3> QED
      BY <3>1, <3>3
  <2>7. CASE Crash
    BY <2>7 DEF Crash, outbox
  <2> QED
    BY <1>2, <2>1, <2>2, <2>3, <2>4, <2>5, <2>6, <2>7, OutboxWriters
\* The queue does not take up what it does not have.
<1>5. ASSUME NEW e \in Events, due'[e] \/ claimed'[e] # NotClaimed
      PROVE  Here(e)'
  <2>1. Here(e) /\ (claimed'[e] # NotClaimed => ~due'[e])
    BY <1>4, <1>5
  <2> USE <1>1, <2>1 DEF QueueTypes
  <2>2. CASE UNCHANGED <<queue, pc, lost, closing>>
    BY <2>2 DEF queue
  <2>3. ASSUME NEW f \in Events, Enqueue(f)
        PROVE  Here(e)'
    <3>1. f # e
      BY <1>5, <2>3 DEF Enqueue, outbox, OutboxTypes
    <3> QED
      BY <2>3, <3>1 DEF Enqueue, AddJob, closings
  <2>4. ASSUME NEW f \in Events, EnqueueThrows(f)
        PROVE  Here(e)'
    BY <2>4 DEF EnqueueThrows, Fault, Orderly, queue, closings
  <2>5. ASSUME NEW f \in Events, BackoffEnds(f) \/ ForgetJob(f)
        PROVE  Here(e)'
    BY <2>5 DEF BackoffEnds, ForgetJob, closings
  <2>6. ASSUME NEW f \in Events,
               FailLogs(f) \/ ReadFailedEvent(f) \/ FailEvent(f) \/ AddDeadLetter(f)
        PROVE  Here(e)'
    BY <2>6 DEF FailLogs, ReadFailedEvent, FailEvent, AddDeadLetter, queue
  <2>7. ASSUME NEW a \in Attempts, Take(a) \/ Settle(a) \/ Finish(a)
        PROVE  Here(e)'
    <3>1. a[1] # e
      BY <2>7 DEF Take, Settle, Finish
    <3>2. job'[e] = job[e] /\ closing'[e] = closing[e]
      BY <2>7, <3>1 DEF Take, Settle, Finish, FailJob, queue, closings
    <3> QED
      BY <3>2
  <2>8. CASE Crash
    <3>1. e \notin {a[1] : a \in {b \in Attempts : Active(b)}}
      BY DEF Active
    <3>2. job'[e] = job[e]
      BY <2>8, <3>1 DEF Crash, ReturnJobs
    <3> QED
      BY <2>8, <3>2 DEF Crash, Exhausted
  <2> QED
    BY <1>2, <2>2, <2>3, <2>4, <2>5, <2>6, <2>7, <2>8, QueueWriters
<1> QED
  BY <1>3, <1>4, <1>5 DEF OneSideHasIt

\* The handler of a failed job moves itself, and no other.
LEMMA HandlersWorkAlone ==
  ASSUME QueueTypes, NEW f \in Events,
         FailLogs(f) \/ ReadFailedEvent(f) \/ FailEvent(f) \/ AddDeadLetter(f)
  PROVE  \A e \in Events : e # f => closing'[e] = closing[e]
<1> SUFFICES ASSUME NEW e \in Events, e # f PROVE closing'[e] = closing[e]
  OBVIOUS
<1>1. CASE FailLogs(f)
  BY <1>1 DEF FailLogs, QueueTypes
<1>2. CASE ReadFailedEvent(f)
  BY <1>2 DEF ReadFailedEvent, QueueTypes
<1>3. CASE FailEvent(f)
  BY <1>3 DEF FailEvent, QueueTypes
<1>4. CASE AddDeadLetter(f)
  BY <1>4 DEF AddDeadLetter, QueueTypes
<1> QED
  BY <1>1, <1>2, <1>3, <1>4

\* Once the handler has failed the rows of an event, or its dead letter exists,
\* they stay final and the event stays ended.
LEMMA LettersStayFinal ==
  ASSUME AcceptanceInv, AnswerIsFirst, ClosingIsAlone, OneSideHasIt, LettersAreFinal, Next
  PROVE  LettersAreFinal'
<1> SUFFICES ASSUME OneWriter, Orderly
             PROVE  LettersAreFinal'
  BY DEF LettersAreFinal
<1> DEFINE Swept(e) == closing[e] \in {"event", "write", "letter"} \/ e \in dead
           Over(e) == closing[e] = "letter" \/ e \in dead
           Kept(e) == e \in dead => job[e] \in {"FAILED", "NONE"}
<1>1. /\ OutboxTypes /\ QueueTypes /\ DeliveryTypes /\ LetterTypes
      /\ \A a \in Attempts :
           a[1] \in Events /\ (pc[a] # "idle" => job[a[1]] = "ACTIVE")
      /\ \A a \in Attempts, c \in Configs : part[a][c] # "out" => pc[a] # "idle"
      /\ \A e \in Events :
           /\ Swept(e) => Conclusive(e)
           /\ Over(e) => Ended(e)
           /\ Kept(e)
           /\ closing[e] # "none" => job[e] = "FAILED"
           /\ claimed[e] # NotClaimed => status[e] = "DISPATCHED"
           /\ claimed[e] # NotClaimed => closing[e] = "none"
           /\ requeueing[e] = "none"
  BY ConstantTypes
     DEF AcceptanceInv, Types, OneWriter, ClosingIsAlone, OneSideHasIt, LettersAreFinal,
         LockIsHeldOnce, Active, PartsAreSent, NoParts
<1>2. /\ \A e \in Events, force \in BOOLEAN : ~ResetLogs(e, force)
      /\ \A e \in Events : ~ResetEvent(e)
      /\ \A e \in Events, remove \in BOOLEAN : ~AddRequeuedJob(e, remove)
      /\ \A a \in Attempts : ~Stall(a)
  <2>1. \A e \in Events, force \in BOOLEAN : ~ResetLogs(e, force)
    BY DEF Orderly, ResetLogs
  <2>2. /\ \A e \in Events : ~ResetEvent(e)
        /\ \A e \in Events, remove \in BOOLEAN : ~AddRequeuedJob(e, remove)
    BY <1>1 DEF ResetEvent, AddRequeuedJob
  <2>3. \A a \in Attempts : ~Stall(a)
    BY DEF OneWriter, Stall, Fault
  <2> QED
    BY <2>1, <2>2, <2>3
\* The rows: only an attempt with an active job writes them otherwise.
<1>3. ASSUME NEW e \in Events, Swept(e)
      PROVE  Conclusive(e)'
  <2>1. Conclusive(e) /\ job[e] \in {"FAILED", "NONE"}
    BY <1>1, <1>3
  <2>2. CASE UNCHANGED log
    BY <2>1, <2>2 DEF Conclusive
  <2>3. ASSUME NEW f \in Events, FailLogs(f)
        PROVE  Conclusive(e)'
    <3>1. log' = [log EXCEPT ![f] = [c \in Configs |->
                    IF c \in Undelivered(f)
                    THEN [status |-> "FAILED_FINAL", attempt |-> attempts[f]]
                    ELSE log[f][c]]]
      BY <2>3 DEF FailLogs, Rows
    <3>2. ASSUME NEW c \in Configs
          PROVE  log'[e][c].status \in {"NONE", "DELIVERED", "FAILED_FINAL"}
      BY <1>1, <2>1, <3>1 DEF Conclusive, DeliveryTypes
    <3> QED
      BY <3>2 DEF Conclusive
  <2>4. ASSUME NEW a \in Attempts, NEW c \in Configs, Record(a, c) \/ RecordThrows(a, c)
        PROVE  Conclusive(e)'
    <3>1. a[1] # e
      <4>1. part[a][c] # "out"
        BY <2>4 DEF Record, RecordThrows
      <4> QED
        BY <1>1, <2>1, <4>1
    <3>2. log'[e] = log[e]
      BY <1>1, <2>4, <3>1 DEF Record, RecordThrows, DeliveryTypes
    <3> QED
      BY <2>1, <3>2 DEF Conclusive
  <2>5. ASSUME NEW a \in Attempts, Take(a) \/ Settle(a) \/ \E c \in Configs : Send(a, c)
        PROVE  UNCHANGED log
    BY <2>5 DEF Take, Settle, Send
  <2>6. CASE Crash
    BY <2>2, <2>6 DEF Crash
  <2> QED
    BY <1>2, <2>2, <2>3, <2>4, <2>5, <2>6, OneWriterSteps DEF AcceptanceInv
\* The event: only its job, or a claim, could bring it back.
<1>4. ASSUME NEW e \in Events, Over(e)
      PROVE  Ended(e)'
  <2>1. /\ status[e] = "PROCESSED" \/ (status[e] = "FAILED" /\ retries[e] = MaxRetries)
        /\ job[e] \in {"FAILED", "NONE"}
    BY <1>1, <1>4 DEF Ended
  <2>2. ASSUME status'[e] = status[e], retries'[e] = retries[e]
        PROVE  Ended(e)'
    BY <2>1, <2>2 DEF Ended
  <2>3. CASE UNCHANGED <<outbox, dispatcher>>
    BY <2>2, <2>3 DEF outbox
  <2>4. ASSUME NEW batch \in SUBSET Events, ClaimDispatchable(batch)
        PROVE  Ended(e)'
    <3>1. e \notin batch
      BY <2>1, <2>4, ConstantTypes DEF ClaimDispatchable, Dispatchable
    <3> QED
      BY <2>2, <2>4, <3>1 DEF ClaimDispatchable
  <2>5. ASSUME NEW f \in Events, MarkEnqueueFailed(f)
        PROVE  Ended(e)'
    <3>1. claimed[f] # NotClaimed
      BY <1>1, <2>5 DEF MarkEnqueueFailed, OutboxTypes
    <3>2. f # e
      BY <1>1, <2>1, <3>1
    <3> QED
      BY <2>2, <2>5, <3>2 DEF MarkEnqueueFailed
  <2>6. ASSUME NEW f \in Events,
               Enqueue(f) \/ EnqueueThrows(f) \/ DispatchAborts(f) \/ BecomeDue(f)
        PROVE  Ended(e)'
    <3>1. UNCHANGED <<status, retries>>
      BY <2>6 DEF Enqueue, EnqueueThrows, DispatchAborts, BecomeDue, outbox
    <3> QED
      BY <2>2, <3>1
  <2>7. ASSUME NEW f \in Events, FailEvent(f)
        PROVE  Ended(e)'
    <3>1. CASE f = e
      BY <1>1, <2>7, <3>1 DEF FailEvent, Ended, OutboxTypes
    <3>2. CASE f # e
      BY <2>2, <2>7, <3>2 DEF FailEvent
    <3> QED
      BY <3>1, <3>2
  <2>8. ASSUME NEW a \in Attempts, Take(a) \/ Settle(a)
        PROVE  Ended(e)'
    <3>1. a[1] # e
      BY <1>1, <2>1, <2>8 DEF Take, Settle
    <3> QED
      BY <1>1, <2>2, <2>8, <3>1 DEF Take, Settle, outbox, OutboxTypes
  <2>9. CASE Crash
    BY <2>2, <2>9 DEF Crash, outbox
  <2> QED
    BY <1>2, <2>3, <2>4, <2>5, <2>6, <2>7, <2>8, <2>9, OutboxWriters
\* The job: it is kept as failed or forgotten, and nobody enqueues it again.
<1>6. ASSUME NEW e \in Events, Over(e)
      PROVE  job'[e] \in {"FAILED", "NONE"}
  <2>1. job[e] \in {"FAILED", "NONE"} /\ claimed[e] = NotClaimed
    <3>1. Ended(e)
      BY <1>1, <1>6
    <3> QED
      BY <1>1, <1>6, <3>1 DEF Ended
  <2>2. CASE UNCHANGED job
    BY <2>1, <2>2
  <2>3. ASSUME NEW f \in Events, Enqueue(f) \/ EnqueueThrows(f)
        PROVE  job'[e] = job[e]
    <3>1. f # e
      BY <2>1, <2>3 DEF Enqueue, EnqueueThrows
    <3> QED
      BY <1>1, <2>3, <3>1 DEF Enqueue, EnqueueThrows, AddJob, queue, QueueTypes
  <2>4. ASSUME NEW f \in Events, BackoffEnds(f) \/ ForgetJob(f)
        PROVE  job'[e] \in {"FAILED", "NONE"}
    BY <1>1, <2>1, <2>4 DEF BackoffEnds, ForgetJob, QueueTypes
  <2>5. ASSUME NEW f \in Events,
               FailLogs(f) \/ ReadFailedEvent(f) \/ FailEvent(f) \/ AddDeadLetter(f)
        PROVE  UNCHANGED job
    BY <2>5 DEF FailLogs, ReadFailedEvent, FailEvent, AddDeadLetter, queue
  <2>6. ASSUME NEW a \in Attempts, Take(a) \/ Settle(a) \/ Finish(a)
        PROVE  job'[e] = job[e]
    <3>1. a[1] # e
      BY <1>1, <2>1, <2>6 DEF Take, Settle, Finish
    <3> QED
      BY <1>1, <2>6, <3>1 DEF Take, Settle, Finish, FailJob, queue, QueueTypes
  <2>7. CASE Crash
    <3>1. e \notin {a[1] : a \in {b \in Attempts : Active(b)}}
      BY <1>1, <2>1 DEF Active
    <3> QED
      BY <2>1, <2>7, <3>1 DEF Crash, ReturnJobs
  <2> QED
    BY <1>2, <2>1, <2>2, <2>3, <2>4, <2>5, <2>6, <2>7, QueueWriters DEF queue
\* The handler gets there by failing the rows and then the event.
<1>7. ASSUME NEW e \in Events, closing'[e] \in {"event", "write", "letter"}, ~Swept(e)
      PROVE  Conclusive(e)' /\ closing'[e] # "letter"
  <2>1. FailLogs(e)
    <3>1. CASE UNCHANGED <<queue, pc, lost, closing>>
      BY <1>7, <3>1
    <3>2. ASSUME NEW f \in Events,
                 Enqueue(f) \/ EnqueueThrows(f) \/ BackoffEnds(f) \/ ForgetJob(f)
          PROVE  FALSE
      BY <1>7, <3>2 DEF Enqueue, EnqueueThrows, BackoffEnds, ForgetJob, closings
    <3>3. ASSUME NEW f \in Events,
                 FailLogs(f) \/ ReadFailedEvent(f) \/ FailEvent(f) \/ AddDeadLetter(f)
          PROVE  f = e /\ FailLogs(e)
      <4>1. f = e
        BY <1>1, <1>7, <3>3, HandlersWorkAlone
      <4> QED
        BY <1>7, <3>3, <4>1 DEF ReadFailedEvent, FailEvent, AddDeadLetter
    <3>4. ASSUME NEW a \in Attempts, Take(a) \/ Settle(a) \/ Finish(a)
          PROVE  FALSE
      <4>1. \/ UNCHANGED closing
            \/ \E p \in {"logs", closing[a[1]]} : closing' = [closing EXCEPT ![a[1]] = p]
        BY <3>4 DEF Take, Settle, Finish, FailJob, closings
      <4> QED
        BY <1>1, <1>7, <4>1 DEF QueueTypes
    <3>5. ~Crash
      BY <1>7 DEF Crash
    <3> QED
      BY <1>2, <3>1, <3>2, <3>3, <3>4, <3>5, QueueWriters
  <2>2. log' = [log EXCEPT ![e] = [c \in Configs |->
                  IF c \in Undelivered(e)
                  THEN [status |-> "FAILED_FINAL", attempt |-> attempts[e]]
                  ELSE log[e][c]]]
    BY <2>1 DEF FailLogs, Rows
  <2>3. ASSUME NEW c \in Configs
        PROVE  log'[e][c].status \in {"NONE", "DELIVERED", "FAILED_FINAL"}
    BY <1>1, <2>2 DEF Undelivered, DeliveryTypes
  <2>4. closing'[e] = "event"
    BY <1>1, <2>1 DEF FailLogs, QueueTypes
  <2> QED
    BY <2>3, <2>4 DEF Conclusive
<1>8. ASSUME NEW e \in Events, closing'[e] = "letter", ~Over(e)
      PROVE  Ended(e)'
  <2>1. ReadFailedEvent(e) \/ FailEvent(e)
    <3>1. CASE UNCHANGED <<queue, pc, lost, closing>>
      BY <1>8, <3>1
    <3>2. ASSUME NEW f \in Events,
                 Enqueue(f) \/ EnqueueThrows(f) \/ BackoffEnds(f) \/ ForgetJob(f)
          PROVE  FALSE
      BY <1>8, <3>2 DEF Enqueue, EnqueueThrows, BackoffEnds, ForgetJob, closings
    <3>3. ASSUME NEW f \in Events,
                 FailLogs(f) \/ ReadFailedEvent(f) \/ FailEvent(f) \/ AddDeadLetter(f)
          PROVE  f = e /\ (ReadFailedEvent(e) \/ FailEvent(e))
      <4>1. f = e
        BY <1>1, <1>8, <3>3, HandlersWorkAlone
      <4> QED
        BY <1>1, <1>8, <3>3, <4>1 DEF FailLogs, AddDeadLetter, QueueTypes
    <3>4. ASSUME NEW a \in Attempts, Take(a) \/ Settle(a) \/ Finish(a)
          PROVE  FALSE
      <4>1. \/ UNCHANGED closing
            \/ \E p \in {"logs", closing[a[1]]} : closing' = [closing EXCEPT ![a[1]] = p]
        BY <3>4 DEF Take, Settle, Finish, FailJob, closings
      <4> QED
        BY <1>1, <1>8, <4>1 DEF QueueTypes
    <3>5. ~Crash
      BY <1>8 DEF Crash
    <3> QED
      BY <1>2, <3>1, <3>2, <3>3, <3>4, <3>5, QueueWriters
  <2>2. CASE ReadFailedEvent(e)
    BY <1>1, <1>8, <2>2 DEF ReadFailedEvent, Ended, outbox, QueueTypes
  <2>3. CASE FailEvent(e)
    BY <1>1, <2>3 DEF FailEvent, Ended, OutboxTypes
  <2> QED
    BY <2>1, <2>2, <2>3
<1>9. ASSUME NEW e \in Events, e \in dead'
      PROVE  Over(e)
  BY <1>2, <1>9, LetterWriters
     DEF FailLogs, AddDeadLetter, RequeueThrows, Crash, deadLetters
<1>10. ASSUME NEW e \in Events
       PROVE  /\ (closing[e] \in {"event", "write", "letter"} => Conclusive(e))'
              /\ (closing[e] = "letter" => Ended(e))'
              /\ (e \in dead => Conclusive(e) /\ Ended(e) /\ job[e] \in {"FAILED", "NONE"})'
  <2>1. closing'[e] \in {"event", "write", "letter"} => Conclusive(e)'
    BY <1>3, <1>7
  <2>2. closing'[e] = "letter" => Ended(e)'
    BY <1>4, <1>8
  <2>3. e \in dead' => Conclusive(e)' /\ Ended(e)' /\ job'[e] \in {"FAILED", "NONE"}
    BY <1>3, <1>4, <1>6, <1>9
  <2> QED
    BY <2>1, <2>2, <2>3
<1> QED
  BY <1>10 DEF LettersAreFinal

\* While the dead letter of a failed event waits for an operator, no delivery of
\* the event is shown as still to be retried; as long as nobody else works on
\* the event beside the handler that wrote the letter: no second attempt, no
\* retry by hand, no requeue and no dispatcher that takes a slow job for a lost
\* one.
THEOREM DeadLettersAreConclusive ==
  OneWriter /\ Orderly => (Spec => []DeadLetterIsConclusive)
<1> SUFFICES ASSUME OneWriter, Orderly PROVE Spec => []DeadLetterIsConclusive
  OBVIOUS
<1> DEFINE Inv == AnswerIsFirst /\ ClosingIsAlone /\ OneSideHasIt /\ LettersAreFinal
<1>1. Init => Inv
  <2> SUFFICES ASSUME Init PROVE Inv
    OBVIOUS
  <2> USE ConstantTypes DEF Init
  <2>1. AnswerIsFirst
    BY DEF AnswerIsFirst, NoParts
  <2>2. ClosingIsAlone /\ LettersAreFinal
    BY DEF ClosingIsAlone, LettersAreFinal
  <2>3. OneSideHasIt
    BY DEF OneSideHasIt
  <2> QED
    BY <2>1, <2>2, <2>3
<1>2. AcceptanceInv /\ Inv /\ [Next]_vars => Inv'
  <2>1. ASSUME Inv, UNCHANGED vars
        PROVE  Inv'
    BY <2>1 DEF vars, outbox, dispatcher, queue, deliveries, closings, deadLetters,
       AnswerIsFirst, ClosingIsAlone, OneSideHasIt, LettersAreFinal, Conclusive, Ended
  <2> QED
    BY <2>1, AnswerStaysFirst, ClosingStaysAlone, OneSideStaysInCharge, LettersStayFinal
<1>3. AcceptanceInv /\ Inv => DeadLetterIsConclusive
  BY DEF AcceptanceInv, Types, LetterTypes, LettersAreFinal, DeadLetterIsConclusive, Conclusive
<1> QED
  BY <1>1, <1>2, <1>3, AcceptanceInvariant, PTL DEF Spec

-----------------------------------------------------------------------------
(* The contract of deliveries.                                             *)

\* What the contract speaks of is written by these steps.
LEMMA ContractWriters ==
  ASSUME Next
  PROVE  \/ UNCHANGED <<status, retries, accepted, dead>>
         \/ \E batch \in SUBSET Events : ClaimDispatchable(batch)
         \/ \E e \in Events :
              \/ MarkEnqueueFailed(e) \/ FailEvent(e) \/ AddDeadLetter(e) \/ ResetEvent(e)
              \/ \E remove \in BOOLEAN : AddRequeuedJob(e, remove)
              \/ \E c \in Configs : RetryByHand(e, c)
         \/ \E a \in Attempts :
              Take(a) \/ Settle(a) \/ \E c \in Configs : Send(a, c)
<1> DEFINE Same == UNCHANGED <<status, retries, accepted, dead>>
<1>1. ASSUME NEW e \in Events,
             Enqueue(e) \/ EnqueueThrows(e) \/ DispatchAborts(e) \/ BecomeDue(e)
                     \/ BackoffEnds(e) \/ ForgetJob(e) \/ FailLogs(e) \/ ReadFailedEvent(e)
                     \/ RequeueThrows(e)
      PROVE  Same
  BY <1>1
     DEF Enqueue, EnqueueThrows, DispatchAborts, BecomeDue, BackoffEnds, ForgetJob,
         FailLogs, ReadFailedEvent, RequeueThrows, outbox, deadLetters
<1>2. ASSUME NEW e \in Events, NEW force \in BOOLEAN,
             ResetLogs(e, force)
      PROVE  Same
  BY <1>2 DEF ResetLogs, outbox, deadLetters
<1>3. ASSUME NEW a \in Attempts,
             Finish(a) \/ Stall(a)
      PROVE  Same
  BY <1>3 DEF Finish, Stall, FailJob, outbox, deadLetters
<1>4. ASSUME NEW a \in Attempts, NEW c \in Configs,
             Record(a, c) \/ RecordThrows(a, c)
      PROVE  Same
  BY <1>4 DEF Record, RecordThrows, outbox, deadLetters
<1>5. CASE RecordByHand \/ Crash
  BY <1>5 DEF RecordByHand, Crash, outbox, deadLetters
<1> QED
  BY <1>1, <1>2, <1>3, <1>4, <1>5 DEF Next, Dispatch, Close, Step

\* One event changes.
LEMMA OneOutcome ==
  ASSUME NEW e \in Events,
         \A f \in Events : f # e => status'[f] = status[f] /\ retries'[f] = retries[f]
  PROVE  Outcome' = [Outcome EXCEPT ![e] = Outcome'[e]]
BY DEF Outcome, Ended

\* A destination accepts.
LEMMA OneServed ==
  ASSUME Types, NEW e \in Events, NEW c \in Configs, Accept(e, c)
  PROVE  Served' = [Served EXCEPT ![e] = @ \cup {c}]
<1>1. /\ accepted'[e][c] > 0
      /\ \A f \in Events, d \in Configs :
           <<f, d>> # <<e, c>> => accepted'[f][d] = accepted[f][d]
  BY AcceptUpdates DEF Types
<1>2. ASSUME NEW f \in Events
      PROVE  Served'[f] = IF f = e THEN Served[e] \cup {c} ELSE Served[f]
  <2>1. CASE f = e
    BY <1>1, <2>1 DEF Served
  <2>2. CASE f # e
    BY <1>1, <2>2 DEF Served
  <2> QED
    BY <2>1, <2>2
<1> QED
  BY <1>2 DEF Served

\* The dispatcher has no failed enqueue at hand, unless enqueues may fail.
LEMMA NothingStaysRejected ==
  ASSUME EnqueuesSucceed, rejected = {}, Next
  PROVE  rejected' = {}
<1>1. \A e \in Events : ~EnqueueThrows(e) /\ ~MarkEnqueueFailed(e) /\ ~DispatchAborts(e)
  BY DEF EnqueuesSucceed, EnqueueThrows, MarkEnqueueFailed, DispatchAborts, Fault
<1> QED
  BY <1>1, OutboxWriters
     DEF ClaimDispatchable, Enqueue, BecomeDue, FailEvent, ResetEvent, Take, Settle, Crash,
         dispatcher

\* Every step is a step of the contract, or changes nothing it speaks of.
LEMMA StepsKeepContract ==
  ASSUME "stall" \notin FaultKinds, EnqueuesSucceed \/ Orderly,
         AcceptanceInv, ClosingIsAlone, OneSideHasIt, EnqueuesSucceed => rejected = {}, Next
  PROVE  Contract!Next \/ UNCHANGED <<Outcome, Served, dead>>
<1> DEFINE Same == UNCHANGED <<Outcome, Served, dead>>
<1>1. /\ Types /\ OutboxTypes /\ QueueTypes /\ DeliveryTypes
      /\ \A a \in Attempts : a[1] \in Events
      /\ \A e \in Events :
           /\ closing[e] = "write" => status[e] # "PROCESSED"
           /\ requeueing[e] = "event" => e \in dead
  BY ConstantTypes DEF AcceptanceInv, Types, ClosingIsAlone
<1>2. CASE UNCHANGED <<status, retries, accepted, dead>>
  BY <1>2 DEF Outcome, Served, Ended
<1>3. ASSUME NEW batch \in SUBSET Events, ClaimDispatchable(batch)
      PROVE  Same
  <2>1. UNCHANGED <<retries, accepted, dead>>
    BY <1>3 DEF ClaimDispatchable, deadLetters
  <2>2. ASSUME NEW e \in Events
        PROVE  Outcome'[e] = Outcome[e]
    <3>1. CASE e \in batch
      BY <1>1, <1>3, <2>1, <3>1, ConstantTypes
         DEF ClaimDispatchable, Dispatchable, Outcome, Ended, OutboxTypes
    <3>2. CASE e \notin batch
      BY <1>3, <2>1, <3>2 DEF ClaimDispatchable, Outcome, Ended
    <3> QED
      BY <3>1, <3>2
  <2>3. Outcome' = Outcome
    BY <2>2 DEF Outcome
  <2> QED
    BY <2>1, <2>3 DEF Served
<1>4. ASSUME NEW e \in Events, MarkEnqueueFailed(e) \/ FailEvent(e)
      PROVE  Contract!Next \/ Same
  <2>1. UNCHANGED <<accepted, dead>>
    BY <1>4 DEF MarkEnqueueFailed, FailEvent, deadLetters
  <2>2. Outcome' = [Outcome EXCEPT ![e] = Outcome'[e]]
    <3>1. \A f \in Events : f # e => status'[f] = status[f] /\ retries'[f] = retries[f]
      BY <1>1, <1>4 DEF MarkEnqueueFailed, FailEvent, OutboxTypes
    <3> QED
      BY <3>1, OneOutcome
  <2>3. CASE MarkEnqueueFailed(e)
    <3>1. status[e] = "DISPATCHED"
      BY <1>1, <2>3 DEF MarkEnqueueFailed, OutboxTypes, OneSideHasIt
    <3>2. Outcome[e] = "OPEN" /\ status'[e] = "FAILED"
      BY <1>1, <2>3, <3>1 DEF MarkEnqueueFailed, Outcome, Ended, OutboxTypes
    <3>3. Outcome'[e] \in {"OPEN", "ABANDONED"}
      BY <3>2 DEF Outcome
    <3>4. CASE Outcome'[e] = "OPEN"
      <4>1. Outcome' = Outcome
        BY <2>2, <3>2, <3>4 DEF Outcome
      <4> QED
        BY <2>1, <4>1 DEF Served
    <3>5. CASE Outcome'[e] = "ABANDONED"
      <4>1. Contract!Abandon(e)
        BY <2>1, <2>2, <3>2, <3>5 DEF Contract!Abandon, Served
      <4> QED
        BY <4>1 DEF Contract!Next
    <3> QED
      BY <3>3, <3>4, <3>5
  <2>4. CASE FailEvent(e)
    <3>1. Outcome[e] \in {"OPEN", "ABANDONED"}
      BY <1>1, <2>4 DEF FailEvent, Outcome
    <3>2. Outcome'[e] = "ABANDONED"
      BY <1>1, <2>4 DEF FailEvent, Outcome, Ended, OutboxTypes
    <3>3. CASE Outcome[e] = "ABANDONED"
      <4>1. Outcome' = Outcome
        BY <2>2, <3>2, <3>3 DEF Outcome
      <4> QED
        BY <2>1, <4>1 DEF Served
    <3>4. CASE Outcome[e] = "OPEN"
      <4>1. Contract!Abandon(e)
        BY <2>1, <2>2, <3>2, <3>4 DEF Contract!Abandon, Served
      <4> QED
        BY <4>1 DEF Contract!Next
    <3> QED
      BY <3>1, <3>3, <3>4
  <2> QED
    BY <1>4, <2>3, <2>4
<1>5. ASSUME NEW e \in Events, ResetEvent(e)
      PROVE  Contract!Next
  <2>1. e \in dead /\ UNCHANGED <<accepted, dead>>
    BY <1>1, <1>5 DEF ResetEvent, deadLetters
  <2>2. Outcome' = [Outcome EXCEPT ![e] = Outcome'[e]]
    BY <1>5, OneOutcome DEF ResetEvent
  <2>3. Outcome'[e] = "OPEN"
    BY <1>1, <1>5 DEF ResetEvent, Outcome, Ended, OutboxTypes
  <2>4. Contract!Reopen(e)
    BY <2>1, <2>2, <2>3 DEF Contract!Reopen, Served
  <2> QED
    BY <2>4 DEF Contract!Next
<1>6. ASSUME NEW e \in Events,
             AddDeadLetter(e) \/ \E remove \in BOOLEAN : AddRequeuedJob(e, remove)
      PROVE  Contract!Next \/ Same
  <2>1. UNCHANGED <<Outcome, Served>>
    BY <1>6 DEF AddDeadLetter, AddRequeuedJob, outbox, Outcome, Served, Ended
  <2>2. dead' = dead \cup {e} \/ dead' = dead \ {e} \/ dead' = dead
    BY <1>6 DEF AddDeadLetter, AddRequeuedJob
  <2>3. Contract!WriteLetter(e) \/ Contract!RemoveLetter(e) \/ Same
    BY <2>1, <2>2 DEF Contract!WriteLetter, Contract!RemoveLetter
  <2> QED
    BY <2>3 DEF Contract!Next
<1>7. ASSUME NEW e \in Events, NEW c \in Configs, UNCHANGED <<status, retries, dead>>,
             UNCHANGED accepted \/ Accept(e, c)
      PROVE  Contract!Next \/ Same
  <2>1. UNCHANGED Outcome
    BY <1>7 DEF Outcome, Ended
  <2>2. CASE UNCHANGED accepted
    BY <1>7, <2>1, <2>2 DEF Served
  <2>3. CASE Accept(e, c)
    <3>1. Contract!Serve(e, c)
      BY <1>1, <1>7, <2>1, <2>3, OneServed DEF Contract!Serve
    <3> QED
      BY <3>1 DEF Contract!Next
  <2> QED
    BY <1>7, <2>2, <2>3
<1>8. ASSUME NEW e \in Events, NEW c \in Configs, RetryByHand(e, c)
      PROVE  Contract!Next \/ Same
  <2>1. UNCHANGED <<status, retries, dead>> /\ (UNCHANGED accepted \/ Accept(e, c))
    BY <1>8 DEF RetryByHand, outbox, deadLetters
  <2> QED
    BY <1>7, <2>1
<1>9. ASSUME NEW a \in Attempts, NEW c \in Configs, Send(a, c)
      PROVE  Contract!Next \/ Same
  <2>1. UNCHANGED <<status, retries, dead>> /\ (UNCHANGED accepted \/ Accept(a[1], c))
    BY <1>9 DEF Send, outbox, deadLetters
  <2> QED
    BY <1>1, <1>7, <2>1
<1>10. ASSUME NEW a \in Attempts, Take(a) \/ Settle(a)
       PROVE  Contract!Next \/ Same
  <2>1. a[1] \in Events /\ UNCHANGED <<retries, accepted, dead>>
    BY <1>1, <1>10 DEF Take, Settle, outbox, deadLetters
  <2>2. CASE UNCHANGED status
    BY <1>2, <2>1, <2>2
  <2>3. CASE status' = [status EXCEPT ![a[1]] = "PROCESSED"]
    <3>1. status'[a[1]] = "PROCESSED"
      BY <1>1, <2>1, <2>3 DEF OutboxTypes
    <3>2. Outcome' = [Outcome EXCEPT ![a[1]] = Outcome'[a[1]]]
      BY <2>1, <2>3, OneOutcome
    <3>3. Outcome'[a[1]] = "DELIVERED"
      BY <2>1, <3>1 DEF Outcome
    <3>4. Destinations[a[1]] \subseteq Served[a[1]]
      <4>1. ProcessedWasAccepted'
        BY ProcessedStaysAccepted DEF AcceptanceInv
      <4>2. \A c \in Destinations[a[1]] : c \in Configs /\ accepted[a[1]][c] > 0
        BY <2>1, <3>1, <4>1, DeliveryAssumption DEF ProcessedWasAccepted
      <4> QED
        BY <2>1, <4>2 DEF Served
    <3>5. Contract!Deliver(a[1])
      BY <2>1, <3>2, <3>3, <3>4 DEF Contract!Deliver, Served
    <3> QED
      BY <2>1, <3>5 DEF Contract!Next
  <2> QED
    BY <1>10, <2>2, <2>3 DEF Take, Settle, outbox
<1> QED
  BY <1>2, <1>3, <1>4, <1>5, <1>6, <1>8, <1>9, <1>10, ContractWriters

\* Deliveries keep their contract: an event is delivered only once all its
\* destinations have been served and then stays so, or it is abandoned, and only
\* an operator who holds its dead letter opens it again; as long as no stalled
\* attempt goes on beside its successor, and either no enqueue fails or the
\* dispatcher never claims an event that the queue still has.
THEOREM DeliveryKeepsContract ==
  "stall" \notin FaultKinds /\ (EnqueuesSucceed \/ Orderly) => (Spec => ImplementsContract)
<1> SUFFICES ASSUME "stall" \notin FaultKinds, EnqueuesSucceed \/ Orderly
             PROVE  Spec => ImplementsContract
  OBVIOUS
<1> DEFINE Inv == ClosingIsAlone /\ OneSideHasIt /\ (EnqueuesSucceed => rejected = {})
<1>1. Init => Inv /\ Contract!Init
  <2> SUFFICES ASSUME Init PROVE Inv /\ Contract!Init
    OBVIOUS
  <2> USE ConstantTypes DEF Init
  <2>1. ClosingIsAlone
    BY DEF ClosingIsAlone
  <2>2. OneSideHasIt
    BY DEF OneSideHasIt
  <2>3. Contract!Init
    BY DEF Contract!Init, Outcome, Served, Ended
  <2> QED
    BY <2>1, <2>2, <2>3
<1>2. AcceptanceInv /\ Inv /\ [Next]_vars => Inv'
  <2>1. ASSUME Inv, UNCHANGED vars
        PROVE  Inv'
    BY <2>1 DEF vars, outbox, dispatcher, queue, deliveries, closings, deadLetters,
       ClosingIsAlone, OneSideHasIt
  <2> QED
    BY <2>1, ClosingStaysAlone, OneSideStaysInCharge, NothingStaysRejected
<1>3. AcceptanceInv /\ Inv /\ [Next]_vars => [Contract!Next]_<<Outcome, Served, dead>>
  <2>1. ASSUME UNCHANGED vars
        PROVE  UNCHANGED <<Outcome, Served, dead>>
    BY <2>1 DEF vars, outbox, deadLetters, Outcome, Served, Ended
  <2> QED
    BY <2>1, StepsKeepContract
<1>4. Spec => Contract!Spec
  BY <1>1, <1>2, <1>3, AcceptanceInvariant, PTL DEF Spec, Contract!Spec
<1> QED
  BY <1>4 DEF ImplementsContract

-----------------------------------------------------------------------------
(* No event is stranded.                                                   *)

\* A processing date is written together with PROCESSED and cleared by the
\* requeue; nobody takes PROCESSED back but the handler, which gives the event
\* up, and the dispatcher's failed enqueue.
LEMMA ProcessedStaysOver ==
  ASSUME SureDispatch, AcceptanceInv, OneSideHasIt, EnqueuesSucceed => rejected = {},
         ProcessedIsOver, Next
  PROVE  ProcessedIsOver'
<1>1. OutboxTypes /\ \A a \in Attempts : a[1] \in Events
  BY ConstantTypes DEF AcceptanceInv, Types
<1> SUFFICES ASSUME NEW e \in Events, processed'[e] PROVE Ended(e)'
  BY DEF ProcessedIsOver
<1> USE <1>1, ConstantTypes DEF OutboxTypes
<1>2. CASE UNCHANGED <<outbox, dispatcher>>
  BY <1>2 DEF outbox, ProcessedIsOver, Ended
<1>3. ASSUME NEW batch \in SUBSET Events, ClaimDispatchable(batch)
      PROVE  Ended(e)'
  <2>1. processed[e] /\ Ended(e)
    BY <1>3 DEF ClaimDispatchable, ProcessedIsOver
  <2>2. ~Dispatchable(e)
    BY <2>1 DEF Dispatchable, Ended
  <2>3. e \notin batch
    BY <1>3, <2>2 DEF ClaimDispatchable
  <2> QED
    BY <1>3, <2>1, <2>3 DEF ClaimDispatchable, Ended
<1>4. ASSUME NEW f \in Events, Enqueue(f) \/ EnqueueThrows(f) \/ DispatchAborts(f) \/ BecomeDue(f)
      PROVE  Ended(e)'
  <2>1. UNCHANGED <<status, retries, processed>>
    BY <1>4 DEF Enqueue, EnqueueThrows, DispatchAborts, BecomeDue, outbox
  <2> QED
    BY <2>1 DEF ProcessedIsOver, Ended
<1>5. ASSUME NEW f \in Events, MarkEnqueueFailed(f)
      PROVE  Ended(e)'
  <2>1. ~EnqueuesSucceed
    BY <1>5 DEF MarkEnqueueFailed
  <2>2. claimed[f] # NotClaimed
    BY <1>5 DEF MarkEnqueueFailed
  <2>3. status[f] = "DISPATCHED"
    BY <2>1, <2>2 DEF SureDispatch, OneSideHasIt
  <2>4. ~processed[f]
    BY <2>3 DEF ProcessedIsOver, Ended
  <2>5. processed[e] /\ e # f
    BY <1>5, <2>4 DEF MarkEnqueueFailed
  <2> QED
    BY <1>5, <2>5 DEF MarkEnqueueFailed, ProcessedIsOver, Ended
<1>6. ASSUME NEW f \in Events, FailEvent(f)
      PROVE  Ended(e)'
  <2>1. CASE e = f
    BY <1>6, <2>1 DEF FailEvent, Ended
  <2>2. CASE e # f
    BY <1>6, <2>2 DEF FailEvent, ProcessedIsOver, Ended
  <2> QED
    BY <2>1, <2>2
<1>7. ASSUME NEW f \in Events, ResetEvent(f)
      PROVE  Ended(e)'
  <2>1. processed[e] /\ e # f
    BY <1>7 DEF ResetEvent
  <2> QED
    BY <1>7, <2>1 DEF ResetEvent, ProcessedIsOver, Ended
<1>8. ASSUME NEW a \in Attempts, Take(a) \/ Settle(a)
      PROVE  Ended(e)'
  <2>1. CASE UNCHANGED <<status, retries, processed>>
    BY <2>1 DEF ProcessedIsOver, Ended
  <2>2. CASE /\ status' = [status EXCEPT ![a[1]] = "PROCESSED"]
             /\ processed' = [processed EXCEPT ![a[1]] = TRUE]
             /\ UNCHANGED retries
    <3>1. CASE e = a[1]
      BY <2>2, <3>1 DEF Ended
    <3>2. CASE e # a[1]
      BY <2>2, <3>2 DEF ProcessedIsOver, Ended
    <3> QED
      BY <3>1, <3>2
  <2> QED
    BY <1>8, <2>1, <2>2 DEF Take, Settle, outbox
<1>9. CASE Crash
  BY <1>9 DEF Crash, outbox, ProcessedIsOver, Ended
<1> QED
  BY <1>2, <1>3, <1>4, <1>5, <1>6, <1>7, <1>8, <1>9, OutboxWriters

\* A job becomes active in the hands of an attempt, and leaves them when that
\* attempt ends, stalls or dies.
LEMMA JobsStayHeld ==
  ASSUME AcceptanceInv, JobIsHeld, Next
  PROVE  JobIsHeld'
<1> DEFINE Idle == \A a \in Attempts : pc[a] = "idle" => ~lost[a]
           Held(e) == \E a \in Attempts : a[1] = e /\ Active(a)
<1>1. /\ QueueTypes /\ LockIsHeldOnce /\ Idle
      /\ \A a \in Attempts : a[1] \in Events
      /\ \A e \in Events : job[e] = "ACTIVE" => Held(e)
  BY ConstantTypes DEF AcceptanceInv, Types, JobIsHeld
<1>2. Idle'
  <2> USE <1>1 DEF QueueTypes
  <2>1. CASE UNCHANGED <<pc, lost>>
    BY <2>1
  <2>2. ASSUME NEW a \in Attempts, Take(a) \/ Settle(a)
        PROVE  Idle'
    <3>1. UNCHANGED lost /\ \E p \in {"ack", "nack", "sending"} : pc' = [pc EXCEPT ![a] = p]
      BY <2>2 DEF Take, Settle, GoTo
    <3> QED
      BY <3>1
  <2>3. ASSUME NEW a \in Attempts, Finish(a)
        PROVE  Idle'
    <3>1. pc' = [pc EXCEPT ![a] = "idle"] /\ lost' = [lost EXCEPT ![a] = FALSE]
      BY <2>3 DEF Finish, GoTo
    <3> QED
      BY <3>1
  <2>4. ASSUME NEW a \in Attempts, Stall(a)
        PROVE  Idle'
    <3>1. pc[a] # "idle" /\ UNCHANGED pc /\ lost' = [lost EXCEPT ![a] = TRUE]
      BY <2>4 DEF Stall, Active
    <3> QED
      BY <3>1
  <2>5. CASE Crash
    BY <2>5 DEF Crash
  <2>6. ASSUME NEW e \in Events,
               \/ Enqueue(e) \/ EnqueueThrows(e) \/ BackoffEnds(e) \/ ForgetJob(e)
               \/ FailLogs(e) \/ ReadFailedEvent(e) \/ FailEvent(e) \/ AddDeadLetter(e)
               \/ \E remove \in BOOLEAN : AddRequeuedJob(e, remove)
        PROVE  UNCHANGED <<pc, lost>>
    BY <2>6 DEF Enqueue, EnqueueThrows, BackoffEnds, ForgetJob, FailLogs, ReadFailedEvent,
                FailEvent, AddDeadLetter, AddRequeuedJob, deliveries
  <2> QED
    BY <2>1, <2>2, <2>3, <2>4, <2>5, <2>6, QueueWriters
<1>3. ASSUME NEW e \in Events, job'[e] = "ACTIVE"
      PROVE  Held(e)'
  <2> USE <1>1, <1>3 DEF QueueTypes
  <2>1. ASSUME job[e] = "ACTIVE", NEW a \in Attempts, a[1] # e, NEW p, NEW l,
               pc' = [pc EXCEPT ![a] = p], lost' = [lost EXCEPT ![a] = l]
        PROVE  Held(e)'
    BY <2>1 DEF Active
  <2>2. CASE UNCHANGED <<queue, pc, lost, closing>>
    BY <2>2 DEF queue, Active
  <2>3. ASSUME NEW f \in Events,
               \/ Enqueue(f) \/ EnqueueThrows(f) \/ BackoffEnds(f) \/ ForgetJob(f)
               \/ FailLogs(f) \/ ReadFailedEvent(f) \/ FailEvent(f) \/ AddDeadLetter(f)
               \/ \E remove \in BOOLEAN : AddRequeuedJob(f, remove)
        PROVE  Held(e)'
    <3>1. UNCHANGED <<pc, lost>>
      BY <2>3 DEF Enqueue, EnqueueThrows, BackoffEnds, ForgetJob, FailLogs, ReadFailedEvent,
                  FailEvent, AddDeadLetter, AddRequeuedJob, deliveries
    <3>2. \/ UNCHANGED job
          \/ \E j \in {"WAITING", "NONE", job[f]} : job' = [job EXCEPT ![f] = j]
      BY <2>3 DEF Enqueue, EnqueueThrows, BackoffEnds, ForgetJob, FailLogs, ReadFailedEvent,
                  FailEvent, AddDeadLetter, AddRequeuedJob, AddJob, queue
    <3>3. job[e] = "ACTIVE"
      BY <3>2
    <3> QED
      BY <3>1, <3>3 DEF Active
  <2>4. ASSUME NEW a \in Attempts, Take(a)
        PROVE  Held(e)'
    <3>1. \E p \in {"ack", "sending"} : pc' = [pc EXCEPT ![a] = p]
      BY <2>4 DEF Take, GoTo
    <3>2. UNCHANGED lost /\ pc[a] = "idle" /\ job' = [job EXCEPT ![a[1]] = "ACTIVE"]
      BY <2>4 DEF Take
    <3>3. CASE a[1] = e
      BY <3>1, <3>2, <3>3 DEF Active
    <3>4. CASE a[1] # e
      BY <3>1, <3>2, <3>4 DEF Active
    <3> QED
      BY <3>3, <3>4
  <2>5. ASSUME NEW a \in Attempts, Settle(a)
        PROVE  Held(e)'
    <3>1. /\ pc[a] = "sending" /\ UNCHANGED <<job, lost>>
          /\ \E p \in {"ack", "nack"} : pc' = [pc EXCEPT ![a] = p]
      BY <2>5 DEF Settle, GoTo, queue
    <3> QED
      BY <3>1 DEF Active
  <2>6. ASSUME NEW a \in Attempts, Finish(a)
        PROVE  Held(e)'
    <3>1. pc' = [pc EXCEPT ![a] = "idle"] /\ lost' = [lost EXCEPT ![a] = FALSE]
      BY <2>6 DEF Finish, GoTo
    <3>2. CASE lost[a]
      <4>1. UNCHANGED job /\ ~Active(a)
        BY <2>6, <3>2 DEF Finish, Active, queue
      <4> QED
        BY <3>1, <4>1 DEF Active
    <3>3. CASE ~lost[a]
      <4>1. \E j \in {"COMPLETED", "FAILED", "DELAYED"} : job' = [job EXCEPT ![a[1]] = j]
        BY <2>6, <3>3 DEF Finish, FailJob
      <4>2. a[1] # e /\ job[e] = "ACTIVE"
        BY <4>1
      <4> QED
        BY <2>1, <3>1, <4>2
    <3> QED
      BY <3>2, <3>3
  <2>7. ASSUME NEW a \in Attempts, Stall(a)
        PROVE  Held(e)'
    <3>1. a[1] # e /\ job[e] = "ACTIVE"
      BY <2>7 DEF Stall, ReturnJobs
    <3>2. UNCHANGED pc /\ lost' = [lost EXCEPT ![a] = TRUE]
      BY <2>7 DEF Stall
    <3> QED
      BY <3>1, <3>2 DEF Active
  <2>8. ~Crash
    <3> SUFFICES ASSUME Crash PROVE FALSE
      OBVIOUS
    <3>1. e \notin {a[1] : a \in {b \in Attempts : Active(b)}} /\ job[e] = "ACTIVE"
      BY DEF Crash, ReturnJobs
    <3> QED
      BY <3>1
  <2> QED
    BY <2>2, <2>3, <2>4, <2>5, <2>6, <2>7, <2>8, QueueWriters
<1> QED
  BY <1>2, <1>3 DEF JobIsHeld

\* Whoever does not end, waits for somebody.
LEMMA OpenIsInHand ==
  ASSUME Runs # {}, AcceptanceInv, ProcessedIsOver, JobIsHeld
  PROVE  NoEventIsStranded
<1> SUFFICES ASSUME NEW e \in Events, ~Ended(e), ~InHand(e) PROVE FALSE
  BY DEF NoEventIsStranded
<1>1. OutboxTypes /\ QueueTypes
  BY DEF AcceptanceInv, Types
<1>2. closing[e] = "none" /\ requeueing[e] = "none" /\ job[e] # "DELAYED"
  BY DEF InHand
<1>3. job[e] # "ACTIVE"
  BY DEF InHand, JobIsHeld, Active
<1>4. job[e] # "WAITING"
  <2>1. PICK r \in Runs : TRUE
    OBVIOUS
  <2>2. <<e, r>> \in Attempts /\ <<e, r>>[1] = e
    BY DEF Attempts
  <2> QED
    BY <2>2 DEF InHand
<1>5. due[e]
  BY <1>1, <1>2, <1>3, <1>4 DEF InHand, InQueue, OutboxTypes
<1>6. ~processed[e]
  BY DEF ProcessedIsOver
<1>7. status[e] \in {"PENDING", "DISPATCHED"} \/ (status[e] = "FAILED" /\ retries[e] < MaxRetries)
  BY <1>1, ConstantTypes DEF Ended, OutboxTypes
<1> QED
  BY <1>5, <1>6, <1>7 DEF InHand, Dispatchable

\* What the two theorems below rest on.
LEMMA DispatchInvariant ==
  SureDispatch => (Spec => [](AcceptanceInv /\ ProcessedIsOver /\ JobIsHeld))
<1> SUFFICES ASSUME SureDispatch
             PROVE  Spec => [](AcceptanceInv /\ ProcessedIsOver /\ JobIsHeld)
  OBVIOUS
<1> DEFINE Inv == /\ "stall" \notin FaultKinds => ClosingIsAlone
                  /\ OneSideHasIt /\ (EnqueuesSucceed => rejected = {})
                  /\ ProcessedIsOver /\ JobIsHeld
<1>1. Init => Inv
  <2> SUFFICES ASSUME Init PROVE Inv
    OBVIOUS
  <2> USE ConstantTypes DEF Init
  <2>1. ClosingIsAlone
    BY DEF ClosingIsAlone
  <2>2. OneSideHasIt
    BY DEF OneSideHasIt
  <2>3. ProcessedIsOver /\ JobIsHeld
    BY DEF ProcessedIsOver, JobIsHeld
  <2> QED
    BY <2>1, <2>2, <2>3
<1>2. AcceptanceInv /\ Inv /\ [Next]_vars => Inv'
  <2>1. ASSUME Inv, UNCHANGED vars
        PROVE  Inv'
    BY <2>1 DEF vars, outbox, dispatcher, queue, deliveries, closings, deadLetters,
       ClosingIsAlone, OneSideHasIt, ProcessedIsOver, JobIsHeld, Ended, Active
  <2>2. AcceptanceInv /\ Inv /\ Next => Inv'
    <3>1. ASSUME "stall" \in FaultKinds PROVE OneSideHasIt'
      BY <3>1 DEF OneSideHasIt
    <3> QED
      BY <3>1, ClosingStaysAlone, OneSideStaysInCharge, NothingStaysRejected,
         ProcessedStaysOver, JobsStayHeld
  <2> QED
    BY <2>1, <2>2
<1> QED
  BY <1>1, <1>2, AcceptanceInvariant, PTL DEF Spec

\* The dispatcher can claim again every event that it dispatched and whose
\* watchdog expired; while no enqueue fails, or none can fail beside an attempt
\* of the same event, as one does in the run that violates it.
THEOREM DispatchedStaysReclaimable == SureDispatch => (Spec => []DispatchedIsReclaimable)
<1> SUFFICES ASSUME SureDispatch PROVE Spec => []DispatchedIsReclaimable
  OBVIOUS
<1>1. ProcessedIsOver => DispatchedIsReclaimable
  BY DEF ProcessedIsOver, DispatchedIsReclaimable, Dispatchable, Ended
<1> QED
  BY <1>1, DispatchInvariant, PTL

\* No event is stranded, whatever crashes, stalls and requeues came between:
\* until it is processed or given up, there is always somebody whose next step
\* it is.  This is what is safety in EveryEventEnds: with the fairness of
\* FairSpec, only going round in circles for ever would keep an event open.
THEOREM EventsAreInHand ==
  SureDispatch /\ Runs # {} => (Spec => []NoEventIsStranded)
<1> SUFFICES ASSUME SureDispatch, Runs # {} PROVE Spec => []NoEventIsStranded
  OBVIOUS
<1>1. AcceptanceInv /\ ProcessedIsOver /\ JobIsHeld => NoEventIsStranded
  BY OpenIsInHand
<1> QED
  BY <1>1, DispatchInvariant, PTL
=============================================================================
