-------------------------- MODULE WebhookDelivery --------------------------
(***************************************************************************)
(* From the outbox to the merchants: the dispatcher job claims due events  *)
(* and hands each to the delivery queue, the queue's jobs attempt the      *)
(* event's destinations, a job that is out of attempts becomes a dead      *)
(* letter, and an operator may requeue that.  Beside them a merchant may   *)
(* retry one delivery by hand.  None of these writers locks a row it read, *)
(* so a read and the write that depends on it are two steps.               *)
(*                                                                         *)
(* The queue (BullMQ) is external: a job id is unique while its job is     *)
(* kept, a failed attempt is repeated after a backoff, and the job of a    *)
(* worker that lost its lock goes back to the queue once.  The circuit     *)
(* breaker is any choice of destinations to leave out of an attempt.       *)
(***************************************************************************)
EXTENDS Integers, FiniteSets

CONSTANTS
  Events,        \* outbox events, all of them written by now
  Configs,       \* webhook configs
  Destinations,  \* the active configs of an event's store that want its type
  Runs,          \* attempts of one job that can be alive at a time: a second
                 \* one only beside an attempt that lost its lock
  MaxAttempts,   \* attempts of a queue job, and maxAttempts of a WebhookLog
  MaxRetries,    \* OutboxEvent.maxRetries
  BatchLimit,    \* events claimed by one run of the dispatcher
  SlowQueue,     \* the watchdog may fire while the queue works on the event
  Requeues,      \* an operator requeues dead letters
  FaultKinds,    \* which faults happen
  MaxFaults,     \* bound: faults
  MaxManual      \* bound: retries by hand

ASSUME DeliveryAssumption ==
  /\ Destinations \in [Events -> SUBSET Configs]
  /\ {MaxAttempts, MaxRetries, BatchLimit} \subseteq Nat \ {0}
  /\ SlowQueue \in BOOLEAN /\ Requeues \in BOOLEAN
  /\ FaultKinds \subseteq {"crash", "stall", "enqueue", "unanswered", "update", "record"}
  /\ MaxFaults \in Nat /\ MaxManual \in Nat

VARIABLES
  status, retries,  \* outbox events: status, retryCount
  due,       \* outbox events: nextRetryAt has passed
  processed, \* outbox events: processedAt is set
  claimed,   \* dispatcher: retryCount of an event it has claimed, or NotClaimed
  rejected,  \* dispatcher: claimed events whose enqueue threw
  job, attempts, stalled, \* queue jobs: state, attemptsMade, was stalled before
  pc, lost,  \* attempts: where they are; whether they lost the job's lock
  part,      \* attempts: how far each destination is
  begun,     \* attempts: attempt number of the log they hold in memory
  log,       \* webhook logs: status and attempt number, by event and config
  closing,   \* onFailed of an event's job: where it is
  failing,   \* onFailed of an event's job: configs it found undelivered
  dead,      \* dead-letter queue: events with a dead letter
  deadConfigs, \* dead-letter queue: the configs named in it
  requeueing,  \* requeues of the operator: where they are
  manual,    \* the retry by hand in progress, or NoManual
  accepted,  \* how often a destination has accepted an event: 0, 1 or 2 for more
  faults, manuals

outbox     == <<status, retries, due, processed>>
dispatcher == <<claimed, rejected>>
queue      == <<job, attempts, stalled>>
deliveries == <<pc, lost, part, begun>>
closings   == <<closing, failing>>
deadLetters == <<dead, deadConfigs>>
vars == <<outbox, dispatcher, queue, deliveries, closings, deadLetters,
          requeueing, log, manual, accepted, faults, manuals>>

NotClaimed == -1
NoManual == {}
NoRow == [status |-> "NONE", attempt |-> 0]
Attempts == Events \X Runs
NoParts == [c \in Configs |-> "out"]

Init ==
  /\ status = [e \in Events |-> "PENDING"]
  /\ retries = [e \in Events |-> 0]
  /\ due = [e \in Events |-> TRUE]
  /\ processed = [e \in Events |-> FALSE]
  /\ claimed = [e \in Events |-> NotClaimed]
  /\ rejected = {}
  /\ job = [e \in Events |-> "NONE"]
  /\ attempts = [e \in Events |-> 0]
  /\ stalled = [e \in Events |-> FALSE]
  /\ pc = [a \in Attempts |-> "idle"]
  /\ lost = [a \in Attempts |-> FALSE]
  /\ part = [a \in Attempts |-> NoParts]
  /\ begun = [a \in Attempts |-> [c \in Configs |-> 0]]
  /\ log = [e \in Events |-> [c \in Configs |-> NoRow]]
  /\ closing = [e \in Events |-> "none"]
  /\ failing = [e \in Events |-> {}]
  /\ dead = {}
  /\ deadConfigs = [e \in Events |-> {}]
  /\ requeueing = [e \in Events |-> "none"]
  /\ manual = NoManual
  /\ accepted = [e \in Events |-> [c \in Configs |-> 0]]
  /\ faults = 0
  /\ manuals = 0

Fault(kind) == kind \in FaultKinds /\ faults < MaxFaults /\ faults' = faults + 1

-----------------------------------------------------------------------------
(* The dispatcher job.                                                     *)

\* Mutant: an event handed to the queue is never looked at again.
DispatchableOnce(e) ==
  /\ due[e]
  /\ \/ status[e] = "PENDING"
     \/ status[e] = "FAILED" /\ retries[e] < MaxRetries

\* The claim's fourth alternative, DISPATCHED without nextRetryAt, is for rows
\* of an older version: every writer of DISPATCHED now sets the watchdog.
Dispatchable(e) ==
  /\ due[e]
  /\ \/ status[e] = "PENDING"
     \/ status[e] = "FAILED" /\ retries[e] < MaxRetries
     \/ status[e] = "DISPATCHED" /\ ~processed[e]

\* One statement claims up to BatchLimit events; it skips rows locked by others.
\* A run that takes longer than the lock of the job may be followed by another,
\* but not by one 45 minutes later.
ClaimDispatchable(batch) ==
  /\ batch # {} /\ Cardinality(batch) <= BatchLimit
  /\ \A e \in batch : Dispatchable(e) /\ claimed[e] = NotClaimed
  /\ status' = [e \in Events |-> IF e \in batch THEN "DISPATCHED" ELSE status[e]]
  /\ due' = [e \in Events |-> due[e] /\ e \notin batch]
  /\ claimed' = [e \in Events |-> IF e \in batch THEN retries[e] ELSE claimed[e]]
  /\ UNCHANGED <<retries, processed, rejected, queue, deliveries, closings,
                 deadLetters, requeueing, log, manual, accepted, faults, manuals>>

\* Queue.add ignores an id that is still in the queue, finished or not.
AddJob(e) ==
  /\ job' = [job EXCEPT ![e] = IF @ = "NONE" THEN "WAITING" ELSE @]
  /\ UNCHANGED <<attempts, stalled>>

Enqueue(e) ==
  /\ claimed[e] # NotClaimed /\ e \notin rejected
  /\ AddJob(e)
  /\ claimed' = [claimed EXCEPT ![e] = NotClaimed]
  /\ UNCHANGED <<outbox, rejected, deliveries, closings, deadLetters,
                 requeueing, log, manual, accepted, faults, manuals>>

\* The enqueue throws, without effect or because only its answer was lost.
EnqueueThrows(e) ==
  /\ claimed[e] # NotClaimed /\ e \notin rejected
  /\ \/ Fault("enqueue") /\ UNCHANGED queue
     \/ Fault("unanswered") /\ AddJob(e)
  /\ rejected' = rejected \cup {e}
  /\ UNCHANGED <<outbox, claimed, deliveries, closings, deadLetters,
                 requeueing, log, manual, accepted, manuals>>

\* markAsFailed on the event as it was claimed, written back whole; Prisma
\* leaves processedAt alone, since it is undefined.
MarkEnqueueFailed(e) ==
  /\ e \in rejected
  /\ status' = [status EXCEPT ![e] = "FAILED"]
  /\ retries' = [retries EXCEPT ![e] = claimed[e] + 1]
  /\ due' = [due EXCEPT ![e] = FALSE]
  /\ claimed' = [claimed EXCEPT ![e] = NotClaimed]
  /\ rejected' = rejected \ {e}
  /\ UNCHANGED <<processed, queue, deliveries, closings, deadLetters,
                 requeueing, log, manual, accepted, faults, manuals>>

\* That write throws: the run ends, with every event it had not come to.
DispatchAborts(e) ==
  /\ e \in rejected
  /\ Fault("update")
  /\ \E dropped \in SUBSET Events :
       /\ e \in dropped
       /\ claimed' = [f \in Events |-> IF f \in dropped THEN NotClaimed ELSE claimed[f]]
       /\ rejected' = rejected \ dropped
  /\ UNCHANGED <<outbox, queue, deliveries, closings, deadLetters,
                 requeueing, log, manual, accepted, manuals>>

InQueue(e) ==
  job[e] \in {"WAITING", "ACTIVE", "DELAYED"} \/ closing[e] # "none" \/ requeueing[e] # "none"

\* A minute after a failed enqueue, 45 minutes after a claim or a requeue: the
\* five attempts of a job take a quarter of an hour, and longer behind others.
BecomeDue(e) ==
  /\ ~due[e] /\ status[e] # "PROCESSED" /\ claimed[e] = NotClaimed
  /\ InQueue(e) => SlowQueue
  /\ due' = [due EXCEPT ![e] = TRUE]
  /\ UNCHANGED <<status, retries, processed, dispatcher, queue, deliveries, closings,
                 deadLetters, requeueing, log, manual, accepted, faults, manuals>>

-----------------------------------------------------------------------------
(* One attempt of the queue job: WebhookProcessor.process, which runs      *)
(* ProcessWebhook, with the queue's bookkeeping around it.                 *)

GoTo(a, place) == pc' = [pc EXCEPT ![a] = place]

\* A destination with an open circuit is not attempted, and not delivered either.
Parts(e, open) ==
  [c \in Configs |-> IF c \notin Destinations[e] THEN "out"
                     ELSE IF c \in open THEN "open" ELSE "todo"]

Take(a) ==
  LET e == a[1] IN
  /\ pc[a] = "idle" /\ job[e] = "WAITING"
  /\ job' = [job EXCEPT ![e] = "ACTIVE"]
  /\ \/ /\ status[e] = "PROCESSED"
        /\ GoTo(a, "ack")
        /\ UNCHANGED <<outbox, part>>
     \/ /\ status[e] # "PROCESSED" /\ Destinations[e] = {}
        /\ status' = [status EXCEPT ![e] = "PROCESSED"]
        /\ processed' = [processed EXCEPT ![e] = TRUE]
        /\ GoTo(a, "ack")
        /\ UNCHANGED <<retries, due, part>>
     \/ /\ status[e] # "PROCESSED" /\ Destinations[e] # {}
        /\ \E open \in SUBSET Destinations[e] : part' = [part EXCEPT ![a] = Parts(e, open)]
        /\ GoTo(a, "sending")
        /\ UNCHANGED outbox
  /\ UNCHANGED <<attempts, stalled, lost, begun, dispatcher, closings, deadLetters,
                 requeueing, log, manual, accepted, faults, manuals>>

Accept(e, c) ==
  accepted' = [accepted EXCEPT ![e][c] = IF @ < 2 THEN @ + 1 ELSE @]

\* beginAttempt. Attempt numbers are only compared with the maximum, so the
\* model stops counting there.
NextAttempt(n) == IF n < MaxAttempts THEN n + 1 ELSE n

\* Mutant: the log of an earlier attempt is not looked at.
SendAgain(a, c) ==
  LET e == a[1] IN
  /\ pc[a] = "sending" /\ part[a][c] = "todo"
  /\ begun' = [begun EXCEPT ![a][c] = NextAttempt(log[e][c].attempt)]
  /\ \/ part' = [part EXCEPT ![a][c] = "accepted"] /\ Accept(e, c)
     \/ part' = [part EXCEPT ![a][c] = "refused"] /\ UNCHANGED accepted
  /\ UNCHANGED <<pc, lost, outbox, queue, dispatcher, closings, deadLetters,
                 requeueing, log, manual, faults, manuals>>

\* The log is read; unless it is delivered already, the request is sent and
\* answered. The destinations of an attempt are served concurrently.
Send(a, c) ==
  LET e == a[1] IN
  /\ pc[a] = "sending" /\ part[a][c] = "todo"
  /\ \/ /\ log[e][c].status = "DELIVERED"
        /\ part' = [part EXCEPT ![a][c] = "done"]
        /\ UNCHANGED <<begun, accepted>>
     \/ /\ log[e][c].status # "DELIVERED"
        /\ begun' = [begun EXCEPT ![a][c] = NextAttempt(log[e][c].attempt)]
        /\ \/ part' = [part EXCEPT ![a][c] = "accepted"] /\ Accept(e, c)
           \/ part' = [part EXCEPT ![a][c] = "refused"] /\ UNCHANGED accepted
  /\ UNCHANGED <<pc, lost, outbox, queue, dispatcher, closings, deadLetters,
                 requeueing, log, manual, faults, manuals>>

Delivered(n) == [status |-> "DELIVERED", attempt |-> n]
Refused(n) ==
  [status |-> IF n < MaxAttempts THEN "FAILED_RETRYABLE" ELSE "FAILED_FINAL",
   attempt |-> n]

\* The answer is written over whatever the row holds now.
Record(a, c) ==
  LET e == a[1]  n == begun[a][c] IN
  /\ part[a][c] \in {"accepted", "refused"}
  /\ log' = [log EXCEPT ![e][c] =
               IF part[a][c] = "accepted" THEN Delivered(n) ELSE Refused(n)]
  /\ part' = [part EXCEPT ![a][c] = IF @ = "accepted" THEN "done" ELSE "failed"]
  /\ begun' = [begun EXCEPT ![a][c] = 0]
  /\ UNCHANGED <<pc, lost, outbox, queue, dispatcher, closings, deadLetters,
                 requeueing, manual, accepted, faults, manuals>>

\* The circuit breaker or the write throws after the answer. The handler
\* records a failed attempt, whatever the answer was, if it does not throw too.
RecordThrows(a, c) ==
  LET e == a[1]  n == begun[a][c] IN
  /\ part[a][c] \in {"accepted", "refused"}
  /\ Fault("record")
  /\ \/ log' = [log EXCEPT ![e][c] = Refused(n)]
     \/ UNCHANGED log
  /\ part' = [part EXCEPT ![a][c] = "failed"]
  /\ begun' = [begun EXCEPT ![a][c] = 0]
  /\ UNCHANGED <<pc, lost, outbox, queue, dispatcher, closings, deadLetters,
                 requeueing, manual, accepted, manuals>>

\* Mutant: the destinations that were not attempted are not asked for.
AllAttemptedDelivered(a) ==
  \A c \in Destinations[a[1]] : part[a][c] \in {"done", "open"}

AllDelivered(a) == \A c \in Destinations[a[1]] : part[a][c] = "done"

\* All destinations are answered: the event is processed, or the attempt failed.
\* (The retryCount written back is never read of a processed event.)
Settle(a) ==
  LET e == a[1] IN
  /\ pc[a] = "sending"
  /\ \A c \in Configs : part[a][c] \in {"out", "open", "done", "failed"}
  /\ \/ /\ AllDelivered(a)
        /\ status' = [status EXCEPT ![e] = "PROCESSED"]
        /\ processed' = [processed EXCEPT ![e] = TRUE]
        /\ GoTo(a, "ack")
     \/ /\ ~AllDelivered(a)
        /\ GoTo(a, "nack")
        /\ UNCHANGED <<status, processed>>
  /\ part' = [part EXCEPT ![a] = NoParts]
  /\ UNCHANGED <<retries, due, lost, begun, queue, dispatcher, closings, deadLetters,
                 requeueing, log, manual, accepted, faults, manuals>>

\* isFinalBullMqFailure: onFailed does nothing before the last attempt.
FailJob(e, final) ==
  /\ attempts' = [attempts EXCEPT ![e] = @ + 1]
  /\ job' = [job EXCEPT ![e] = IF final THEN "FAILED" ELSE "DELAYED"]
  /\ closing' = [closing EXCEPT ![e] = IF attempts'[e] >= MaxAttempts THEN "logs" ELSE @]
  /\ UNCHANGED <<stalled, failing>>

\* The queue hears of the result, unless the job's lock was lost meanwhile.
Finish(a) ==
  LET e == a[1] IN
  /\ pc[a] \in {"ack", "nack"}
  /\ \/ lost[a] /\ UNCHANGED <<queue, closings>>
     \/ /\ ~lost[a] /\ pc[a] = "ack"
        /\ job' = [job EXCEPT ![e] = "COMPLETED"]
        /\ UNCHANGED <<attempts, stalled, closings>>
     \/ /\ ~lost[a] /\ pc[a] = "nack"
        /\ FailJob(e, attempts[e] + 1 >= MaxAttempts)
  /\ GoTo(a, "idle")
  /\ lost' = [lost EXCEPT ![a] = FALSE]
  /\ UNCHANGED <<outbox, part, begun, dispatcher, deadLetters,
                 requeueing, log, manual, accepted, faults, manuals>>

BackoffEnds(e) ==
  /\ job[e] = "DELAYED"
  /\ job' = [job EXCEPT ![e] = "WAITING"]
  /\ UNCHANGED <<attempts, stalled, outbox, dispatcher, deliveries, closings, deadLetters,
                 requeueing, log, manual, accepted, faults, manuals>>

\* Finished jobs are kept for a day or a week; then their id is free again.
ForgetJob(e) ==
  /\ job[e] \in {"COMPLETED", "FAILED"} /\ closing[e] = "none"
  /\ job' = [job EXCEPT ![e] = "NONE"]
  /\ attempts' = [attempts EXCEPT ![e] = 0]
  /\ stalled' = [stalled EXCEPT ![e] = FALSE]
  /\ UNCHANGED <<outbox, dispatcher, deliveries, closings, deadLetters,
                 requeueing, log, manual, accepted, faults, manuals>>

-----------------------------------------------------------------------------
(* WebhookProcessor.onFailed after the last attempt.                       *)

Rows(e, configs, row(_)) ==
  log' = [log EXCEPT ![e] =
    [c \in Configs |-> IF c \in configs THEN row(log[e][c]) ELSE log[e][c]]]

Undelivered(e) == {c \in Configs : log[e][c].status \notin {"NONE", "DELIVERED"}}

\* Mutant: the deliveries are left as the last attempt recorded them.
FailLogsSkipped(e) ==
  /\ closing[e] = "logs"
  /\ failing' = [failing EXCEPT ![e] = Undelivered(e)]
  /\ closing' = [closing EXCEPT ![e] = "event"]
  /\ UNCHANGED <<outbox, queue, dispatcher, deliveries, deadLetters,
                 requeueing, log, manual, accepted, faults, manuals>>

\* The ids are read just before the update; the gap does not matter, since a
\* requeue spares delivered rows anyway.
FailLogs(e) ==
  /\ closing[e] = "logs"
  /\ failing' = [failing EXCEPT ![e] = Undelivered(e)]
  /\ Rows(e, Undelivered(e),
          LAMBDA r : [status |-> "FAILED_FINAL", attempt |-> attempts[e]])
  /\ closing' = [closing EXCEPT ![e] = "event"]
  /\ UNCHANGED <<outbox, queue, dispatcher, deliveries, deadLetters,
                 requeueing, manual, accepted, faults, manuals>>

ReadFailedEvent(e) ==
  /\ closing[e] = "event"
  /\ closing' = [closing EXCEPT ![e] = IF status[e] = "PROCESSED" THEN "letter" ELSE "write"]
  /\ UNCHANGED <<outbox, queue, dispatcher, deliveries, failing, deadLetters,
                 requeueing, log, manual, accepted, faults, manuals>>

\* markAsTerminalFailed
FailEvent(e) ==
  /\ closing[e] = "write"
  /\ status' = [status EXCEPT ![e] = "FAILED"]
  /\ retries' = [retries EXCEPT ![e] = MaxRetries]
  /\ closing' = [closing EXCEPT ![e] = "letter"]
  /\ UNCHANGED <<due, processed, queue, dispatcher, deliveries, failing, deadLetters,
                 requeueing, log, manual, accepted, faults, manuals>>

\* A dead letter of the same job that was not removed is kept as it is.
AddDeadLetter(e) ==
  /\ closing[e] = "letter"
  /\ dead' = dead \cup {e}
  /\ deadConfigs' = [deadConfigs EXCEPT ![e] = IF e \in dead THEN @ ELSE failing[e]]
  /\ closing' = [closing EXCEPT ![e] = "none"]
  /\ failing' = [failing EXCEPT ![e] = {}]
  /\ UNCHANGED <<outbox, queue, dispatcher, deliveries,
                 requeueing, log, manual, accepted, faults, manuals>>

-----------------------------------------------------------------------------
(* The operator's requeue of a dead letter (scripts/dlq.mjs).              *)

\* Mutant: the reset does not spare delivered rows.
ResettableAll(e) == {c \in Configs : log[e][c] # NoRow}

Resettable(e) ==
  LET named == IF deadConfigs[e] = {} THEN Configs ELSE deadConfigs[e]
  IN  named \cap Undelivered(e)

\* Refused while the queue keeps a job of that id, unless forced.
ResetLogs(e, force) ==
  /\ Requeues /\ e \in dead /\ requeueing[e] = "none"
  /\ force \/ job[e] = "NONE"
  /\ Rows(e, Resettable(e), LAMBDA r : [status |-> "PENDING", attempt |-> 0])
  /\ requeueing' = [requeueing EXCEPT ![e] = "event"]
  /\ UNCHANGED <<outbox, queue, dispatcher, deliveries, closings, deadLetters,
                 manual, accepted, faults, manuals>>

ResetEvent(e) ==
  /\ requeueing[e] = "event"
  /\ status' = [status EXCEPT ![e] = "DISPATCHED"]
  /\ processed' = [processed EXCEPT ![e] = FALSE]
  /\ retries' = [retries EXCEPT ![e] = 0]
  /\ due' = [due EXCEPT ![e] = FALSE]
  /\ requeueing' = [requeueing EXCEPT ![e] = "job"]
  /\ UNCHANGED <<queue, dispatcher, deliveries, closings, deadLetters,
                 log, manual, accepted, faults, manuals>>

AddRequeuedJob(e, remove) ==
  /\ requeueing[e] = "job"
  /\ AddJob(e)
  /\ requeueing' = [requeueing EXCEPT ![e] = "none"]
  /\ dead' = IF remove THEN dead \ {e} ELSE dead
  /\ deadConfigs' = [deadConfigs EXCEPT ![e] = IF remove THEN {} ELSE @]
  /\ UNCHANGED <<outbox, dispatcher, deliveries, closings,
                 log, manual, accepted, faults, manuals>>

\* The script dies, or loses its connection, between two of its steps.
RequeueThrows(e) ==
  /\ requeueing[e] # "none"
  /\ Fault("enqueue")
  /\ requeueing' = [requeueing EXCEPT ![e] = "none"]
  /\ UNCHANGED <<outbox, queue, dispatcher, deliveries, closings, deadLetters,
                 log, manual, accepted, manuals>>

-----------------------------------------------------------------------------
(* A merchant retries one delivery by hand (RetryWebhookLog), in any       *)
(* status.                                                                 *)

RetryByHand(e, c) ==
  /\ manual = NoManual /\ manuals < MaxManual /\ log[e][c] # NoRow
  /\ \E ok \in BOOLEAN :
       /\ manual' = {[event |-> e, config |-> c, ok |-> ok,
                      attempt |-> NextAttempt(log[e][c].attempt)]}
       /\ IF ok THEN Accept(e, c) ELSE UNCHANGED accepted
  /\ manuals' = manuals + 1
  /\ UNCHANGED <<outbox, queue, dispatcher, deliveries, closings, deadLetters,
                 requeueing, log, faults>>

RecordByHand ==
  \E m \in manual :
    /\ log' = [log EXCEPT ![m.event][m.config] =
                 IF m.ok THEN Delivered(m.attempt) ELSE Refused(m.attempt)]
    /\ manual' = NoManual
    /\ UNCHANGED <<outbox, queue, dispatcher, deliveries, closings, deadLetters,
                   requeueing, accepted, faults, manuals>>

-----------------------------------------------------------------------------
(* Faults of the worker.                                                   *)

\* The jobs go back to the queue; one that stalled before fails for good, and
\* onFailed runs only if that was its last attempt.
ReturnJobs(events) ==
  /\ job' = [e \in Events |-> IF e \notin events THEN job[e]
                              ELSE IF stalled[e] THEN "FAILED" ELSE "WAITING"]
  /\ stalled' = [e \in Events |-> stalled[e] \/ e \in events]
  /\ attempts' = [e \in Events |->
       IF e \in events /\ stalled[e] THEN attempts[e] + 1 ELSE attempts[e]]

Exhausted == {e \in Events : job'[e] = "FAILED" /\ job[e] # "FAILED" /\ attempts'[e] >= MaxAttempts}

Active(a) == pc[a] # "idle" /\ ~lost[a]

\* The lock of the job is not renewed in time, and the attempt goes on.
Stall(a) ==
  /\ Active(a)
  /\ Fault("stall")
  /\ ReturnJobs({a[1]})
  /\ lost' = [lost EXCEPT ![a] = TRUE]
  /\ closing' = [e \in Events |-> IF e \in Exhausted THEN "logs" ELSE closing[e]]
  /\ UNCHANGED <<outbox, pc, part, begun, dispatcher, failing, deadLetters,
                 requeueing, log, manual, accepted, manuals>>

\* The worker process dies with everything it was doing.
Crash ==
  /\ Fault("crash")
  /\ ReturnJobs({a[1] : a \in {b \in Attempts : Active(b)}})
  /\ pc' = [a \in Attempts |-> "idle"]
  /\ lost' = [a \in Attempts |-> FALSE]
  /\ part' = [a \in Attempts |-> NoParts]
  /\ begun' = [a \in Attempts |-> [c \in Configs |-> 0]]
  /\ claimed' = [e \in Events |-> NotClaimed]
  /\ rejected' = {}
  /\ closing' = [e \in Events |-> IF e \in Exhausted THEN "logs" ELSE "none"]
  /\ failing' = [e \in Events |-> {}]
  /\ UNCHANGED <<outbox, deadLetters, requeueing, log, manual, accepted, manuals>>

-----------------------------------------------------------------------------
Dispatch == \E batch \in SUBSET Events : ClaimDispatchable(batch)

Close(e) ==
  FailLogs(e) \/ ReadFailedEvent(e) \/ FailEvent(e) \/ AddDeadLetter(e)

Step(a) ==
  \/ \E c \in Configs : Send(a, c) \/ Record(a, c)
  \/ Settle(a)
  \/ Finish(a)

Next ==
  \/ Dispatch
  \/ \E e \in Events :
       \/ Enqueue(e) \/ EnqueueThrows(e) \/ MarkEnqueueFailed(e) \/ DispatchAborts(e)
       \/ BecomeDue(e)
       \/ BackoffEnds(e) \/ ForgetJob(e) \/ Close(e)
       \/ (\E force \in BOOLEAN : ResetLogs(e, force)) \/ ResetEvent(e)
       \/ \E remove \in BOOLEAN : AddRequeuedJob(e, remove)
       \/ RequeueThrows(e)
       \/ \E c \in Configs : RetryByHand(e, c)
  \/ RecordByHand
  \/ \E a \in Attempts :
       Take(a) \/ Step(a) \/ Stall(a) \/ \E c \in Configs : RecordThrows(a, c)
  \/ Crash

Spec == Init /\ [][Next]_vars

\* The dispatcher ticks and reaches every event in order of age, the queue and
\* its workers go on, clocks advance, and a handler or a script that began ends.
\* Operators, merchants and faults are free.
FairSpec ==
  /\ Spec
  /\ \A e \in Events :
       /\ WF_vars(\E batch \in SUBSET Events : e \in batch /\ ClaimDispatchable(batch))
       /\ WF_vars(Enqueue(e)) /\ WF_vars(MarkEnqueueFailed(e)) /\ WF_vars(BecomeDue(e))
       /\ WF_vars(BackoffEnds(e)) /\ WF_vars(ForgetJob(e)) /\ WF_vars(Close(e))
       /\ WF_vars(\E r \in Runs : Take(<<e, r>>))
       /\ WF_vars(ResetEvent(e)) /\ WF_vars(\E remove \in BOOLEAN : AddRequeuedJob(e, remove))
  /\ \A a \in Attempts : WF_vars(Step(a))

-----------------------------------------------------------------------------
DeliveryStatus == {"NONE", "PENDING", "DELIVERED", "FAILED_RETRYABLE", "FAILED_FINAL"}

\* Type invariant: every column, queue field and program counter has its type,
\* and counters that the code compares with a maximum stay within it.
TypeOK ==
  /\ status \in [Events -> {"PENDING", "DISPATCHED", "PROCESSED", "FAILED"}]
  /\ retries \in [Events -> 0 .. MaxRetries]
  /\ due \in [Events -> BOOLEAN] /\ processed \in [Events -> BOOLEAN]
  /\ claimed \in [Events -> NotClaimed .. MaxRetries - 1]
  /\ rejected \in SUBSET {e \in Events : claimed[e] # NotClaimed}
  /\ job \in [Events -> {"NONE", "WAITING", "ACTIVE", "DELAYED", "COMPLETED", "FAILED"}]
  /\ attempts \in [Events -> 0 .. MaxAttempts] /\ stalled \in [Events -> BOOLEAN]
  /\ pc \in [Attempts -> {"idle", "sending", "ack", "nack"}]
  /\ lost \in [Attempts -> BOOLEAN]
  /\ part \in [Attempts -> [Configs ->
                 {"out", "open", "todo", "accepted", "refused", "done", "failed"}]]
  /\ begun \in [Attempts -> [Configs -> 0 .. MaxAttempts]]
  /\ log \in [Events -> [Configs -> [status : DeliveryStatus, attempt : 0 .. MaxAttempts]]]
  /\ closing \in [Events -> {"none", "logs", "event", "write", "letter"}]
  /\ failing \in [Events -> SUBSET Configs] /\ deadConfigs \in [Events -> SUBSET Configs]
  /\ dead \in SUBSET Events /\ requeueing \in [Events -> {"none", "event", "job"}]
  /\ manual \in SUBSET [event : Events, config : Configs, ok : BOOLEAN,
                        attempt : 1 .. MaxAttempts]
  /\ accepted \in [Events -> [Configs -> 0 .. 2]]
  /\ faults \in 0 .. MaxFaults /\ manuals \in 0 .. MaxManual

\* An event is marked as processed only when each of its destinations has
\* accepted it, whatever crashes, overlaps, requeues and retries by hand came
\* between: the at-least-once promise of the outbox.
ProcessedWasAccepted ==
  \A e \in Events : status[e] = "PROCESSED" =>
    \A c \in Destinations[e] : accepted[e][c] > 0

\* Types, and what PROCESSED stands for, while attempts overlap.
DeliveryInv == TypeOK /\ ProcessedWasAccepted

\* A destination is sent an event it has accepted again only after a fault or a
\* retry by hand: further attempts of the job, forced by another destination,
\* and requeues skip it.
RepeatsNeedAFault ==
  faults = 0 /\ manuals = 0 =>
    \A e \in Events, c \in Configs : accepted[e][c] <= 1

Ended(e) == status[e] = "PROCESSED" \/ (status[e] = "FAILED" /\ retries[e] = MaxRetries)

\* While the dead letter of a failed event waits for an operator, no delivery
\* of the event is shown as still to be retried.
DeadLetterIsConclusive ==
  \A e \in dead :
    status[e] = "FAILED" /\ retries[e] = MaxRetries /\ closing[e] = "none"
      /\ requeueing[e] = "none" =>
      \A c \in Configs : log[e][c].status \in {"NONE", "DELIVERED", "FAILED_FINAL"}

\* A delivery recorded as delivered stays so: no later attempt, final failure or
\* requeue turns it into a failed or a pending one.
DeliveredIsKept ==
  [][\A e \in Events, c \in Configs :
       log[e][c].status = "DELIVERED" => log'[e][c].status = "DELIVERED"]_vars

\* Every event is processed or given up in the end, through lost enqueues,
\* crashes between any two steps, and requeues.
EveryEventEnds == \A e \in Events : []<>Ended(e)

\* The dispatcher can claim again every DISPATCHED event whose watchdog expired.
DispatchedIsReclaimable ==
  \A e \in Events : status[e] = "DISPATCHED" /\ due[e] => Dispatchable(e)

\* What an event has come to, and the destinations that have accepted it.
Outcome ==
  [e \in Events |-> IF status[e] = "PROCESSED" THEN "DELIVERED"
                    ELSE IF Ended(e) THEN "ABANDONED" ELSE "OPEN"]
Served == [e \in Events |-> {c \in Configs : accepted[e][c] > 0}]

\* What the module promises, without queue, attempts and logs.
Contract == INSTANCE DeliveryContract WITH
  outcome <- Outcome, served <- Served, letters <- dead
ImplementsContract == Contract!Spec

=============================================================================
