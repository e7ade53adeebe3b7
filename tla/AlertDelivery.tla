---------------------------- MODULE AlertDelivery ----------------------------
(***************************************************************************)
(* The alert of one outbox event: a BullMQ job of its own that serves the  *)
(* channels of the store one after the other, a row per channel, retries   *)
(* by hand beside it.  Unlike a webhook the event keeps no status for its  *)
(* alert, and no watchdog enqueues it again.                               *)
(***************************************************************************)
EXTENDS Integers

CONSTANTS
  ChannelCount,  \* active channels for the event
  Accepting,     \* channels that accept every message
  AlertTries,    \* attempts of the job
  MaxMishaps,    \* bound: failing writes, lost enqueues and crashes
  MaxByHand      \* bound: retries by hand

\* In the order of their age.
Channels == 1 .. ChannelCount

ASSUME AlertAssumption ==
  /\ ChannelCount \in Nat /\ Accepting \subseteq Channels
  /\ AlertTries \in Nat \ {0} /\ MaxMishaps \in Nat /\ MaxByHand \in Nat

VARIABLES
  alertJob,    \* the job in the queue
  tried,       \* attempts that ended
  stalledOnce, \* the job was returned after a crash
  channel,     \* the channel the attempt is at, and how far it got with it
  refusals,    \* the attempt had a failed delivery
  alertRow,    \* channels: status of AlertDeliveryLog
  byHand,      \* channels: the outcome of a retry that is still to be written
  received,    \* channels: messages they accepted (history, up to 2)
  retriesByHand, mishaps

alertVars == <<alertJob, tried, stalledOnce, channel, refusals, alertRow,
               byHand, received, retriesByHand, mishaps>>

RowStatus == {"NONE", "PENDING", "DELIVERED", "FAILED"}
Outcomes == {"DELIVERED", "FAILED"}
NoChannel == [number |-> 0, step |-> "find"]

AlertInit ==
  /\ alertJob = "absent" /\ tried = 0 /\ stalledOnce = FALSE
  /\ channel = NoChannel /\ refusals = FALSE
  /\ alertRow = [c \in Channels |-> "NONE"]
  /\ byHand = [c \in Channels |-> "none"]
  /\ received = [c \in Channels |-> 0]
  /\ retriesByHand = 0 /\ mishaps = 0

At(c, step) == alertJob = "active" /\ channel = [number |-> c, step |-> step]
GoTo(c, step) == channel' = [number |-> c, step |-> step]

Mishap == mishaps < MaxMishaps /\ mishaps' = mishaps + 1

\* What channel c answers, and that it may have taken the message.
Reply(c, outcome) ==
  /\ c \in Accepting => outcome = "DELIVERED"
  /\ received' = IF outcome = "DELIVERED" /\ received[c] < 2
                   THEN [received EXCEPT ![c] = @ + 1] ELSE received

-----------------------------------------------------------------------------
(* The queue.                                                              *)

\* The dispatcher adds the job after the one of the webhook. It only logs
\* that this fails, and comes again when it claims the event again, if ever.
EnqueueAlert ==
  /\ alertJob = "absent"
  /\ \/ alertJob' = "waiting" /\ UNCHANGED mishaps
     \/ Mishap /\ UNCHANGED alertJob
  /\ UNCHANGED <<tried, stalledOnce, channel, refusals, alertRow, byHand, received, retriesByHand>>

TakeAlert ==
  /\ alertJob = "waiting"
  /\ alertJob' = "active" /\ refusals' = FALSE
  /\ GoTo(1, "find")
  /\ UNCHANGED <<tried, stalledOnce, alertRow, byHand, received, retriesByHand, mishaps>>

BackoffOver ==
  /\ alertJob = "backoff"
  /\ alertJob' = "waiting"
  /\ UNCHANGED <<tried, stalledOnce, channel, refusals, alertRow, byHand, received, retriesByHand, mishaps>>

\* The attempt throws: one more is left, or the job has failed for good.
FailAttempt ==
  /\ tried' = tried + 1
  /\ alertJob' = IF tried + 1 < AlertTries THEN "backoff" ELSE "failed"
  /\ channel' = NoChannel

\* onFailed, after the last attempt.
BuryAlert ==
  /\ alertJob = "failed" /\ tried = AlertTries
  /\ alertJob' = "buried"
  /\ UNCHANGED <<tried, stalledOnce, channel, refusals, alertRow, byHand, received, retriesByHand, mishaps>>

\* The worker dies. The job returns to the queue once, then it has failed,
\* and not in its last attempt; a dead letter that was not added never is.
AlertWorkerDies ==
  /\ Mishap
  /\ \/ /\ alertJob = "active"
        /\ alertJob' = IF stalledOnce THEN "failed" ELSE "waiting"
        /\ stalledOnce' = TRUE
     \/ /\ alertJob = "failed"
        /\ alertJob' = "forgotten"
        /\ UNCHANGED stalledOnce
  /\ channel' = NoChannel
  /\ UNCHANGED <<tried, refusals, alertRow, byHand, received, retriesByHand>>

-----------------------------------------------------------------------------
(* ProcessAlertDelivery, channel by channel.                               *)

Delivered(c) == alertRow[c] = "DELIVERED"

SkipChannel(c) ==
  /\ At(c, "find") /\ Delivered(c)
  /\ GoTo(c + 1, "find")
  /\ UNCHANGED <<alertJob, tried, stalledOnce, refusals, alertRow, byHand, received, retriesByHand, mishaps>>

\* A new row is saved; of one that was found the attempt is counted in memory.
FindRow(c) ==
  /\ At(c, "find") /\ ~Delivered(c)
  /\ alertRow' = IF alertRow[c] = "NONE" THEN [alertRow EXCEPT ![c] = "PENDING"]
                                         ELSE alertRow
  /\ GoTo(c, "send")
  /\ UNCHANGED <<alertJob, tried, stalledOnce, refusals, byHand, received, retriesByHand, mishaps>>

SendAlert(c) ==
  /\ At(c, "send")
  /\ \E outcome \in Outcomes :
       /\ Reply(c, outcome)
       /\ GoTo(c, outcome)
       /\ refusals' = (refusals \/ outcome = "FAILED")
  /\ UNCHANGED <<alertJob, tried, stalledOnce, alertRow, byHand, retriesByHand, mishaps>>

\* Mutant: a refusal ends the attempt.
RecordOrThrow(c) ==
  /\ At(c, "DELIVERED") \/ At(c, "FAILED")
  /\ alertRow' = [alertRow EXCEPT ![c] = channel.step]
  /\ IF channel.step = "FAILED" THEN FailAttempt
     ELSE GoTo(c + 1, "find") /\ UNCHANGED <<alertJob, tried>>
  /\ UNCHANGED <<stalledOnce, refusals, byHand, received, retriesByHand, mishaps>>

\* The outcome is written over whatever the row holds by now.
RecordAlert(c) ==
  /\ At(c, "DELIVERED") \/ At(c, "FAILED")
  /\ alertRow' = [alertRow EXCEPT ![c] = channel.step]
  /\ GoTo(c + 1, "find")
  /\ UNCHANGED <<alertJob, tried, stalledOnce, refusals, byHand, received, retriesByHand, mishaps>>

\* A read or a write throws: the channels behind it are not served by this
\* attempt.
AttemptThrows ==
  /\ alertJob = "active" /\ channel.number \in Channels
  /\ Mishap
  /\ FailAttempt
  /\ UNCHANGED <<stalledOnce, refusals, alertRow, byHand, received, retriesByHand>>

\* Mutant: the last channel decides.
LastRefused == refusals /\ alertRow[channel.number - 1] # "DELIVERED"

Refused == refusals

FinishAttempt ==
  /\ alertJob = "active" /\ channel.number \notin Channels
  /\ IF Refused THEN FailAttempt
     ELSE alertJob' = "done" /\ channel' = NoChannel /\ UNCHANGED tried
  /\ UNCHANGED <<stalledOnce, refusals, alertRow, byHand, received, retriesByHand, mishaps>>

-----------------------------------------------------------------------------
(* RetryAlertDeliveryLog: a row that is not delivered is sent again.       *)

RetryAlert(c) ==
  /\ alertRow[c] \in {"PENDING", "FAILED"} /\ byHand[c] = "none"
  /\ retriesByHand < MaxByHand /\ retriesByHand' = retriesByHand + 1
  /\ \E outcome \in Outcomes :
       Reply(c, outcome) /\ byHand' = [byHand EXCEPT ![c] = outcome]
  /\ UNCHANGED <<alertJob, tried, stalledOnce, channel, refusals, alertRow, mishaps>>

RecordRetry(c) ==
  /\ byHand[c] # "none"
  /\ alertRow' = [alertRow EXCEPT ![c] = byHand[c]]
  /\ byHand' = [byHand EXCEPT ![c] = "none"]
  /\ UNCHANGED <<alertJob, tried, stalledOnce, channel, refusals, received, retriesByHand, mishaps>>

-----------------------------------------------------------------------------
AlertStep ==
  \/ TakeAlert \/ BackoffOver \/ FinishAttempt \/ BuryAlert
  \/ \E c \in Channels : SkipChannel(c) \/ FindRow(c) \/ SendAlert(c) \/ RecordAlert(c)

AlertNext ==
  \/ EnqueueAlert \/ AlertStep \/ AttemptThrows \/ AlertWorkerDies
  \/ \E c \in Channels : RetryAlert(c) \/ RecordRetry(c)

\* BullMQ runs the job, and an attempt goes on once begun.
AlertFairness == WF_alertVars(AlertStep)

AlertSpec == AlertInit /\ [][AlertNext]_alertVars
AlertFairSpec == AlertSpec /\ AlertFairness

-----------------------------------------------------------------------------
(* Properties.                                                             *)

\* Every variable stays within its type.
AlertTypeOK ==
  /\ alertJob \in {"absent", "waiting", "active", "backoff", "done", "failed",
                   "buried", "forgotten"}
  /\ tried \in 0 .. AlertTries /\ stalledOnce \in BOOLEAN
  /\ channel.number \in Nat /\ channel.step \in {"find", "send"} \cup Outcomes
  /\ refusals \in BOOLEAN
  /\ alertRow \in [Channels -> RowStatus]
  /\ byHand \in [Channels -> Outcomes \cup {"none"}]
  /\ received \in [Channels -> 0 .. 2]
  /\ retriesByHand \in 0 .. MaxByHand /\ mishaps \in 0 .. MaxMishaps

\* A job that completes has reached every channel, although each row may have
\* been written over by a retry by hand.
CompletedIsReceived == alertJob = "done" => \A c \in Channels : received[c] > 0

\* No channel gets the alert twice, unless a fault or a retry by hand came
\* between sending it and recording it.
RepeatedByFaultOnly ==
  \A c \in Channels : received[c] > 1 => mishaps > 0 \/ retriesByHand > 0

\* At least once when the job completes, at most once without faults.
ToldOnce == CompletedIsReceived /\ RepeatedByFaultOnly

\* A channel that refuses the alert on every attempt does not keep it from the
\* others, even when one attempt throws or is cut short by a crash.
RefusalHoldsNobodyUp ==
  \A c \in Accepting : alertJob = "waiting" ~> received[c] > 0 \/ mishaps > 1
=============================================================================
