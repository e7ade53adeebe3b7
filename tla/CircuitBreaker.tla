--------------------------- MODULE CircuitBreaker ---------------------------
(***************************************************************************)
(* The circuit of one webhook destination, kept in Redis and changed by    *)
(* concurrent deliveries: the failure count is read and written back in    *)
(* two calls, and a success deletes the key.  WebhookDelivery leaves open  *)
(* which destinations an attempt skips; here is what decides it.           *)
(***************************************************************************)
EXTENDS Integers

CONSTANTS
  Deliveries,  \* attempts at a time, of any events
  Threshold,   \* failureThreshold
  MaxErrors    \* bound: failed calls to Redis or to the delivery log

ASSUME BreakerAssumption == Threshold \in Nat \ {0} /\ MaxErrors \in Nat

VARIABLES
  failures,      \* the stored count; 0 also when there is no key
  circuitOpen,   \* openUntil is set and has not passed
  reachable,     \* the destination accepts connections
  delivery,      \* deliveries: where each is
  counted,       \* deliveries: the count that was read
  happened,      \* transport failures and errors so far (history)
  errors         \* failed calls so far

breakerVars == <<failures, circuitOpen, reachable, delivery, counted, happened, errors>>

\* Counts are compared with Threshold only, so they stop one above it.
CountBound == Threshold + 1
Bounded(n) == IF n > CountBound THEN CountBound ELSE n

BreakerInit ==
  /\ failures = 0 /\ circuitOpen = FALSE
  /\ reachable \in BOOLEAN
  /\ delivery = [d \in Deliveries |-> "idle"]
  /\ counted = [d \in Deliveries |-> 0]
  /\ happened = 0
  /\ errors = 0

MoveOn(d, place) == delivery' = [delivery EXCEPT ![d] = place]

\* One more failure is to be recorded.
ToCount(d) ==
  /\ MoveOn(d, "count")
  /\ happened' = Bounded(happened + 1)

-----------------------------------------------------------------------------
(* An attempt at the destination.                                          *)

\* shouldAttempt: the circuit is closed.
Attempt(d) ==
  /\ delivery[d] = "idle" /\ ~circuitOpen
  /\ MoveOn(d, "sending")
  /\ UNCHANGED <<failures, circuitOpen, reachable, counted, happened, errors>>

\* Redis cannot be read, and the destination counts as closed.
AttemptBlindly(d) ==
  /\ delivery[d] = "idle" /\ errors < MaxErrors
  /\ MoveOn(d, "sending")
  /\ errors' = errors + 1
  /\ UNCHANGED <<failures, circuitOpen, reachable, counted, happened>>

TransportFails(d) ==
  /\ delivery[d] = "sending" /\ ~reachable
  /\ ToCount(d)
  /\ UNCHANGED <<failures, circuitOpen, reachable, counted, errors>>

\* Mutant: any answer but a success is counted.
RejectedCounts(d) ==
  /\ delivery[d] = "sending" /\ reachable
  /\ MoveOn(d, "count")
  /\ UNCHANGED <<failures, circuitOpen, reachable, counted, happened, errors>>

\* The application answers with an error: the circuit is left alone.
Rejected(d) ==
  /\ delivery[d] = "sending" /\ reachable
  /\ MoveOn(d, "idle")
  /\ UNCHANGED <<failures, circuitOpen, reachable, counted, happened, errors>>

\* recordSuccess deletes the key.
Accepted(d) ==
  /\ delivery[d] = "sending" /\ reachable
  /\ failures' = 0 /\ circuitOpen' = FALSE
  /\ MoveOn(d, "logging")
  /\ UNCHANGED <<reachable, counted, happened, errors>>

Logged(d) ==
  /\ delivery[d] = "logging"
  /\ MoveOn(d, "idle")
  /\ UNCHANGED <<failures, circuitOpen, reachable, counted, happened, errors>>

\* Deleting the key or writing the log throws, although the destination has
\* accepted: the catch takes it for a transport failure.
SuccessThrows(d) ==
  /\ \/ delivery[d] = "sending" /\ reachable
     \/ delivery[d] = "logging"
  /\ errors < MaxErrors /\ errors' = errors + 1
  /\ ToCount(d)
  /\ UNCHANGED <<failures, circuitOpen, reachable, counted>>

-----------------------------------------------------------------------------
(* recordTransportFailure: get, then set.                                  *)

ReadCount(d) ==
  /\ delivery[d] = "count"
  /\ counted' = [counted EXCEPT ![d] = failures]
  /\ MoveOn(d, "store")
  /\ UNCHANGED <<failures, circuitOpen, reachable, happened, errors>>

\* Mutant: the circuit opens when the count reaches the threshold, once.
OpensOnce(n) == n = Threshold

Opens(n) == n >= Threshold

StoreCount(d) ==
  /\ delivery[d] = "store"
  /\ failures' = Bounded(counted[d] + 1)
  /\ circuitOpen' = Opens(failures')
  /\ MoveOn(d, "idle")
  /\ UNCHANGED <<reachable, counted, happened, errors>>

\* The write throws: within the attempt the catch records the failure anew,
\* from the catch it is lost.
StoreFails(d) ==
  /\ delivery[d] = "store" /\ errors < MaxErrors
  /\ errors' = errors + 1
  /\ \E next \in {"count", "idle"} : MoveOn(d, next)
  /\ UNCHANGED <<failures, circuitOpen, reachable, counted, happened>>

-----------------------------------------------------------------------------
(* Time and the destination.                                               *)

\* openUntil passes. The count stays, so one more failure opens it again.
WindowPasses ==
  /\ circuitOpen
  /\ circuitOpen' = FALSE
  /\ UNCHANGED <<failures, reachable, delivery, counted, happened, errors>>

\* The key's TTL, ten windows, which exceeds the backoff between attempts: the
\* count is forgotten only while no failing event is being retried.
Forget ==
  /\ reachable /\ ~circuitOpen /\ failures > 0
  /\ failures' = 0
  /\ UNCHANGED <<circuitOpen, reachable, delivery, counted, happened, errors>>

DestinationChanges ==
  /\ reachable' = ~reachable
  /\ UNCHANGED <<failures, circuitOpen, delivery, counted, happened, errors>>

DeliveryStep(d) ==
  \/ Attempt(d)
  \/ TransportFails(d) \/ Rejected(d) \/ Accepted(d) \/ Logged(d)
  \/ ReadCount(d) \/ StoreCount(d)

BreakerNext ==
  \/ \E d \in Deliveries :
       DeliveryStep(d) \/ AttemptBlindly(d) \/ SuccessThrows(d) \/ StoreFails(d)
  \/ WindowPasses \/ Forget \/ DestinationChanges

\* Events keep being delivered, each attempt goes on, and windows pass.
BreakerFairness ==
  /\ \A d \in Deliveries : SF_breakerVars(DeliveryStep(d))
  /\ WF_breakerVars(WindowPasses)

BreakerSpec == BreakerInit /\ [][BreakerNext]_breakerVars
BreakerFairSpec == BreakerSpec /\ BreakerFairness

-----------------------------------------------------------------------------
(* Properties.                                                             *)

\* Every variable stays within its type.
BreakerTypeOK ==
  /\ failures \in 0 .. CountBound /\ happened \in 0 .. CountBound
  /\ circuitOpen \in BOOLEAN /\ reachable \in BOOLEAN
  /\ delivery \in [Deliveries -> {"idle", "sending", "logging", "count", "store"}]
  /\ counted \in [Deliveries -> 0 .. CountBound]
  /\ errors \in 0 .. MaxErrors

\* Concurrent reads and writes of the count lose failures but never invent
\* them: an open circuit stands for Threshold failures that happened.
OpenIsEarned == circuitOpen => happened >= Threshold

\* The circuit of a destination that stays unreachable opens again and again,
\* however many increments are lost to concurrent deliveries.
DeadDestinationIsCut == <>[]~reachable => []<>circuitOpen

\* A destination that stays reachable is in the end never skipped: windows
\* pass, and a count written back after a success does no lasting harm.
HealthyDestinationIsServed == <>[]reachable => <>[]~circuitOpen

\* In the end the circuit tells what became of the destination.
CircuitFollowsDestination == DeadDestinationIsCut /\ HealthyDestinationIsServed
=============================================================================
