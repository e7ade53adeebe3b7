--------------------------- MODULE ServicesProofs ---------------------------
(***************************************************************************)
(* Services that run side by side: the circuit of a webhook destination,   *)
(* for any number of deliveries and any threshold; the alert of an event,  *)
(* for any number of channels and attempts; the batches of the settlement  *)
(* job; and MCServices itself, whose behaviours are behaviours of each     *)
(* component, so that what is proved of a component alone holds there too. *)
(***************************************************************************)
EXTENDS MCServices, FiniteSetTheorems, TLAPS

-----------------------------------------------------------------------------
(* The circuit breaker.                                                    *)

\* Deliveries whose failure happened and is still to be written.
Pending == {d \in Deliveries : delivery[d] \in {"count", "store"}}

\* The count, and every count that was read, leaves room for all of them.
CountsAreEarned ==
  \/ happened = CountBound
  \/ /\ failures + Cardinality(Pending) <= happened
     /\ \A d \in Deliveries :
          delivery[d] = "store" => counted[d] + Cardinality(Pending) <= happened

BreakerInv ==
  BreakerTypeOK /\ IsFiniteSet(Pending) /\ CountsAreEarned /\ OpenIsEarned

\* No failure yet.
LEMMA BreakerStart == BreakerInit => BreakerInv
<1> SUFFICES ASSUME BreakerInit PROVE BreakerInv
  OBVIOUS
<1> USE BreakerAssumption DEF BreakerInit
<1>0. CountBound \in Nat /\ MaxErrors \in Nat
  BY DEF CountBound
<1>1. BreakerTypeOK
  <2>1. circuitOpen \in BOOLEAN /\ reachable \in BOOLEAN
    OBVIOUS
  <2>2. failures \in 0 .. CountBound /\ happened \in 0 .. CountBound /\ errors \in 0 .. MaxErrors
    BY <1>0
  <2>3. counted \in [Deliveries -> 0 .. CountBound]
    BY <1>0
  <2>4. delivery \in [Deliveries -> {"idle", "sending", "logging", "count", "store"}]
    OBVIOUS
  <2> QED BY <2>1, <2>2, <2>3, <2>4 DEF BreakerTypeOK
<1>2. Pending = {}
  BY DEF Pending
<1>3. IsFiniteSet(Pending) /\ Cardinality(Pending) = 0
  BY <1>2, FS_EmptySet
<1>4. CountsAreEarned
  BY <1>3 DEF CountsAreEarned
<1> QED BY <1>1, <1>3, <1>4 DEF BreakerInv, OpenIsEarned

\* Types are kept.
LEMMA BreakerTypeStep == BreakerTypeOK /\ [BreakerNext]_breakerVars => BreakerTypeOK'
<1> SUFFICES ASSUME BreakerTypeOK, [BreakerNext]_breakerVars PROVE BreakerTypeOK'
  OBVIOUS
<1> DEFINE Places == {"idle", "sending", "logging", "count", "store"}
           Moved == delivery' \in [Deliveries -> Places]
<1>0. /\ failures \in 0 .. CountBound /\ happened \in 0 .. CountBound
      /\ circuitOpen \in BOOLEAN /\ reachable \in BOOLEAN
      /\ delivery \in [Deliveries -> Places]
      /\ counted \in [Deliveries -> 0 .. CountBound]
      /\ errors \in 0 .. MaxErrors /\ MaxErrors \in Nat /\ CountBound \in Nat
  BY BreakerAssumption DEF BreakerTypeOK, CountBound
<1>1. ASSUME Moved, happened' \in 0 .. CountBound, failures' \in 0 .. CountBound,
             circuitOpen' \in BOOLEAN, reachable' \in BOOLEAN, errors' \in 0 .. MaxErrors,
             counted' \in [Deliveries -> 0 .. CountBound]
      PROVE  BreakerTypeOK'
  BY <1>1 DEF BreakerTypeOK, CountBound
<1>2. ASSUME NEW d \in Deliveries, NEW place \in Places, MoveOn(d, place) PROVE Moved
  BY <1>0, <1>2 DEF MoveOn
<1>3. \A n \in Nat : Bounded(n) \in 0 .. CountBound
  BY <1>0 DEF Bounded
<1>4. errors < MaxErrors => errors + 1 \in 0 .. MaxErrors
  BY <1>0
<1> HIDE DEF Moved, Places
<1>5. ASSUME NEW d \in Deliveries, ToCount(d) PROVE Moved /\ happened' \in 0 .. CountBound
  <2>1. MoveOn(d, "count") /\ happened' = Bounded(happened + 1) /\ happened + 1 \in Nat
    BY <1>0, <1>5 DEF ToCount
  <2> QED BY <1>2, <1>3, <2>1 DEF Places
<1>6. ASSUME NEW d \in Deliveries,
             Attempt(d) \/ AttemptBlindly(d) \/ Rejected(d) \/ Accepted(d) \/ Logged(d)
      PROVE  BreakerTypeOK'
  <2>1. Moved
    BY <1>2, <1>6 DEF Attempt, AttemptBlindly, Rejected, Accepted, Logged, Places
  <2>2. errors' \in 0 .. MaxErrors /\ failures' \in 0 .. CountBound
    BY <1>0, <1>4, <1>6 DEF Attempt, AttemptBlindly, Rejected, Accepted, Logged
  <2>3. circuitOpen' \in BOOLEAN /\ UNCHANGED <<reachable, counted, happened>>
    BY <1>0, <1>6, Zenon DEF Attempt, AttemptBlindly, Rejected, Accepted, Logged
  <2> QED BY <1>0, <1>1, <2>1, <2>2, <2>3
<1>7. ASSUME NEW d \in Deliveries, TransportFails(d) \/ SuccessThrows(d) PROVE BreakerTypeOK'
  <2>1. Moved /\ happened' \in 0 .. CountBound
    BY <1>5, <1>7 DEF TransportFails, SuccessThrows
  <2>2. errors' \in 0 .. MaxErrors
    BY <1>0, <1>4, <1>7 DEF TransportFails, SuccessThrows
  <2>3. UNCHANGED <<failures, circuitOpen, reachable, counted>>
    BY <1>7 DEF TransportFails, SuccessThrows
  <2> QED BY <1>0, <1>1, <2>1, <2>2, <2>3
<1>8. ASSUME NEW d \in Deliveries, ReadCount(d) \/ StoreFails(d) PROVE BreakerTypeOK'
  <2>1. Moved
    BY <1>2, <1>8 DEF ReadCount, StoreFails, Places
  <2>2. errors' \in 0 .. MaxErrors /\ counted' \in [Deliveries -> 0 .. CountBound]
    BY <1>0, <1>4, <1>8 DEF ReadCount, StoreFails
  <2>3. UNCHANGED <<failures, circuitOpen, reachable, happened>>
    BY <1>8 DEF ReadCount, StoreFails
  <2> QED BY <1>0, <1>1, <2>1, <2>2, <2>3
<1>9. ASSUME NEW d \in Deliveries, StoreCount(d) PROVE BreakerTypeOK'
  <2>1. Moved
    BY <1>2, <1>9 DEF StoreCount, Places
  <2>2. counted[d] + 1 \in Nat /\ failures' = Bounded(counted[d] + 1)
    BY <1>0, <1>9 DEF StoreCount
  <2>3. circuitOpen' \in BOOLEAN
    BY <1>9 DEF StoreCount, Opens
  <2>4. UNCHANGED <<reachable, counted, happened, errors>>
    BY <1>9 DEF StoreCount
  <2> QED BY <1>0, <1>1, <1>3, <2>1, <2>2, <2>3, <2>4
<1>10. CASE WindowPasses \/ Forget \/ DestinationChanges \/ UNCHANGED breakerVars
  <2>1. failures' \in 0 .. CountBound /\ UNCHANGED <<delivery, counted, happened, errors>>
    BY <1>0, <1>10 DEF WindowPasses, Forget, DestinationChanges, breakerVars
  <2>2. circuitOpen' \in BOOLEAN /\ reachable' \in BOOLEAN
    BY <1>0, <1>10, Zenon DEF WindowPasses, Forget, DestinationChanges, breakerVars
  <2> QED BY <1>0, <1>1, <2>1, <2>2 DEF Moved
<1> QED BY <1>6, <1>7, <1>8, <1>9, <1>10 DEF BreakerNext, DeliveryStep

\* One delivery moves: what is pending gains it, loses it or stays.
LEMMA PendingMoves ==
  ASSUME BreakerTypeOK, IsFiniteSet(Pending), NEW d \in Deliveries, NEW place, MoveOn(d, place)
  PROVE  /\ IsFiniteSet(Pending') /\ Cardinality(Pending) \in Nat
         /\ delivery'[d] = place /\ \A e \in Deliveries \ {d} : delivery'[e] = delivery[e]
         /\ Cardinality(Pending') =
              Cardinality(Pending)
                + (IF place \in {"count", "store"} /\ d \notin Pending THEN 1 ELSE 0)
                - (IF place \notin {"count", "store"} /\ d \in Pending THEN 1 ELSE 0)
<1>1. delivery'[d] = place /\ \A e \in Deliveries \ {d} : delivery'[e] = delivery[e]
  BY DEF MoveOn, BreakerTypeOK
<1>2. Cardinality(Pending) \in Nat
  BY FS_CardinalityType
<1>3. CASE place \in {"count", "store"}
  <2>1. Pending' = Pending \cup {d}
    BY <1>1, <1>3 DEF Pending
  <2>2. IsFiniteSet(Pending') /\ Cardinality(Pending') =
          IF d \in Pending THEN Cardinality(Pending) ELSE Cardinality(Pending) + 1
    BY <2>1, FS_AddElement
  <2> QED BY <1>1, <1>2, <1>3, <2>2
<1>4. CASE place \notin {"count", "store"}
  <2>1. Pending' = Pending \ {d}
    BY <1>1, <1>4 DEF Pending
  <2>2. IsFiniteSet(Pending') /\ Cardinality(Pending') =
          IF d \in Pending THEN Cardinality(Pending) - 1 ELSE Cardinality(Pending)
    BY <2>1, FS_RemoveElement
  <2> QED BY <1>1, <1>2, <1>4, <2>2
<1> QED BY <1>3, <1>4

\* A step keeps the invariant: a stored count pays with the failure it stores.
LEMMA BreakerStep == BreakerInv /\ [BreakerNext]_breakerVars => BreakerInv'
<1> SUFFICES ASSUME BreakerInv, [BreakerNext]_breakerVars PROVE BreakerInv'
  OBVIOUS
<1>0. /\ BreakerTypeOK /\ BreakerTypeOK' /\ IsFiniteSet(Pending)
      /\ Threshold \in Nat \ {0} /\ CountBound = Threshold + 1
  BY BreakerTypeStep, BreakerAssumption DEF BreakerInv, CountBound
<1>t. /\ failures \in 0 .. CountBound /\ happened \in 0 .. CountBound
      /\ counted \in [Deliveries -> 0 .. CountBound] /\ CountBound \in Nat
  BY <1>0 DEF BreakerTypeOK
\* Deliveries that come to no new failure: the counts do not grow.
<1>1. ASSUME NEW d \in Deliveries, NEW place \in {"idle", "sending", "logging"},
             MoveOn(d, place), UNCHANGED <<happened, counted>>,
             failures' \in {failures, 0}, circuitOpen' => circuitOpen
      PROVE  BreakerInv'
  <2>1. /\ IsFiniteSet(Pending') /\ Cardinality(Pending') \in Nat /\ Cardinality(Pending) \in Nat
        /\ Cardinality(Pending') <= Cardinality(Pending)
        /\ delivery'[d] = place /\ \A e \in Deliveries \ {d} : delivery'[e] = delivery[e]
    BY <1>0, <1>1, PendingMoves, FS_CardinalityType
  <2>2. CountsAreEarned'
    BY <1>0, <1>t, <1>1, <2>1 DEF BreakerInv, CountsAreEarned, CountBound
  <2> QED BY <1>0, <1>1, <2>1, <2>2 DEF BreakerInv, OpenIsEarned
<1>2. ASSUME NEW d \in Deliveries, delivery[d] \in {"sending", "logging"}, ToCount(d),
             UNCHANGED <<failures, counted, circuitOpen>>
      PROVE  BreakerInv'
  <2>1. /\ IsFiniteSet(Pending') /\ Cardinality(Pending) \in Nat
        /\ Cardinality(Pending') = Cardinality(Pending) + 1
        /\ delivery'[d] = "count" /\ \A e \in Deliveries \ {d} : delivery'[e] = delivery[e]
    <3>1. MoveOn(d, "count") /\ d \notin Pending
      BY <1>2 DEF ToCount, Pending
    <3> QED BY <1>0, <3>1, PendingMoves
  <2>2. happened' = CountBound \/ happened' = happened + 1
    BY <1>t, <1>2 DEF ToCount, Bounded
  <2>3. CountsAreEarned'
    <3>1. CASE happened' = CountBound
      BY <3>1 DEF CountsAreEarned, CountBound
    <3>2. CASE happened' = happened + 1 /\ happened # CountBound
      BY <1>t, <1>2, <2>1, <3>2 DEF BreakerInv, CountsAreEarned
    <3> QED BY <2>2, <3>1, <3>2, <1>0, <1>t DEF BreakerTypeOK
  <2>4. happened' >= happened
    BY <1>t, <1>0, <2>2 DEF BreakerTypeOK
  <2> QED BY <1>0, <1>t, <1>2, <2>1, <2>3, <2>4 DEF BreakerInv, OpenIsEarned, BreakerTypeOK
<1>3. ASSUME NEW d \in Deliveries, ReadCount(d) PROVE BreakerInv'
  <2>1. /\ IsFiniteSet(Pending') /\ Cardinality(Pending) \in Nat
        /\ Cardinality(Pending') = Cardinality(Pending)
        /\ \A e \in Deliveries \ {d} : delivery'[e] = delivery[e] /\ counted'[e] = counted[e]
        /\ counted'[d] = failures
    <3>1. MoveOn(d, "store") /\ d \in Pending
      BY <1>3 DEF ReadCount, Pending
    <3> QED BY <1>0, <1>t, <1>3, <3>1, PendingMoves DEF ReadCount
  <2>2. UNCHANGED <<failures, happened, circuitOpen>>
    BY <1>3 DEF ReadCount
  <2>3. CountsAreEarned'
    BY <1>t, <2>1, <2>2 DEF BreakerInv, CountsAreEarned, CountBound
  <2> QED BY <1>0, <2>1, <2>2, <2>3 DEF BreakerInv, OpenIsEarned
<1>4. ASSUME NEW d \in Deliveries, StoreCount(d) PROVE BreakerInv'
  <2>1. /\ IsFiniteSet(Pending') /\ Cardinality(Pending) \in Nat /\ Cardinality(Pending') \in Nat
        /\ Cardinality(Pending) = Cardinality(Pending') + 1
        /\ delivery'[d] = "idle" /\ \A e \in Deliveries \ {d} : delivery'[e] = delivery[e]
    <3>1. MoveOn(d, "idle") /\ d \in Pending
      BY <1>4 DEF StoreCount, Pending
    <3>2. IsFiniteSet(Pending') /\ Cardinality(Pending') = Cardinality(Pending) - 1
            /\ Cardinality(Pending) \in Nat
            /\ delivery'[d] = "idle" /\ \A e \in Deliveries \ {d} : delivery'[e] = delivery[e]
      BY <1>0, <3>1, PendingMoves
    <3> QED BY <3>2, FS_CardinalityType
  <2>2. /\ delivery[d] = "store" /\ UNCHANGED <<happened, counted>>
        /\ failures' <= counted[d] + 1 /\ failures' \in 0 .. CountBound
        /\ circuitOpen' => failures' >= Threshold
    <3>1. delivery[d] = "store" /\ UNCHANGED <<happened, counted>>
            /\ failures' = Bounded(counted[d] + 1) /\ circuitOpen' = (failures' >= Threshold)
      BY <1>4 DEF StoreCount, Opens
    <3>2. counted[d] \in Nat
      BY <1>t
    <3>3. circuitOpen' => failures' >= Threshold
      BY <3>1, Zenon
    <3>4. failures' <= counted[d] + 1 /\ failures' \in 0 .. CountBound
      BY <1>t, <3>1, <3>2 DEF Bounded
    <3> QED BY <3>1, <3>3, <3>4
  <2>3. happened = CountBound \/ counted[d] + Cardinality(Pending) <= happened
    BY <2>2 DEF BreakerInv, CountsAreEarned
  <2>4. CountsAreEarned'
    BY <1>t, <2>1, <2>2, <2>3 DEF BreakerInv, CountsAreEarned, CountBound
  <2>5. OpenIsEarned'
    BY <1>0, <1>t, <2>1, <2>2, <2>3 DEF OpenIsEarned
  <2> QED BY <1>0, <2>1, <2>4, <2>5 DEF BreakerInv
<1>5. ASSUME NEW d \in Deliveries, StoreFails(d) PROVE BreakerInv'
  <2>1. CASE MoveOn(d, "idle")
    BY <1>1, <1>5, <2>1 DEF StoreFails
  <2>2. CASE MoveOn(d, "count")
    <3>1. d \in Pending
      BY <1>5 DEF StoreFails, Pending
    <3>2. /\ IsFiniteSet(Pending') /\ Cardinality(Pending') = Cardinality(Pending)
          /\ delivery'[d] = "count" /\ \A e \in Deliveries \ {d} : delivery'[e] = delivery[e]
      BY <1>0, <2>2, <3>1, PendingMoves
    <3>3. UNCHANGED <<failures, counted, happened, circuitOpen>>
      BY <1>5 DEF StoreFails
    <3>4. CountsAreEarned'
      BY <3>2, <3>3 DEF BreakerInv, CountsAreEarned, CountBound
    <3> QED BY <1>0, <3>2, <3>3, <3>4 DEF BreakerInv, OpenIsEarned
  <2> QED BY <1>5, <2>1, <2>2 DEF StoreFails
<1>6. ASSUME delivery' = delivery, UNCHANGED <<happened, counted>>,
             failures' \in {failures, 0}, circuitOpen' => circuitOpen
      PROVE  BreakerInv'
  <2>1. Pending' = Pending /\ Cardinality(Pending) \in Nat
    BY <1>0, <1>6, FS_CardinalityType DEF Pending
  <2>2. CountsAreEarned'
    BY <1>t, <1>6, <2>1 DEF BreakerInv, CountsAreEarned, CountBound
  <2> QED BY <1>0, <1>6, <2>1, <2>2 DEF BreakerInv, OpenIsEarned
<1>7. ASSUME NEW d \in Deliveries,
             Attempt(d) \/ AttemptBlindly(d) \/ Rejected(d) \/ Accepted(d) \/ Logged(d)
      PROVE  BreakerInv'
  BY <1>1, <1>7 DEF Attempt, AttemptBlindly, Rejected, Accepted, Logged
<1>8. ASSUME NEW d \in Deliveries, TransportFails(d) \/ SuccessThrows(d) PROVE BreakerInv'
  BY <1>2, <1>8 DEF TransportFails, SuccessThrows
<1>9. CASE WindowPasses \/ Forget \/ DestinationChanges \/ UNCHANGED breakerVars
  BY <1>6, <1>9 DEF WindowPasses, Forget, DestinationChanges, breakerVars
<1> QED BY <1>3, <1>4, <1>5, <1>7, <1>8, <1>9 DEF BreakerNext, DeliveryStep

\* An open circuit stands for Threshold failures that happened.
THEOREM OpeningIsEarned == BreakerSpec => []OpenIsEarned
<1>1. BreakerInv => OpenIsEarned
  BY DEF BreakerInv
<1> QED BY <1>1, BreakerStart, BreakerStep, PTL DEF BreakerSpec

-----------------------------------------------------------------------------
(* The alert of an event.                                                  *)

\* Whatever says that a channel has the alert, the row, a retry by hand that is
\* still to be written or the attempt under way, is right.
SaidIsReceived ==
  \A c \in Channels :
    (alertRow[c] = "DELIVERED" \/ byHand[c] = "DELIVERED" \/ At(c, "DELIVERED")) =>
      received[c] > 0

\* An attempt without a refusal has served the channels behind it.
ServedSoFar ==
  alertJob = "active" =>
    /\ channel.number >= 1
    /\ channel.step = "FAILED" => refusals
    /\ ~refusals => \A c \in Channels : c < channel.number => received[c] > 0

\* A job that is not over has an attempt left.
TriesLeft ==
  alertJob \in {"absent", "waiting", "active", "backoff"} => tried < AlertTries

ReceivedInv ==
  AlertTypeOK /\ TriesLeft /\ SaidIsReceived /\ ServedSoFar /\ CompletedIsReceived

\* Without a fault or a retry by hand, a channel that has the alert is marked
\* delivered, or is about to be.
SentOnce ==
  mishaps = 0 /\ retriesByHand = 0 =>
    \A c \in Channels :
      /\ byHand[c] = "none" /\ received[c] <= 1
      /\ At(c, "send") \/ At(c, "FAILED") => alertRow[c] # "DELIVERED"
      /\ received[c] = 1 => alertRow[c] = "DELIVERED" \/ At(c, "DELIVERED")

\* Nothing is sent yet.
LEMMA AlertStart == AlertInit => ReceivedInv /\ SentOnce
<1> SUFFICES ASSUME AlertInit PROVE ReceivedInv /\ SentOnce
  OBVIOUS
<1> USE AlertAssumption DEF AlertInit
<1>1. alertJob = "absent" /\ \A c \in Channels :
        alertRow[c] = "NONE" /\ byHand[c] = "none" /\ received[c] = 0
  OBVIOUS
<1>2. AlertTypeOK /\ TriesLeft
  <2>1. stalledOnce \in BOOLEAN /\ refusals \in BOOLEAN
    OBVIOUS
  <2>2. channel.number \in Nat /\ channel.step \in {"find", "send"} \cup Outcomes
    BY DEF NoChannel
  <2>3. tried \in 0 .. AlertTries /\ retriesByHand \in 0 .. MaxByHand
          /\ mishaps \in 0 .. MaxMishaps /\ tried < AlertTries
    OBVIOUS
  <2>4. /\ alertRow \in [Channels -> RowStatus] /\ received \in [Channels -> 0 .. 2]
        /\ byHand \in [Channels -> Outcomes \cup {"none"}]
    BY DEF RowStatus
  <2> QED BY <2>1, <2>2, <2>3, <2>4 DEF AlertTypeOK, TriesLeft
<1>3. SaidIsReceived /\ ServedSoFar /\ CompletedIsReceived
  BY <1>1 DEF SaidIsReceived, ServedSoFar, CompletedIsReceived, At
<1>4. SentOnce
  BY <1>1 DEF SentOnce, At
<1> QED BY <1>2, <1>3, <1>4 DEF ReceivedInv

\* Types are kept: the flags, the numbers, the places and the channels.
LEMMA AlertTypeStep ==
  AlertTypeOK /\ TriesLeft /\ [AlertNext]_alertVars => AlertTypeOK' /\ TriesLeft'
<1> SUFFICES ASSUME AlertTypeOK, TriesLeft, [AlertNext]_alertVars PROVE AlertTypeOK' /\ TriesLeft'
  OBVIOUS
<1> DEFINE Jobs == {"absent", "waiting", "active", "backoff", "done", "failed", "buried",
                    "forgotten"}
           Flags == stalledOnce \in BOOLEAN /\ refusals \in BOOLEAN
           Numbers == /\ alertJob \in Jobs /\ tried \in 0 .. AlertTries
                      /\ retriesByHand \in 0 .. MaxByHand /\ mishaps \in 0 .. MaxMishaps
           Located == channel.number \in Nat /\ channel.step \in {"find", "send"} \cup Outcomes
           Served == /\ alertRow \in [Channels -> RowStatus] /\ received \in [Channels -> 0 .. 2]
                     /\ byHand \in [Channels -> Outcomes \cup {"none"}]
<1>0. Flags /\ Numbers /\ Located /\ Served
  BY DEF AlertTypeOK
<1>a. /\ AlertTries \in Nat \ {0} /\ MaxMishaps \in Nat /\ MaxByHand \in Nat
      /\ Channels \subseteq Nat
  BY AlertAssumption DEF Channels
<1>b. AlertNext \/ UNCHANGED alertVars
  OBVIOUS
<1>1. Flags'
  <2>1. UNCHANGED refusals \/ refusals' = FALSE
          \/ (\E c \in Channels : SendAlert(c))
    BY <1>b DEF AlertNext, AlertStep, alertVars, EnqueueAlert, TakeAlert, BackoffOver, BuryAlert,
       AlertWorkerDies, SkipChannel, FindRow, RecordAlert, AttemptThrows, FinishAttempt,
       RetryAlert, RecordRetry
  <2>2. ASSUME NEW c \in Channels, SendAlert(c) PROVE refusals' \in BOOLEAN
    BY <2>2 DEF SendAlert
  <2>3. UNCHANGED stalledOnce \/ stalledOnce' = TRUE
    BY <1>b DEF AlertNext, AlertStep, alertVars, EnqueueAlert, TakeAlert, BackoffOver, BuryAlert,
       AlertWorkerDies, SkipChannel, FindRow, SendAlert, RecordAlert, AttemptThrows,
       FinishAttempt, RetryAlert, RecordRetry
  <2> QED BY <1>0, <2>1, <2>2, <2>3, Zenon
<1>2. Numbers' /\ TriesLeft'
  <2> USE <1>0, <1>a DEF Mishap, FailAttempt, TriesLeft
  <2>1. CASE EnqueueAlert \/ TakeAlert \/ BackoffOver \/ BuryAlert
    BY <2>1 DEF EnqueueAlert, TakeAlert, BackoffOver, BuryAlert
  <2>2. CASE AlertWorkerDies
    <3>1. tried' = tried /\ retriesByHand' = retriesByHand /\ mishaps' = mishaps + 1
            /\ mishaps < MaxMishaps
      BY <2>2 DEF AlertWorkerDies
    <3>2. alertJob' \in {"failed", "forgotten"}
            \/ (alertJob = "active" /\ alertJob' = "waiting")
      BY <2>2 DEF AlertWorkerDies
    <3> QED BY <3>1, <3>2
  <2>3. ASSUME NEW c \in Channels,
               SkipChannel(c) \/ FindRow(c) \/ SendAlert(c) \/ RecordAlert(c) \/ RecordRetry(c)
        PROVE  Numbers' /\ TriesLeft'
    <3>1. UNCHANGED <<alertJob, tried, retriesByHand, mishaps>>
      BY <2>3 DEF SkipChannel, FindRow, SendAlert, RecordAlert, RecordRetry
    <3> QED BY <3>1
  <2>4. CASE AttemptThrows
    <3>1. alertJob = "active" /\ tried' = tried + 1 /\ mishaps' = mishaps + 1
            /\ mishaps < MaxMishaps /\ retriesByHand' = retriesByHand
            /\ alertJob' = IF tried + 1 < AlertTries THEN "backoff" ELSE "failed"
      BY <2>4 DEF AttemptThrows
    <3> QED BY <3>1
  <2>5. CASE FinishAttempt
    <3>1. alertJob = "active" /\ mishaps' = mishaps /\ retriesByHand' = retriesByHand
      BY <2>5 DEF FinishAttempt
    <3>2. \/ /\ tried' = tried + 1
             /\ alertJob' = IF tried + 1 < AlertTries THEN "backoff" ELSE "failed"
          \/ tried' = tried /\ alertJob' = "done"
      BY <2>5 DEF FinishAttempt
    <3> QED BY <3>1, <3>2
  <2>6. ASSUME NEW c \in Channels, RetryAlert(c) PROVE Numbers' /\ TriesLeft'
    BY <2>6 DEF RetryAlert
  <2>7. CASE UNCHANGED alertVars
    BY <2>7 DEF alertVars
  <2> QED BY <1>b, <2>1, <2>2, <2>3, <2>4, <2>5, <2>6, <2>7 DEF AlertNext, AlertStep
<1>3. Located'
  <2>1. \/ UNCHANGED channel \/ channel' = NoChannel \/ GoTo(1, "find")
        \/ \E c \in Channels : \E step \in {"find", "send"} \cup Outcomes :
             GoTo(c, step) \/ GoTo(c + 1, step)
    BY <1>b DEF AlertNext, AlertStep, alertVars, EnqueueAlert, TakeAlert, BackoffOver, BuryAlert,
       AlertWorkerDies, SkipChannel, FindRow, SendAlert, RecordAlert, AttemptThrows,
       FinishAttempt, FailAttempt, RetryAlert, RecordRetry
  <2> QED BY <1>0, <1>a, <2>1 DEF GoTo, NoChannel
<1>4. Served'
  <2> USE <1>0 DEF RowStatus, Outcomes
  <2>1. CASE UNCHANGED <<alertRow, byHand, received>>
    BY <2>1
  <2>2. ASSUME NEW c \in Channels, FindRow(c) PROVE Served'
    BY <2>2 DEF FindRow
  <2>3. ASSUME NEW c \in Channels, SendAlert(c) PROVE Served'
    BY <2>3 DEF SendAlert, Reply
  <2>4. ASSUME NEW c \in Channels, RecordAlert(c) PROVE Served'
    BY <2>4 DEF RecordAlert, At
  <2>5. ASSUME NEW c \in Channels, RetryAlert(c) PROVE Served'
    BY <2>5 DEF RetryAlert, Reply
  <2>6. ASSUME NEW c \in Channels, RecordRetry(c) PROVE Served'
    BY <2>6 DEF RecordRetry
  <2> QED BY <1>b, <2>1, <2>2, <2>3, <2>4, <2>5, <2>6
          DEF AlertNext, AlertStep, alertVars, EnqueueAlert, TakeAlert, BackoffOver, BuryAlert,
              AlertWorkerDies, SkipChannel, AttemptThrows, FinishAttempt
<1> QED BY <1>1, <1>2, <1>3, <1>4 DEF AlertTypeOK

\* A channel that accepts has one message more, up to two.
LEMMA ReplyCounts ==
  ASSUME received \in [Channels -> 0 .. 2], NEW c \in Channels, NEW outcome, Reply(c, outcome)
  PROVE  /\ outcome = "DELIVERED" => received'[c] > 0
         /\ \A d \in Channels : received'[d] >= received[d]
         /\ \A d \in Channels \ {c} : received'[d] = received[d]
         /\ received[c] = 0 => received'[c] = IF outcome = "DELIVERED" THEN 1 ELSE 0
<1>1. CASE outcome = "DELIVERED" /\ received[c] < 2
  <2>1. received' = [received EXCEPT ![c] = received[c] + 1]
    BY <1>1 DEF Reply
  <2>2. received'[c] = received[c] + 1 /\ \A d \in Channels \ {c} : received'[d] = received[d]
    BY <2>1
  <2> QED BY <1>1, <2>2
<1>2. CASE ~(outcome = "DELIVERED" /\ received[c] < 2)
  <2>1. received' = received
    BY <1>2 DEF Reply
  <2> QED BY <1>2, <2>1
<1> QED BY <1>1, <1>2

\* A step keeps the first invariant: who says that a channel has the alert has
\* seen it accept.
LEMMA ReceivedStep == ReceivedInv /\ [AlertNext]_alertVars => ReceivedInv'
<1> SUFFICES ASSUME ReceivedInv, [AlertNext]_alertVars PROVE ReceivedInv'
  OBVIOUS
<1>0. /\ AlertTypeOK' /\ TriesLeft' /\ channel.number \in Nat
      /\ alertRow \in [Channels -> RowStatus] /\ received \in [Channels -> 0 .. 2]
      /\ byHand \in [Channels -> Outcomes \cup {"none"}]
      /\ \A c \in Channels : c \in Nat /\ c >= 1 /\ c <= ChannelCount
      /\ \A n \in Nat : n >= 1 /\ n \notin Channels => n > ChannelCount
      /\ ChannelCount \in Nat
      /\ SaidIsReceived /\ ServedSoFar /\ CompletedIsReceived
  BY AlertTypeStep, AlertAssumption DEF ReceivedInv, AlertTypeOK, Channels
<1> DEFINE Kept == SaidIsReceived' /\ ServedSoFar' /\ CompletedIsReceived'
<1> SUFFICES Kept
  BY <1>0 DEF ReceivedInv
<1> USE <1>0 DEF At, GoTo, SaidIsReceived, ServedSoFar, CompletedIsReceived
<1>1. ASSUME UNCHANGED <<alertRow, byHand, received>>, alertJob' # "active", alertJob' # "done"
      PROVE  Kept
  BY <1>1
<1>2. CASE EnqueueAlert \/ BackoffOver \/ BuryAlert
  BY <1>1, <1>2 DEF EnqueueAlert, BackoffOver, BuryAlert
<1>3. CASE AlertWorkerDies \/ AttemptThrows
  BY <1>1, <1>3 DEF AlertWorkerDies, AttemptThrows, FailAttempt
<1>4. CASE TakeAlert
  BY <1>4 DEF TakeAlert
<1>5. ASSUME NEW c \in Channels, SkipChannel(c) PROVE Kept
  <2>1. /\ alertJob = "active" /\ channel.number = c /\ alertRow[c] = "DELIVERED"
        /\ channel' = [number |-> c + 1, step |-> "find"]
        /\ UNCHANGED <<alertJob, refusals, alertRow, byHand, received>>
    BY <1>5 DEF SkipChannel, Delivered
  <2>2. SaidIsReceived' /\ CompletedIsReceived'
    BY <2>1
  <2>3. received[c] > 0 /\ (~refusals => \A d \in Channels : d < c => received[d] > 0)
    BY <2>1
  <2>4. channel'.number = c + 1 /\ channel'.step = "find"
    BY <2>1
  <2>5. ServedSoFar'
    BY <2>1, <2>3, <2>4
  <2> QED BY <2>2, <2>5
<1>6. ASSUME NEW c \in Channels, FindRow(c) PROVE Kept
  BY <1>6 DEF FindRow, Delivered
<1>7. ASSUME NEW c \in Channels, SendAlert(c) PROVE Kept
  <2>1. PICK outcome \in Outcomes :
          /\ Reply(c, outcome) /\ channel' = [number |-> c, step |-> outcome]
          /\ refusals' = (refusals \/ outcome = "FAILED")
    BY <1>7 DEF SendAlert
  <2>2. /\ outcome = "DELIVERED" => received'[c] > 0
        /\ \A d \in Channels : received'[d] \in 0 .. 2 /\ received'[d] >= received[d]
    BY <2>1, ReplyCounts DEF AlertTypeOK
  <2>3. alertJob = "active" /\ channel.number = c
          /\ UNCHANGED <<alertJob, alertRow, byHand>>
    BY <1>7 DEF SendAlert
  <2>4. SaidIsReceived' /\ CompletedIsReceived'
    BY <2>1, <2>2, <2>3
  <2>5. (outcome = "FAILED" => refusals') /\ (~refusals' => ~refusals)
    BY <2>1, Zenon
  <2>6. ServedSoFar'
    BY <2>1, <2>2, <2>3, <2>5
  <2> QED BY <2>4, <2>6
<1>8. ASSUME NEW c \in Channels, RecordAlert(c) PROVE Kept
  <2>1. /\ alertJob = "active" /\ channel.number = c /\ channel.step \in Outcomes
        /\ alertRow' = [alertRow EXCEPT ![c] = channel.step]
        /\ channel' = [number |-> c + 1, step |-> "find"]
        /\ UNCHANGED <<alertJob, refusals, byHand, received>>
    BY <1>8 DEF RecordAlert, Outcomes
  <2>2. channel.step = "DELIVERED" => received[c] > 0
    BY <1>8 DEF RecordAlert
  <2>3. SaidIsReceived'
    BY <2>1, <2>2
  <2>4. channel'.number = c + 1 /\ channel'.step = "find"
    BY <2>1
  <2>5. ~refusals => received[c] > 0 /\ \A d \in Channels : d < c => received[d] > 0
    BY <2>1, <2>2 DEF Outcomes
  <2>6. ServedSoFar'
    BY <2>1, <2>4, <2>5
  <2> QED BY <2>1, <2>3, <2>6
<1>9. CASE FinishAttempt
  <2>1. channel.number > ChannelCount /\ UNCHANGED <<alertRow, byHand, received>>
    BY <1>9 DEF FinishAttempt
  <2>2. CASE refusals
    BY <1>1, <1>9, <2>1, <2>2 DEF FinishAttempt, Refused, FailAttempt
  <2>3. CASE ~refusals
    <3>1. alertJob = "active" /\ alertJob' = "done"
      BY <1>9, <2>3 DEF FinishAttempt, Refused
    <3>2. \A c \in Channels : received[c] > 0
      BY <2>1, <2>3, <3>1
    <3> QED BY <2>1, <3>1, <3>2
  <2> QED BY <2>2, <2>3
<1>10. ASSUME NEW c \in Channels, RetryAlert(c) PROVE Kept
  <2>1. PICK outcome \in Outcomes :
          Reply(c, outcome) /\ byHand' = [byHand EXCEPT ![c] = outcome]
    BY <1>10 DEF RetryAlert
  <2>2. /\ outcome = "DELIVERED" => received'[c] > 0
        /\ \A d \in Channels : received'[d] \in 0 .. 2 /\ received'[d] >= received[d]
    BY <2>1, ReplyCounts DEF AlertTypeOK
  <2>3. UNCHANGED <<alertJob, channel, refusals, alertRow>>
    BY <1>10 DEF RetryAlert
  <2> QED BY <2>1, <2>2, <2>3
<1>11. ASSUME NEW c \in Channels, RecordRetry(c) PROVE Kept
  <2>1. /\ byHand[c] \in Outcomes /\ alertRow' = [alertRow EXCEPT ![c] = byHand[c]]
        /\ byHand' = [byHand EXCEPT ![c] = "none"]
        /\ UNCHANGED <<alertJob, channel, refusals, received>>
    BY <1>11 DEF RecordRetry
  <2> QED BY <2>1
<1>12. CASE UNCHANGED alertVars
  BY <1>12 DEF alertVars
<1> QED BY <1>2, <1>3, <1>4, <1>5, <1>6, <1>7, <1>8, <1>9, <1>10, <1>11, <1>12
        DEF AlertNext, AlertStep, ReceivedInv

\* A step keeps the second one.
LEMMA SentOnceStep == AlertTypeOK /\ SentOnce /\ [AlertNext]_alertVars => SentOnce'
<1> SUFFICES ASSUME AlertTypeOK, SentOnce, [AlertNext]_alertVars,
                    mishaps' = 0, retriesByHand' = 0
             PROVE  SentOnce'
  BY DEF SentOnce
<1>0. /\ channel.number \in Nat /\ mishaps \in Nat /\ retriesByHand \in Nat
      /\ alertRow \in [Channels -> RowStatus] /\ received \in [Channels -> 0 .. 2]
      /\ byHand \in [Channels -> Outcomes \cup {"none"}] /\ Channels \subseteq Nat
  BY AlertAssumption DEF AlertTypeOK, Channels
<1>1. mishaps = 0 /\ retriesByHand = 0 =>
        \A c \in Channels :
          /\ byHand[c] = "none" /\ received[c] <= 1
          /\ At(c, "send") \/ At(c, "FAILED") => alertRow[c] # "DELIVERED"
          /\ received[c] = 1 => alertRow[c] = "DELIVERED" \/ At(c, "DELIVERED")
  BY DEF SentOnce
<1>2. ASSUME mishaps = 0, retriesByHand = 0, UNCHANGED <<alertRow, byHand, received>>,
             \A c \in Channels : At(c, "DELIVERED") => At(c, "DELIVERED")',
             \A c \in Channels : ~At(c, "send")' /\ ~At(c, "FAILED")'
      PROVE  SentOnce'
  BY <1>1, <1>2 DEF SentOnce
<1> USE <1>0 DEF At, GoTo
<1>3. CASE EnqueueAlert \/ TakeAlert \/ BackoffOver \/ BuryAlert
  BY <1>2, <1>3 DEF EnqueueAlert, TakeAlert, BackoffOver, BuryAlert, Mishap
<1>4. ~AlertWorkerDies /\ ~AttemptThrows /\ \A c \in Channels : ~RetryAlert(c)
  BY DEF AlertWorkerDies, AttemptThrows, RetryAlert, Mishap
<1>5. ASSUME NEW c \in Channels, SkipChannel(c) PROVE SentOnce'
  BY <1>2, <1>5 DEF SkipChannel
<1>6. ASSUME NEW c \in Channels, FindRow(c) PROVE SentOnce'
  <2>1. alertRow[c] # "DELIVERED" /\ alertRow'[c] # "DELIVERED"
          /\ \A d \in Channels \ {c} : alertRow'[d] = alertRow[d]
    BY <1>6 DEF FindRow, Delivered
  <2>2. alertJob = "active" /\ channel = [number |-> c, step |-> "find"]
          /\ channel' = [number |-> c, step |-> "send"]
          /\ UNCHANGED <<alertJob, byHand, received, mishaps, retriesByHand>>
    BY <1>6 DEF FindRow
  <2> QED BY <1>1, <2>1, <2>2 DEF SentOnce
<1>7. ASSUME NEW c \in Channels, SendAlert(c) PROVE SentOnce'
  <2>1. PICK outcome \in Outcomes :
          Reply(c, outcome) /\ channel' = [number |-> c, step |-> outcome]
    BY <1>7 DEF SendAlert
  <2>2. /\ alertJob = "active" /\ channel = [number |-> c, step |-> "send"]
        /\ UNCHANGED <<alertJob, alertRow, byHand, mishaps, retriesByHand>>
    BY <1>7 DEF SendAlert
  <2>a. mishaps = 0 /\ retriesByHand = 0
    BY <2>2
  <2>b. channel.step = "send" /\ channel.number = c
    BY <2>2
  <2>c. alertRow[c] # "DELIVERED" /\ received[c] <= 1
    BY <1>1, <2>2, <2>a
  <2>d. ~At(c, "DELIVERED")
    BY <2>b
  <2>3. received[c] = 0
    BY ONLY <1>0, <1>1, <2>a, <2>c, <2>d
  <2>4. (received'[c] = IF outcome = "DELIVERED" THEN 1 ELSE 0)
          /\ \A d \in Channels \ {c} : received'[d] = received[d]
    BY <2>1, <2>3, ReplyCounts
  <2>5. \A d \in Channels :
          ~At(d, "send")' /\ (d # c => ~At(d, "DELIVERED") /\ ~At(d, "FAILED")')
    BY <2>1, <2>2, <2>b DEF Outcomes
  <2>6. outcome = "DELIVERED" => At(c, "DELIVERED")'
    BY <2>1, <2>2
  <2>8. \A d \in Channels : byHand'[d] = "none" /\ received'[d] <= 1
    <3>1. \A d \in Channels : byHand'[d] = "none"
      BY ONLY <1>1, <2>a, <2>2
    <3>2. received'[c] <= 1
      BY ONLY <2>4
    <3>3. \A d \in Channels \ {c} : received'[d] <= 1
      BY ONLY <1>1, <2>a, <2>4
    <3> QED BY ONLY <3>1, <3>2, <3>3
  <2>9. \A d \in Channels : At(d, "send")' \/ At(d, "FAILED")' => alertRow'[d] # "DELIVERED"
    BY ONLY <2>2, <2>5, <2>c
  <2>10. ASSUME NEW d \in Channels, received'[d] = 1
         PROVE  alertRow'[d] = "DELIVERED" \/ At(d, "DELIVERED")'
    <3>1. CASE d = c
      BY ONLY <2>4, <2>6, <2>10, <3>1
    <3>2. CASE d # c
      BY ONLY <1>1, <2>a, <2>2, <2>4, <2>5, <2>10, <3>2
    <3> QED BY <3>1, <3>2
  <2> QED BY ONLY <2>8, <2>9, <2>10 DEF SentOnce
<1>8. ASSUME NEW c \in Channels, RecordAlert(c) PROVE SentOnce'
  <2>1. /\ alertJob = "active" /\ channel.number = c /\ channel.step \in Outcomes
        /\ channel = [number |-> c, step |-> channel.step]
        /\ alertRow' = [alertRow EXCEPT ![c] = channel.step]
        /\ channel' = [number |-> c + 1, step |-> "find"]
        /\ UNCHANGED <<alertJob, byHand, received, mishaps, retriesByHand>>
    BY <1>8 DEF RecordAlert, Outcomes
  <2>2. \A d \in Channels \ {c} : alertRow'[d] = alertRow[d] /\ ~At(d, "DELIVERED")
    BY <2>1
  <2>3. \A d \in Channels : ~At(d, "send")' /\ ~At(d, "FAILED")'
    BY <2>1
  <2>a. mishaps = 0 /\ retriesByHand = 0 /\ alertRow'[c] = channel.step
    BY <2>1
  <2>4. received[c] = 1 => alertRow'[c] = "DELIVERED"
    <3>1. CASE channel.step = "DELIVERED"
      BY <3>1, <2>a
    <3>2. CASE channel.step = "FAILED"
      <4>1. ~At(c, "DELIVERED") /\ At(c, "FAILED")
        BY <2>1, <3>2
      <4> QED BY ONLY <1>1, <2>a, <4>1
    <3> QED BY <2>1, <3>1, <3>2 DEF Outcomes
  <2> QED BY <1>1, <2>1, <2>2, <2>3, <2>4 DEF SentOnce
<1>9. CASE FinishAttempt
  <2>1. UNCHANGED <<alertRow, byHand, received, mishaps, retriesByHand>> /\ alertJob' # "active"
    BY <1>9 DEF FinishAttempt, FailAttempt
  <2>2. \A c \in Channels : ~At(c, "DELIVERED")
    BY <1>9 DEF FinishAttempt
  <2> QED BY <1>2, <2>1, <2>2
<1>10. ASSUME NEW c \in Channels, RecordRetry(c) PROVE SentOnce'
  BY <1>1, <1>10 DEF RecordRetry
<1>11. CASE UNCHANGED alertVars
  BY <1>1, <1>11 DEF alertVars, SentOnce
<1> QED BY <1>3, <1>4, <1>5, <1>6, <1>7, <1>8, <1>9, <1>10, <1>11 DEF AlertNext, AlertStep

\* A job that completes has reached every channel.
THEOREM CompletionIsReceipt == AlertSpec => []CompletedIsReceived
<1>1. ReceivedInv => CompletedIsReceived
  BY DEF ReceivedInv
<1> QED BY <1>1, AlertStart, ReceivedStep, PTL DEF AlertSpec

\* No channel gets the alert twice without a fault or a retry by hand.
THEOREM RepetitionIsExcused == AlertSpec => []RepeatedByFaultOnly
<1>1. ReceivedInv /\ SentOnce => RepeatedByFaultOnly
  BY DEF ReceivedInv, AlertTypeOK, SentOnce, RepeatedByFaultOnly
<1>2. ReceivedInv => AlertTypeOK
  BY DEF ReceivedInv
<1> QED BY <1>1, <1>2, AlertStart, ReceivedStep, SentOnceStep, PTL DEF AlertSpec

\* Both together: a completed alert was told, and only faults repeat it.
THEOREM AlertsAreToldOnce == AlertSpec => []ToldOnce
  BY CompletionIsReceipt, RepetitionIsExcused, PTL DEF ToldOnce

\* The job has ended, in one way or the other.
JobOver == alertJob \in {"done", "failed", "buried", "forgotten"}

\* An attempt leaves no accepting channel behind it without the alert; as long
\* as one is without it, attempts only end, and the job only returns to the
\* queue, by mishaps.
ServedInOrder ==
  \A c \in Accepting :
    /\ alertJob = "active" /\ c < channel.number => received[c] > 0
    /\ ~At(c, "FAILED")
    /\ received[c] = 0 =>
         IF JobOver THEN mishaps >= 2
                    ELSE tried + (IF stalledOnce THEN 1 ELSE 0) <= mishaps

\* When the job is over, an accepting channel has the alert, or two mishaps came
\* between, whatever the other channels answered on every attempt.
NobodyHeldUp == JobOver => \A c \in Accepting : received[c] > 0 \/ mishaps > 1

\* A step keeps the order of service. With one attempt only, one mishap would do.
LEMMA ServedInOrderStep ==
  ASSUME AlertTries > 1, ReceivedInv, ServedInOrder, [AlertNext]_alertVars
  PROVE  ServedInOrder'
<1> DEFINE Stalls == IF stalledOnce THEN 1 ELSE 0
<1>0. /\ Accepting \subseteq Channels /\ Channels \subseteq Nat
      /\ AlertTries \in Nat /\ tried \in Nat /\ mishaps \in Nat /\ stalledOnce \in BOOLEAN
      /\ channel.number \in Nat /\ alertRow \in [Channels -> RowStatus]
      /\ received \in [Channels -> 0 .. 2]
      /\ SaidIsReceived
      /\ \A n \in Nat : n >= 1 /\ n \notin Channels => n > ChannelCount
      /\ \A c \in Channels : c >= 1 /\ c <= ChannelCount
      /\ ChannelCount \in Nat
  BY AlertAssumption DEF ReceivedInv, AlertTypeOK, Channels
<1>1. \A d \in Channels : received[d] \in 0 .. 2
  BY <1>0
<1>2. \A c \in Accepting :
        /\ alertJob = "active" /\ c < channel.number => received[c] > 0
        /\ ~At(c, "FAILED")
        /\ received[c] = 0 => IF JobOver THEN mishaps >= 2 ELSE tried + Stalls <= mishaps
  BY DEF ServedInOrder
<1> SUFFICES ASSUME NEW c \in Accepting
             PROVE  /\ alertJob' = "active" /\ c < channel'.number => received'[c] > 0
                    /\ ~At(c, "FAILED")'
                    /\ received'[c] = 0 =>
                         IF JobOver' THEN mishaps' >= 2 ELSE tried' + Stalls' <= mishaps'
  BY DEF ServedInOrder
<1> DEFINE Kept == /\ alertJob' = "active" /\ c < channel'.number => received'[c] > 0
                   /\ ~At(c, "FAILED")'
                   /\ received'[c] = 0 =>
                        IF JobOver' THEN mishaps' >= 2 ELSE tried' + Stalls' <= mishaps'
<1>c. c \in Channels /\ c \in Nat /\ received[c] \in 0 .. 2 /\ Stalls \in {0, 1}
  BY <1>0, <1>1
<1>3. ASSUME UNCHANGED <<tried, stalledOnce, received>>, mishaps' \in {mishaps, mishaps + 1},
             JobOver' = JobOver, alertJob' # "active"
      PROVE  Kept
  BY <1>0, <1>2, <1>c, <1>3 DEF At
<1>4. CASE EnqueueAlert \/ BackoffOver \/ BuryAlert
  BY <1>3, <1>4 DEF EnqueueAlert, BackoffOver, BuryAlert, Mishap, JobOver
<1>5. CASE TakeAlert
  <2>1. /\ alertJob = "waiting" /\ alertJob' = "active" /\ channel' = [number |-> 1, step |-> "find"]
        /\ UNCHANGED <<tried, stalledOnce, received, mishaps>>
    BY <1>5 DEF TakeAlert, GoTo
  <2>2. ~JobOver /\ ~JobOver'
    BY <2>1 DEF JobOver
  <2>3. channel'.number = 1 /\ channel'.step = "find" /\ c >= 1
    BY <1>0, <1>c, <2>1
  <2> QED BY <1>2, <1>c, <2>1, <2>2, <2>3 DEF At
<1>6. CASE AlertWorkerDies
  <2>1. mishaps' = mishaps + 1 /\ UNCHANGED <<tried, received>> /\ alertJob' # "active"
    BY <1>6 DEF AlertWorkerDies, Mishap
  <2>2. \/ alertJob = "active" /\ stalledOnce /\ alertJob' = "failed" /\ stalledOnce'
        \/ alertJob = "active" /\ ~stalledOnce /\ alertJob' = "waiting" /\ stalledOnce' = TRUE
        \/ alertJob = "failed" /\ alertJob' = "forgotten"
    BY <1>0, <1>6 DEF AlertWorkerDies
  <2>3. \/ ~JobOver /\ stalledOnce
        \/ ~JobOver /\ ~JobOver' /\ ~stalledOnce /\ stalledOnce'
        \/ JobOver /\ JobOver'
    BY <2>2 DEF JobOver
  <2>4. received[c] = 0 => IF JobOver' THEN mishaps' >= 2 ELSE tried' + Stalls' <= mishaps'
    <3>1. CASE ~JobOver /\ stalledOnce
      <4>1. alertJob' = "failed" /\ JobOver'
        BY <2>2, <3>1 DEF JobOver
      <4> QED BY <1>0, <1>2, <2>1, <3>1, <4>1
    <3>2. CASE ~JobOver /\ ~JobOver' /\ ~stalledOnce /\ stalledOnce'
      BY <1>0, <1>2, <2>1, <3>2
    <3>3. CASE JobOver /\ JobOver'
      BY <1>0, <1>2, <2>1, <3>3
    <3> QED BY <2>3, <3>1, <3>2, <3>3
  <2> QED BY <2>1, <2>4 DEF At
<1>7. CASE AttemptThrows
  <2>1. /\ alertJob = "active" /\ mishaps' = mishaps + 1 /\ tried' = tried + 1
        /\ UNCHANGED <<stalledOnce, received>>
        /\ alertJob' = IF tried + 1 < AlertTries THEN "backoff" ELSE "failed"
    BY <1>7 DEF AttemptThrows, Mishap, FailAttempt
  <2>2. ~JobOver /\ alertJob' # "active" /\ (JobOver' => ~(tried + 1 < AlertTries))
    BY <2>1 DEF JobOver
  <2>3. received[c] = 0 => IF JobOver' THEN mishaps' >= 2 ELSE tried' + Stalls' <= mishaps'
    BY <1>0, <1>2, <1>c, <2>1, <2>2
  <2> QED BY <2>1, <2>2, <2>3 DEF At
<1>8. ASSUME alertJob = "active", alertJob' = "active", UNCHANGED <<tried, stalledOnce, mishaps>>,
             received'[c] \in 0 .. 2, received'[c] >= received[c],
             c < channel'.number => received'[c] > 0,
             channel'.step = "FAILED" => channel'.number # c
      PROVE  Kept
  <2>1. ~JobOver /\ ~JobOver'
    BY <1>8 DEF JobOver
  <2> HIDE DEF JobOver
  <2>2. received'[c] = 0 => IF JobOver' THEN mishaps' >= 2 ELSE tried' + Stalls' <= mishaps'
    BY <1>2, <1>c, <1>8, <2>1
  <2> QED BY <1>8, <2>2 DEF At
<1>9. ASSUME NEW d \in Channels, SkipChannel(d) PROVE Kept
  <2>1. /\ At(d, "find") /\ alertRow[d] = "DELIVERED"
        /\ channel' = [number |-> d + 1, step |-> "find"]
        /\ UNCHANGED <<alertJob, tried, stalledOnce, mishaps, received>>
    BY <1>9 DEF SkipChannel, Delivered, GoTo
  <2>2. received[d] > 0 /\ alertJob = "active" /\ channel.number = d /\ d \in Nat
    BY <1>0, <2>1 DEF SaidIsReceived, At
  <2>3. channel'.number = d + 1 /\ channel'.step = "find"
    BY <2>1
  <2>4. c < d + 1 => received[c] > 0
    BY <1>2, <1>c, <2>2
  <2> QED BY <1>c, <1>8, <2>1, <2>2, <2>3, <2>4
<1>10. ASSUME NEW d \in Channels, FindRow(d) PROVE Kept
  <2>1. /\ At(d, "find") /\ channel' = [number |-> d, step |-> "send"]
        /\ UNCHANGED <<alertJob, tried, stalledOnce, mishaps, received>>
    BY <1>10 DEF FindRow, GoTo
  <2>2. alertJob = "active" /\ channel.number = d /\ channel'.number = d /\ channel'.step = "send"
    BY <2>1 DEF At
  <2> QED BY <1>2, <1>c, <1>8, <2>1, <2>2
<1>11. ASSUME NEW d \in Channels, SendAlert(d) PROVE Kept
  <2>1. PICK outcome \in Outcomes :
          Reply(d, outcome) /\ channel' = [number |-> d, step |-> outcome]
    BY <1>11 DEF SendAlert, GoTo
  <2>2. /\ alertJob = "active" /\ channel.number = d
        /\ UNCHANGED <<alertJob, tried, stalledOnce, mishaps>>
    BY <1>11 DEF SendAlert, At
  <2>3. channel'.number = d /\ channel'.step = outcome
    BY <2>1
  <2>4. received'[c] \in 0 .. 2
    BY <1>0, <1>c, <1>11 DEF SendAlert, Reply
  <2>5. received'[c] >= received[c]
    BY <1>0, <1>c, <2>1, ReplyCounts
  <2>6. c < d => received'[c] > 0
    BY <1>2, <1>c, <2>2, <2>4, <2>5
  <2>7. outcome = "FAILED" => d # c
    BY <2>1 DEF Reply
  <2> QED BY <1>8, <2>2, <2>3, <2>4, <2>5, <2>6, <2>7
<1>12. ASSUME NEW d \in Channels, RecordAlert(d) PROVE Kept
  <2>1. /\ At(d, "DELIVERED") \/ At(d, "FAILED")
        /\ channel' = [number |-> d + 1, step |-> "find"]
        /\ UNCHANGED <<alertJob, tried, stalledOnce, mishaps, received>>
    BY <1>12 DEF RecordAlert, GoTo
  <2>2. alertJob = "active" /\ channel.number = d /\ d \in Nat
    BY <1>0, <2>1 DEF At
  <2>3. channel'.number = d + 1 /\ channel'.step = "find"
    BY <2>1
  <2>4. d = c => received[c] > 0
    BY <1>0, <1>2, <1>c, <2>1 DEF SaidIsReceived
  <2>5. c < d + 1 => received[c] > 0
    BY <1>2, <1>c, <2>2, <2>4
  <2> QED BY <1>c, <1>8, <2>1, <2>2, <2>3, <2>5
<1>13. CASE FinishAttempt
  <2>1. /\ alertJob = "active" /\ channel.number \notin Channels /\ UNCHANGED received
        /\ alertJob' # "active"
    BY <1>13 DEF FinishAttempt, FailAttempt
  <2>2. channel.number >= 1
    BY <2>1 DEF ReceivedInv, ServedSoFar
  <2>3. c < channel.number
    BY <1>0, <1>c, <2>1, <2>2
  <2>4. received[c] > 0
    BY <1>2, <2>1, <2>3
  <2> QED BY <2>1, <2>4 DEF At
<1>14. ASSUME NEW d \in Channels, RetryAlert(d) \/ RecordRetry(d) PROVE Kept
  <2>1. /\ UNCHANGED <<alertJob, tried, stalledOnce, channel, mishaps>>
        /\ received'[c] \in 0 .. 2 /\ received'[c] >= received[c]
    <3>1. CASE RetryAlert(d)
      <4>1. received'[c] \in 0 .. 2
        BY <1>0, <1>c, <3>1 DEF RetryAlert, Reply
      <4>2. received'[c] >= received[c]
        BY <1>0, <1>c, <3>1, ReplyCounts DEF RetryAlert
      <4> QED BY <3>1, <4>1, <4>2 DEF RetryAlert
    <3>2. CASE RecordRetry(d)
      BY <1>c, <3>2 DEF RecordRetry
    <3> QED BY <1>14, <3>1, <3>2
  <2>2. JobOver' = JobOver
    BY <2>1 DEF JobOver
  <2>3. ~At(c, "FAILED")'
    BY <1>2, <2>1 DEF At
  <2>4. alertJob' = "active" /\ c < channel'.number => received'[c] > 0
    BY <1>2, <1>c, <2>1
  <2>5. received'[c] = 0 => IF JobOver' THEN mishaps' >= 2 ELSE tried' + Stalls' <= mishaps'
    BY <1>2, <1>c, <2>1, <2>2
  <2> QED BY <2>3, <2>4, <2>5
<1>15. CASE UNCHANGED alertVars
  BY <1>2, <1>15 DEF alertVars, At, JobOver
<1> QED BY <1>4, <1>5, <1>6, <1>7, <1>9, <1>10, <1>11, <1>12, <1>13, <1>14, <1>15
        DEF AlertNext, AlertStep

\* What RefusalHoldsNobodyUp has besides fairness: however often a channel
\* refuses the alert, a job that is over has told every channel that accepts,
\* but for two mishaps of its own.
THEOREM RefusalsHoldNobodyUp == AlertTries > 1 => (AlertSpec => []NobodyHeldUp)
<1> SUFFICES ASSUME AlertTries > 1 PROVE AlertSpec => []NobodyHeldUp
  OBVIOUS
<1>1. AlertInit => ServedInOrder
  BY AlertAssumption DEF AlertInit, ServedInOrder, At, JobOver
<1>2. ReceivedInv /\ ServedInOrder /\ [AlertNext]_alertVars => ServedInOrder'
  BY ServedInOrderStep
<1>3. ReceivedInv /\ ServedInOrder => NobodyHeldUp
  <2> SUFFICES ASSUME ReceivedInv, ServedInOrder, JobOver, NEW c \in Accepting, received[c] = 0
               PROVE  mishaps > 1
    BY AlertAssumption DEF NobodyHeldUp, ReceivedInv, AlertTypeOK
  <2> QED BY DEF ServedInOrder, ReceivedInv, AlertTypeOK
<1> QED BY <1>1, <1>2, <1>3, AlertStart, ReceivedStep, PTL DEF AlertSpec

-----------------------------------------------------------------------------
(* The settlement job.                                                     *)

DueOf(s) == {p \in unreleased : ShopOf[p] = s}

\* A query of a store with a payment that can be released returns such a one,
\* however many of the store's releases throw.
QueriesReachHealthy ==
  \A s \in Shops :
    FindConfirmedForSettlement(s) /\ DueOf(s) \ Stuck # {} =>
      batchLeft' \ Stuck # {}

\* A payment leaves the batch by an attempt, and if it can be released at all
\* it is no longer due then.
AttemptsCount ==
  \A p \in batchLeft \ batchLeft' : p \in Stuck \/ p \notin unreleased'

\* A batch that holds nothing but stuck payments is the whole of what is due:
\* fewer of the store's payments are stuck than a batch takes.
LEMMA BatchesReachHealthy ==
  ASSUME NEW s \in Shops, NEW U \in SUBSET DuePayments,
         NEW b \in Batches({p \in U : ShopOf[p] = s}), b \subseteq Stuck
  PROVE  {p \in U : ShopOf[p] = s} \subseteq Stuck
<1> DEFINE stuck == {p \in Stuck : ShopOf[p] = s}
<1>1. b \subseteq stuck
  BY DEF Batches
<1>2. IsFiniteSet(stuck)
  BY BatchAssumption, FS_Subset
<1>3. Cardinality(b) <= Cardinality(stuck) /\ Cardinality(b) \in Nat /\ Cardinality(stuck) \in Nat
  BY <1>1, <1>2, FS_Subset, FS_CardinalityType
<1>4. Cardinality(stuck) < BatchSize /\ BatchSize \in Nat
  BY BatchAssumption
<1>5. Cardinality(b) # BatchSize
  BY <1>3, <1>4
<1> QED BY <1>5 DEF Batches

\* Types are kept.
LEMMA SettlementTypeStep ==
  SettlementTypeOK /\ [SettlementNext]_settlementVars => SettlementTypeOK'
<1> SUFFICES ASSUME SettlementTypeOK, [SettlementNext]_settlementVars
             PROVE  SettlementTypeOK'
  OBVIOUS
<1> USE DEF SettlementTypeOK
<1>1. CASE StartRun
  BY <1>1 DEF StartRun
<1>2. CASE \E s \in Shops : FindConfirmedForSettlement(s)
  BY <1>2 DEF FindConfirmedForSettlement, Batches
<1>3. CASE \E p \in DuePayments : TryRelease(p)
  BY <1>3 DEF TryRelease
<1>4. CASE \E s \in Shops : QueryThrows(s)
  BY <1>4, BatchAssumption DEF QueryThrows
<1>5. CASE \E p \in DuePayments : GetDue(p) \/ EndElsewhere(p)
  BY <1>5 DEF GetDue, EndElsewhere
<1>6. CASE UNCHANGED settlementVars
  BY <1>6 DEF settlementVars
<1> QED BY <1>1, <1>2, <1>3, <1>4, <1>5, <1>6 DEF SettlementNext, RunStep

\* No order of the query and no number of releases that throw keeps a store's
\* payments from being tried: what HealthyPaymentsSettle has besides fairness.
THEOREM SettlementMakesProgress ==
  SettlementSpec => [][QueriesReachHealthy /\ AttemptsCount]_settlementVars
<1>1. SettlementInit => SettlementTypeOK
  BY BatchAssumption DEF SettlementInit, SettlementTypeOK
<1>2. SettlementTypeOK /\ [SettlementNext]_settlementVars =>
        [QueriesReachHealthy /\ AttemptsCount]_settlementVars
  <2> SUFFICES ASSUME SettlementTypeOK, SettlementNext
               PROVE  QueriesReachHealthy /\ AttemptsCount
    OBVIOUS
  <2>1. QueriesReachHealthy
    <3> SUFFICES ASSUME NEW s \in Shops, FindConfirmedForSettlement(s), batchLeft' \subseteq Stuck
                 PROVE  DueOf(s) \subseteq Stuck
      BY DEF QueriesReachHealthy
    <3>1. batchLeft' \in Batches({p \in unreleased : ShopOf[p] = s})
      BY DEF FindConfirmedForSettlement
    <3>2. unreleased \in SUBSET DuePayments
      BY DEF SettlementTypeOK
    <3> QED BY <3>1, <3>2, BatchesReachHealthy DEF DueOf
  <2>2. AttemptsCount
    <3> SUFFICES ASSUME NEW p \in batchLeft, p \notin batchLeft'
                 PROVE  p \in Stuck \/ p \notin unreleased'
      BY DEF AttemptsCount
    <3>1. \E q \in DuePayments : TryRelease(q)
      BY DEF SettlementNext, RunStep, StartRun, FindConfirmedForSettlement, QueryThrows,
             GetDue, EndElsewhere
    <3> QED BY <3>1 DEF TryRelease
  <2> QED BY <2>1, <2>2
<1> QED BY <1>1, <1>2, SettlementTypeStep, PTL DEF SettlementSpec

-----------------------------------------------------------------------------
(* Side by side.                                                           *)

Proven == INSTANCE WithdrawalProofs WITH
  Workers <- {"a", "b"}, N <- 2, Amount <- <<1, 2>>,
  MaxAttempts <- 3, BatchLimit <- 1, Failing <- {},
  RunsOutliveLock <- TRUE, Called <- {1, 2}, MaxFaults <- 1, ClaimBound <- 3,
  status <- payStatus, attempts <- payAttempts, due <- payDue, stale <- payStale,
  blocked <- payBlocked, returned <- payReturned, outbox <- payOutbox, lock <- payLock,
  at <- payAt, batch <- payBatch, job <- payJob, faults <- payFaults

\* The constants chosen here are ones WithdrawalProcessing is meant for, and no
\* payout fails with them.
LEMMA PayoutConstants == Proven!ProcessingAssumption /\ Proven!RecordsAreSafe
<1>1. Proven!Withdrawals = {1, 2}
  BY DEF Proven!Withdrawals
<1>2. <<1, 2>> \in [{1, 2} -> Nat \ {0}]
  OBVIOUS
<1>3. Proven!NoWorker \notin {"a", "b"}
  BY DEF Proven!NoWorker
<1>4. Proven!ProcessingAssumption
  BY <1>1, <1>2, <1>3 DEF Proven!ProcessingAssumption
<1>5. Proven!RecordsAreSafe
  BY DEF Proven!RecordsAreSafe
<1> QED BY <1>4, <1>5

\* The definitions of the two instances of WithdrawalProcessing, here and in
\* MCServices, say the same.
LEMMA SamePayouts ==
  /\ Proven!Init <=> Payouts!Init
  /\ Proven!Next <=> Payouts!Next
  /\ UNCHANGED payVars => UNCHANGED Proven!vars
  /\ Proven!OneOutcomeAnnounced <=> Payouts!OneOutcomeAnnounced
<1>1. Proven!Init <=> Payouts!Init
  BY DEF Proven!Init, Payouts!Init, Proven!Withdrawals, Payouts!Withdrawals,
       Proven!NoWorker, Payouts!NoWorker, Proven!NoJob, Payouts!NoJob, Proven!MapThenSumSet,
       Payouts!MapThenSumSet, Proven!MapThenFoldSet, Payouts!MapThenFoldSet
<1>2. Proven!Next <=> Payouts!Next
  <2>1. \A k : Proven!Acquire(k) <=> Payouts!Acquire(k)
    BY DEF Proven!rows, Payouts!rows, Proven!money, Payouts!money, Proven!runs,
         Payouts!runs, Proven!NoWorker, Payouts!NoWorker, Proven!Acquire, Payouts!Acquire,
         Proven!GoTo, Payouts!GoTo
  <2>2. \A k : Proven!EndRun(k) <=> Payouts!EndRun(k)
    BY DEF Proven!rows, Payouts!rows, Proven!money, Payouts!money, Proven!runs,
         Payouts!runs, Proven!NoWorker, Payouts!NoWorker, Proven!EndRun, Payouts!EndRun,
         Proven!GoTo, Payouts!GoTo
  <2>3. \A k : Proven!Complete(k) <=> Payouts!Complete(k)
    BY DEF Proven!rows, Payouts!rows, Proven!money, Payouts!money, Proven!runs,
         Payouts!runs, Proven!NoWorker, Payouts!NoWorker, Proven!Complete, Payouts!Complete,
         Proven!IsOpen, Payouts!IsOpen, Proven!Sent, Payouts!Sent, Proven!NextClaim,
         Payouts!NextClaim, Proven!GoTo, Payouts!GoTo, Proven!NoJob, Payouts!NoJob
  <2>4. \A k : Proven!Fail(k) <=> Payouts!Fail(k)
    BY DEF Proven!rows, Payouts!rows, Proven!money, Payouts!money, Proven!runs,
         Payouts!runs, Proven!NoWorker, Payouts!NoWorker, Proven!Fail, Payouts!Fail,
         Proven!LastAttempt, Payouts!LastAttempt, Proven!IsOpen, Payouts!IsOpen,
         Proven!Reversed, Payouts!Reversed, Proven!NextClaim, Payouts!NextClaim,
         Proven!GoTo, Payouts!GoTo, Proven!NoJob, Payouts!NoJob
  <2>5. \A k : Proven!RecordRead(k) <=> Payouts!RecordRead(k)
    BY DEF Proven!rows, Payouts!rows, Proven!money, Payouts!money, Proven!runs,
         Payouts!runs, Proven!NoWorker, Payouts!NoWorker, Proven!RecordRead,
         Payouts!RecordRead, Proven!LastAttempt, Payouts!LastAttempt, Proven!NextClaim,
         Payouts!NextClaim, Proven!GoTo, Payouts!GoTo, Proven!NoJob, Payouts!NoJob
  <2>6. \A k : Proven!RecordWrite(k) <=> Payouts!RecordWrite(k)
    BY DEF Proven!rows, Payouts!rows, Proven!money, Payouts!money, Proven!runs,
         Payouts!runs, Proven!NoWorker, Payouts!NoWorker, Proven!RecordWrite,
         Payouts!RecordWrite, Proven!NextClaim, Payouts!NextClaim, Proven!GoTo,
         Payouts!GoTo, Proven!NoJob, Payouts!NoJob
  <2>7. \A k : Proven!Crash(k) <=> Payouts!Crash(k)
    BY DEF Proven!rows, Payouts!rows, Proven!money, Payouts!money, Proven!runs,
         Payouts!runs, Proven!NoWorker, Payouts!NoWorker, Proven!Crash, Payouts!Crash,
         Proven!GoTo, Payouts!GoTo, Proven!NoJob, Payouts!NoJob
  <2>8. \A k : Proven!HandlerFails(k) <=> Payouts!HandlerFails(k)
    BY DEF Proven!rows, Payouts!rows, Proven!money, Payouts!money, Proven!runs,
         Payouts!runs, Proven!NoWorker, Payouts!NoWorker, Proven!HandlerFails,
         Payouts!HandlerFails, Proven!NextClaim, Payouts!NextClaim, Proven!GoTo,
         Payouts!GoTo, Proven!NoJob, Payouts!NoJob
  <2>9. \A w : Proven!DevComplete(w) <=> Payouts!DevComplete(w)
    BY DEF Proven!rows, Payouts!rows, Proven!money, Payouts!money, Proven!runs,
         Payouts!runs, Proven!NoWorker, Payouts!NoWorker, Proven!DevComplete,
         Payouts!DevComplete, Proven!IsOpen, Payouts!IsOpen, Proven!Sent, Payouts!Sent
  <2>10. \A w : Proven!DevFail(w) <=> Payouts!DevFail(w)
    BY DEF Proven!rows, Payouts!rows, Proven!money, Payouts!money, Proven!runs,
         Payouts!runs, Proven!NoWorker, Payouts!NoWorker, Proven!DevFail, Payouts!DevFail,
         Proven!IsOpen, Payouts!IsOpen, Proven!Reversed, Payouts!Reversed
  <2>11. \A w : Proven!BecomeDue(w) <=> Payouts!BecomeDue(w)
    BY DEF Proven!rows, Payouts!rows, Proven!money, Payouts!money, Proven!runs,
         Payouts!runs, Proven!NoWorker, Payouts!NoWorker, Proven!BecomeDue,
         Payouts!BecomeDue
  <2>12. \A w : Proven!BecomeStale(w) <=> Payouts!BecomeStale(w)
    BY DEF Proven!rows, Payouts!rows, Proven!money, Payouts!money, Proven!runs,
         Payouts!runs, Proven!NoWorker, Payouts!NoWorker, Proven!BecomeStale,
         Payouts!BecomeStale
  <2>13. \A k, c : Proven!PayOut(k, c) <=> Payouts!PayOut(k, c)
    BY DEF Proven!rows, Payouts!rows, Proven!money, Payouts!money, Proven!runs,
         Payouts!runs, Proven!NoWorker, Payouts!NoWorker, Proven!PayOut, Payouts!PayOut,
         Proven!GoTo, Payouts!GoTo
  <2>14. Proven!LockExpires <=> Payouts!LockExpires
    BY DEF Proven!rows, Payouts!rows, Proven!money, Payouts!money, Proven!runs,
         Payouts!runs, Proven!NoWorker, Payouts!NoWorker, Proven!LockExpires,
         Payouts!LockExpires
  <2>15. \A k : Proven!Claim(k) <=> Payouts!Claim(k)
    <3>1. Proven!Claimable = Payouts!Claimable
      BY DEF Proven!Claimable, Payouts!Claimable, Proven!Withdrawals, Payouts!Withdrawals
    <3>2. \A S : Proven!Oldest(S) = Payouts!Oldest(S)
      BY DEF Proven!Oldest, Payouts!Oldest, Proven!Cardinality, Payouts!Cardinality
    <3> QED
      BY <3>1, <3>2 DEF Proven!Claim, Payouts!Claim, Proven!GoTo, Payouts!GoTo,
           Proven!Withdrawals, Payouts!Withdrawals
  <2> QED
    BY Zenon, <2>1, <2>2, <2>3, <2>4, <2>5, <2>6, <2>7, <2>8, <2>9, <2>10, <2>11, <2>12,
         <2>13, <2>14, <2>15 DEF Proven!Next, Payouts!Next, Proven!Run, Payouts!Run,
         Proven!Withdrawals, Payouts!Withdrawals
<1>3. UNCHANGED payVars => UNCHANGED Proven!vars
  BY DEF Proven!vars, Payouts!vars, Proven!rows, Payouts!rows, Proven!money, Payouts!money,
       Proven!runs, Payouts!runs, payVars
<1>4. Proven!OneOutcomeAnnounced <=> Payouts!OneOutcomeAnnounced
  BY DEF Proven!OneOutcomeAnnounced, Payouts!OneOutcomeAnnounced, Proven!Withdrawals,
       Payouts!Withdrawals
<1> QED BY <1>1, <1>2, <1>3, <1>4

\* Where the services run side by side each behaves as it does alone.
THEOREM ServicesRunAlone ==
  ServicesSpec =>
    /\ KeysSpec /\ CheckoutSpec /\ BreakerSpec /\ SettlementSpec /\ BankSpec
    /\ AlertSpec /\ DeskSpec /\ ApiKeysSpec /\ ReceiptsSpec
    /\ part = "live" => LiveSpec
    /\ part = "sessions" => SessionsSpec
<1>0. ServicesSpec => ServicesInit /\ [][ServicesNext]_allVars
  BY PTL DEF ServicesSpec
<1>1. ServicesSpec => KeysSpec
  <2>1. ServicesInit => KeysInit
    BY DEF ServicesInit
  <2>2. [ServicesNext]_allVars => [KeysNext]_keyVars
    BY Zenon DEF ServicesNext, allVars
  <2> QED BY <1>0, <2>1, <2>2, PTL DEF KeysSpec
<1>2. ServicesSpec => CheckoutSpec
  <2>1. ServicesInit => CheckoutInit
    BY DEF ServicesInit
  <2>2. [ServicesNext]_allVars => [CheckoutNext]_sessionVars
    BY Zenon DEF ServicesNext, allVars
  <2> QED BY <1>0, <2>1, <2>2, PTL DEF CheckoutSpec
<1>3. ServicesSpec => BreakerSpec
  <2>1. ServicesInit => BreakerInit
    BY DEF ServicesInit
  <2>2. [ServicesNext]_allVars => [BreakerNext]_breakerVars
    BY Zenon DEF ServicesNext, allVars
  <2> QED BY <1>0, <2>1, <2>2, PTL DEF BreakerSpec
<1>4. ServicesSpec => SettlementSpec
  <2>1. ServicesInit => SettlementInit
    BY DEF ServicesInit
  <2>2. [ServicesNext]_allVars => [SettlementNext]_settlementVars
    BY Zenon DEF ServicesNext, allVars
  <2> QED BY <1>0, <2>1, <2>2, PTL DEF SettlementSpec
<1>5. ServicesSpec => BankSpec
  <2>1. ServicesInit => BankInit
    BY DEF ServicesInit
  <2>2. [ServicesNext]_allVars => [BankNext]_bankVars
    BY Zenon DEF ServicesNext, allVars
  <2> QED BY <1>0, <2>1, <2>2, PTL DEF BankSpec
<1>6. ServicesSpec => AlertSpec
  <2>1. ServicesInit => AlertInit
    BY DEF ServicesInit
  <2>2. [ServicesNext]_allVars => [AlertNext]_alertVars
    BY Zenon DEF ServicesNext, allVars
  <2> QED BY <1>0, <2>1, <2>2, PTL DEF AlertSpec
<1>7. ServicesSpec => DeskSpec
  <2>1. ServicesInit => DeskInit
    BY DEF ServicesInit
  <2>2. [ServicesNext]_allVars => [DeskNext]_deskVars
    BY Zenon DEF ServicesNext, allVars
  <2> QED BY <1>0, <2>1, <2>2, PTL DEF DeskSpec
<1>8. ServicesSpec => ApiKeysSpec
  <2>1. ServicesInit => ApiKeysInit
    BY DEF ServicesInit
  <2>2. [ServicesNext]_allVars => [ApiKeysNext]_apiKeyVars
    BY Zenon DEF ServicesNext, allVars
  <2> QED BY <1>0, <2>1, <2>2, PTL DEF ApiKeysSpec
<1>9. ServicesSpec => ReceiptsSpec
  <2>1. ServicesInit => ReceiptsInit
    BY DEF ServicesInit
  <2>2. [ServicesNext]_allVars => [ReceiptsNext]_receiptVars
    BY Zenon DEF ServicesNext, allVars
  <2> QED BY <1>0, <2>1, <2>2, PTL DEF ReceiptsSpec
<1>10. ServicesSpec /\ part = "live" => LiveSpec
  <2>1. ServicesInit => LiveInit
    BY DEF ServicesInit
  <2>2. part = "live" /\ [ServicesNext]_allVars => [LiveNext]_liveVars /\ (part = "live")'
    BY DEF ServicesNext, allVars
  <2> QED BY <1>0, <2>1, <2>2, PTL DEF LiveSpec
<1>11. ServicesSpec /\ part = "sessions" => SessionsSpec
  <2>1. ServicesInit => LiveInit /\ SessionsInit
    BY DEF ServicesInit
  <2>2. part = "sessions" /\ [ServicesNext]_allVars => [SessionsNext]_<<liveVars, sessVars>> /\ (part = "sessions")'
    BY DEF ServicesNext, allVars
  <2> QED BY <1>0, <2>1, <2>2, PTL DEF SessionsSpec
<1> QED BY <1>1, <1>2, <1>3, <1>4, <1>5, <1>6, <1>7, <1>8, <1>9, <1>10, <1>11, PTL

\* OneOutcomeAnnounced where runs of two workers overlap and the TEST endpoints
\* are called: what WithdrawalProofs proves of any such runs, of the ones here.
THEOREM PayoutsAnnounceOneOutcome == ServicesSpec => []OneOutcomeAnnounced
<1>1. ServicesInit => Proven!Init
  BY SamePayouts DEF ServicesInit
<1>2. [ServicesNext]_allVars => [Proven!Next]_(Proven!vars)
  <2>1. [ServicesNext]_allVars => Payouts!Next \/ UNCHANGED payVars
    BY Zenon DEF ServicesNext, allVars
  <2> QED BY <2>1, SamePayouts
<1>3. Proven!Spec => []Proven!OneOutcomeAnnounced
  BY PayoutConstants, Proven!OneOutcomeIsAnnounced
<1>4. Proven!OneOutcomeAnnounced => OneOutcomeAnnounced
  BY SamePayouts DEF OneOutcomeAnnounced
<1> QED BY <1>1, <1>2, <1>3, <1>4, PTL DEF ServicesSpec, Proven!Spec
=============================================================================
