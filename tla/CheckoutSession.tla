-------------------------- MODULE CheckoutSession --------------------------
(***************************************************************************)
(* One hosted checkout session: fulfilling it creates its payment, and     *)
(* reading it after its deadline expires it.  Sessions share nothing, so   *)
(* there is one.                                                           *)
(*                                                                         *)
(* A payment is named after the call that created it.                      *)
(***************************************************************************)
CONSTANTS
  Visits,     \* calls about the session: fulfilments and views
  NoPayment   \* also: no visit

ASSUME VisitAssumption == NoPayment \notin Visits

VARIABLES
  session,        \* the row: its status and paymentId
  sessionOverdue, \* expiresAt has passed
  sessionLock,    \* the visit whose transaction has updated the row
  visit,          \* visits: where each is
  inTime,         \* visits: it took its `now' before the deadline
  seen,           \* visits: the session a view has read
  told,           \* visits: the payment it was answered with
  made            \* payments created for the session (history)

sessionVars == <<session, sessionOverdue, sessionLock, visit, inTime, seen,
                 told, made>>

Sessions == [status : {"OPEN", "COMPLETED", "EXPIRED"},
             payment : Visits \cup {NoPayment}]

Open == [status |-> "OPEN", payment |-> NoPayment]

CheckoutInit ==
  /\ session = Open
  /\ sessionOverdue = FALSE
  /\ sessionLock = NoPayment
  /\ visit = [v \in Visits |-> "new"]
  /\ inTime = [v \in Visits |-> FALSE]
  /\ seen = [v \in Visits |-> Open]
  /\ told = [v \in Visits |-> NoPayment]
  /\ made = {}

MoveTo(v, place) == visit' = [visit EXCEPT ![v] = place]

-----------------------------------------------------------------------------
(* FulfillCheckoutSession, one transaction.                                *)

BeginFulfil(v) ==
  /\ visit[v] = "new"
  /\ MoveTo(v, "claim")
  /\ inTime' = [inTime EXCEPT ![v] = ~sessionOverdue]
  /\ UNCHANGED <<session, sessionOverdue, sessionLock, seen, told, made>>

\* Mutant: the claim reads the session without updating its row.
NeverLocked == TRUE

\* The update of the row waits for a transaction that has updated it.
RowFree == sessionLock = NoPayment

\* The conditional update that takes the row lock.
ClaimSession(v) ==
  /\ visit[v] = "claim" /\ RowFree
  /\ \/ /\ session = Open /\ inTime[v]
        /\ sessionLock' = v
        /\ MoveTo(v, "creating")
     \/ /\ ~(session = Open /\ inTime[v])
        /\ MoveTo(v, "missed")
        /\ UNCHANGED sessionLock
  /\ UNCHANGED <<session, sessionOverdue, inTime, seen, told, made>>

\* The claim missed: the payment made before is the answer, and without one
\* the call fails. For an overdue session it first writes EXPIRED, and the
\* error it then throws rolls that back.
ReplayFulfil(v) ==
  /\ visit[v] = "missed"
  /\ told' = [told EXCEPT ![v] = session.payment]
  /\ MoveTo(v, IF session.payment = NoPayment THEN "failed" ELSE "answered")
  /\ UNCHANGED <<session, sessionOverdue, sessionLock, inTime, seen, made>>

\* The document or the store's environment is refused, or the transaction is
\* lost: the claim and the payment are rolled back together.
RefuseFulfil(v) ==
  /\ visit[v] = "creating"
  /\ sessionLock' = NoPayment
  /\ MoveTo(v, "failed")
  /\ UNCHANGED <<session, sessionOverdue, inTime, seen, told, made>>

\* CreatePayment, fulfill and save are committed together. The save writes
\* back the whole row, read after the claim.
CommitFulfil(v) ==
  /\ visit[v] = "creating"
  /\ made' = made \cup {v}
  /\ session' = [status |-> "COMPLETED", payment |-> v]
  /\ sessionLock' = NoPayment
  /\ told' = [told EXCEPT ![v] = v]
  /\ MoveTo(v, "answered")
  /\ UNCHANGED <<sessionOverdue, inTime, seen>>

-----------------------------------------------------------------------------
(* GetCheckoutSession, without a transaction.                              *)

ReadSession(v) ==
  /\ visit[v] = "new"
  /\ seen' = [seen EXCEPT ![v] = session]
  /\ MoveTo(v, "viewing")
  /\ UNCHANGED <<session, sessionOverdue, sessionLock, inTime, told, made>>

LooksExpired(v) == seen[v].status = "OPEN" /\ sessionOverdue

ShowSession(v) ==
  /\ visit[v] = "viewing" /\ ~LooksExpired(v)
  /\ told' = [told EXCEPT ![v] = seen[v].payment]
  /\ MoveTo(v, "answered")
  /\ UNCHANGED <<session, sessionOverdue, sessionLock, inTime, seen, made>>

\* Lazy expiry: the session that was read is written back as EXPIRED, its
\* paymentId (none) included, whatever the row holds by now.
ExpireOnView(v) ==
  /\ visit[v] = "viewing" /\ LooksExpired(v) /\ RowFree
  /\ session' = [seen[v] EXCEPT !.status = "EXPIRED"]
  /\ MoveTo(v, "answered")
  /\ UNCHANGED <<sessionOverdue, sessionLock, inTime, seen, told, made>>

SessionDeadline ==
  /\ ~sessionOverdue
  /\ sessionOverdue' = TRUE
  /\ UNCHANGED <<session, sessionLock, visit, inTime, seen, told, made>>

-----------------------------------------------------------------------------
CheckoutNext ==
  \/ SessionDeadline
  \/ \E v \in Visits :
       \/ BeginFulfil(v) \/ ClaimSession(v) \/ ReplayFulfil(v)
       \/ RefuseFulfil(v) \/ CommitFulfil(v)
       \/ ReadSession(v) \/ ShowSession(v) \/ ExpireOnView(v)

CheckoutSpec == CheckoutInit /\ [][CheckoutNext]_sessionVars

-----------------------------------------------------------------------------
(* Properties.                                                             *)

\* Every variable stays within its type.
CheckoutTypeOK ==
  /\ session \in Sessions
  /\ sessionOverdue \in BOOLEAN
  /\ sessionLock \in Visits \cup {NoPayment}
  /\ visit \in [Visits -> {"new", "claim", "creating", "missed", "viewing",
                           "answered", "failed"}]
  /\ inTime \in [Visits -> BOOLEAN]
  /\ seen \in [Visits -> Sessions]
  /\ told \in [Visits -> Visits \cup {NoPayment}]
  /\ made \subseteq Visits

\* However fulfilments race, fail or are repeated, the session has one payment
\* at most, and whoever is answered with a payment is answered with that one.
OnePaymentPerSession ==
  /\ \A p, q \in made : p = q
  /\ \A v \in Visits : told[v] # NoPayment => made = {told[v]}

=============================================================================
