-------------------------- MODULE SettlementBatch --------------------------
(***************************************************************************)
(* A run of the settlement job: store by store, a batch of payments that   *)
(* are due, taken in no particular order, each released in a transaction   *)
(* of its own.  Ledger assumes that every payment that stays due is tried  *)
(* again and again; here is when the batch limit and failing releases let  *)
(* the job keep that.                                                      *)
(***************************************************************************)
EXTENDS Integers, FiniteSets

CONSTANTS
  Shops,                \* active stores
  DuePayments, ShopOf,  \* payments that get due, and their store
  Stuck,                \* payments whose release throws every time
  BatchSize,            \* SETTLEMENT_BATCH_SIZE
  MaxQueryErrors        \* bound: queries that throw

\* Fewer payments of a store are stuck than a batch holds.
ASSUME BatchAssumption ==
  /\ IsFiniteSet(DuePayments) /\ ShopOf \in [DuePayments -> Shops]
  /\ Stuck \subseteq DuePayments
  /\ BatchSize \in Nat \ {0} /\ MaxQueryErrors \in Nat
  /\ \A s \in Shops : Cardinality({p \in Stuck : ShopOf[p] = s}) < BatchSize

VARIABLES
  notYetDue,    \* payments confirmed less than settlementDays ago
  unreleased,   \* payments due and CONFIRMED
  shopsLeft,    \* stores the run has not come to yet
  batchLeft,    \* payments of the batch not yet tried
  queryErrors

settlementVars == <<notYetDue, unreleased, shopsLeft, batchLeft, queryErrors>>

SettlementInit ==
  /\ notYetDue = DuePayments /\ unreleased = {}
  /\ shopsLeft = {} /\ batchLeft = {}
  /\ queryErrors = 0

\* Time passes: settlementDays after paidAt.
GetDue(p) ==
  /\ p \in notYetDue
  /\ notYetDue' = notYetDue \ {p}
  /\ unreleased' = unreleased \cup {p}
  /\ UNCHANGED <<shopsLeft, batchLeft, queryErrors>>

\* Released by another call, or refunded in full.
EndElsewhere(p) ==
  /\ p \in unreleased \ Stuck
  /\ unreleased' = unreleased \ {p}
  /\ UNCHANGED <<notYetDue, shopsLeft, batchLeft, queryErrors>>

StartRun ==
  /\ shopsLeft = {} /\ batchLeft = {}
  /\ shopsLeft' = Shops
  /\ UNCHANGED <<notYetDue, unreleased, batchLeft, queryErrors>>

\* The query has a limit and no order.
Batches(due) ==
  {b \in SUBSET due :
     \/ Cardinality(b) = BatchSize
     \/ b = due /\ Cardinality(due) <= BatchSize}

FindConfirmedForSettlement(s) ==
  /\ batchLeft = {} /\ s \in shopsLeft
  /\ batchLeft' \in Batches({p \in unreleased : ShopOf[p] = s})
  /\ shopsLeft' = shopsLeft \ {s}
  /\ UNCHANGED <<notYetDue, unreleased, queryErrors>>

\* A store whose query throws is left for the next run.
QueryThrows(s) ==
  /\ batchLeft = {} /\ s \in shopsLeft /\ queryErrors < MaxQueryErrors
  /\ shopsLeft' = shopsLeft \ {s}
  /\ queryErrors' = queryErrors + 1
  /\ UNCHANGED <<notYetDue, unreleased, batchLeft>>

\* Mutant: an error ends the batch.
TryOrStop(p) ==
  /\ p \in batchLeft
  /\ unreleased' = unreleased \ ({p} \ Stuck)
  /\ batchLeft' = IF p \in Stuck THEN {} ELSE batchLeft \ {p}
  /\ UNCHANGED <<notYetDue, shopsLeft, queryErrors>>

\* ReleasePayment, which throws for a stuck payment and leaves one that was
\* released meanwhile as it is; an error is caught and the loop goes on.
TryRelease(p) ==
  /\ p \in batchLeft
  /\ unreleased' = unreleased \ ({p} \ Stuck)
  /\ batchLeft' = batchLeft \ {p}
  /\ UNCHANGED <<notYetDue, shopsLeft, queryErrors>>

RunStep ==
  \/ StartRun
  \/ \E s \in Shops : FindConfirmedForSettlement(s)
  \/ \E p \in DuePayments : TryRelease(p)

SettlementNext ==
  \/ RunStep
  \/ \E s \in Shops : QueryThrows(s)
  \/ \E p \in DuePayments : GetDue(p) \/ EndElsewhere(p)

\* The cron job ticks for ever, and a run goes on.
SettlementFairness == WF_settlementVars(RunStep)

SettlementSpec == SettlementInit /\ [][SettlementNext]_settlementVars
SettlementFairSpec == SettlementSpec /\ SettlementFairness

\* Every variable stays within its type.
SettlementTypeOK ==
  /\ notYetDue \subseteq DuePayments /\ unreleased \subseteq DuePayments
  /\ shopsLeft \subseteq Shops /\ batchLeft \subseteq DuePayments
  /\ queryErrors \in 0 .. MaxQueryErrors

\* A payment whose release would succeed is settled in the end, although the
\* batch is smaller than what is due and other releases throw in every run.
HealthyPaymentsSettle ==
  \A p \in DuePayments \ Stuck : p \in unreleased ~> p \notin unreleased
=============================================================================
