--------------------------- MODULE LiveEnablement ---------------------------
(***************************************************************************)
(* A store's row: its LIVE status and commercial terms, changed by the     *)
(* merchant's request and the desk's decisions under a row lock, written   *)
(* back whole by an edit of the store's profile that takes none, and read  *)
(* without a lock by the operations that move LIVE money.                  *)
(***************************************************************************)

CONSTANTS
  Stores,
  Terms, FirstTerms,      \* commercial terms, and those of a new store
  Editors, EditorStore,   \* calls that change a store, and which one
  Operations, MoneyStore, \* LIVE operations of a merchant, and their store
  NoEditor

ASSUME StoreAssumption ==
  /\ FirstTerms \in Terms
  /\ EditorStore \in [Editors -> Stores] /\ NoEditor \notin Editors
  /\ MoneyStore \in [Operations -> Stores]

VARIABLES
  row,         \* stores: live status and terms
  record,      \* stores: what requests and audited decisions made of them (history)
  overwritten, \* stores: a profile edit wrote back an outdated row (history)
  storeLock,   \* stores: the editor that holds the row lock
  edit,        \* editors: the change being made
  draft,       \* editors: the row that was read for it
  money,       \* operations: whether the gate was passed
  underway     \* operations that had passed the gate at the last suspension (history)

storeVars == <<row, record, overwritten, storeLock>>
editVars == <<edit, draft>>
moneyVars == <<money, underway>>
liveVars == <<storeVars, editVars, moneyVars>>

Statuses == {"NOT_REQUESTED", "PENDING", "APPROVED", "REJECTED", "SUSPENDED"}
Rows == [live : Statuses, terms : Terms]
NewStore == [live |-> "NOT_REQUESTED", terms |-> FirstTerms]

LiveInit ==
  /\ row = [s \in Stores |-> NewStore]
  /\ record = row
  /\ overwritten = [s \in Stores |-> FALSE]
  /\ storeLock = [s \in Stores |-> NoEditor]
  /\ edit = [e \in Editors |-> "none"]
  /\ draft = [e \in Editors |-> NewStore]
  /\ money = [o \in Operations |-> "idle"]
  /\ underway = {}

-----------------------------------------------------------------------------
(* The transitions of the Store entity.                                    *)

Decisions == {"request", "approve", "reject", "suspend"}

From(decision) ==
  CASE decision = "request" -> {"NOT_REQUESTED", "REJECTED"}
    [] decision = "approve" -> {"PENDING", "SUSPENDED"}
    [] decision = "reject"  -> {"PENDING"}
    [] decision = "suspend" -> {"APPROVED"}

To(decision) ==
  CASE decision = "request" -> "PENDING"
    [] decision = "approve" -> "APPROVED"
    [] decision = "reject"  -> "REJECTED"
    [] decision = "suspend" -> "SUSPENDED"

\* What edit e, other than one of the profile, makes of the row it has read.
Edited(e) ==
  IF edit[e] = "terms" THEN {[draft[e] EXCEPT !.terms = t] : t \in Terms}
  ELSE {[draft[e] EXCEPT !.live = To(edit[e])]}

-----------------------------------------------------------------------------
(* Edits of a store.                                                       *)

\* Mutant: the row is read without FOR UPDATE.
ReadUnlocked(e, kind) ==
  /\ draft' = [draft EXCEPT ![e] = row[EditorStore[e]]]
  /\ edit' = [edit EXCEPT ![e] = kind]
  /\ UNCHANGED storeLock

ReadForUpdate(e, kind) ==
  /\ storeLock[EditorStore[e]] = NoEditor
  /\ storeLock' = [storeLock EXCEPT ![EditorStore[e]] = e]
  /\ draft' = [draft EXCEPT ![e] = row[EditorStore[e]]]
  /\ edit' = [edit EXCEPT ![e] = kind]

\* A request or a decision whose transition the entity accepts, or new terms.
BeginEdit(e, kind) ==
  /\ edit[e] = "none"
  /\ kind \in Decisions => row[EditorStore[e]].live \in From(kind)
  /\ ReadForUpdate(e, kind)
  /\ UNCHANGED <<row, record, overwritten, moneyVars>>

Unlock(e) ==
  storeLock' = [storeLock EXCEPT ![EditorStore[e]] =
    IF @ = e THEN NoEditor ELSE @]

\* The edit is over, and the row it read is forgotten.
Done(e) ==
  /\ edit' = [edit EXCEPT ![e] = "none"]
  /\ draft' = [draft EXCEPT ![e] = NewStore]

\* The row is written and, of a decision, its line of the audit trail: one
\* transaction.
CommitEdit(e) ==
  /\ edit[e] \in Decisions \cup {"terms"}
  /\ \E new \in Edited(e) :
       /\ row' = [row EXCEPT ![EditorStore[e]] = new]
       /\ record' = [record EXCEPT ![EditorStore[e]] =
            IF edit[e] = "terms" THEN [@ EXCEPT !.terms = new.terms]
            ELSE [@ EXCEPT !.live = new.live]]
  /\ underway' =
       IF edit[e] = "suspend"
         THEN {o \in Operations :
                 \/ money[o] = "passed" /\ MoneyStore[o] = EditorStore[e]
                 \/ o \in underway /\ MoneyStore[o] # EditorStore[e]}
         ELSE underway
  /\ Unlock(e) /\ Done(e)
  /\ UNCHANGED <<overwritten, money>>

AbortEdit(e) ==
  /\ edit[e] \in Decisions \cup {"terms"}
  /\ Unlock(e) /\ Done(e)
  /\ UNCHANGED <<row, record, overwritten, moneyVars>>

\* UpdateStoreProfile: read without a transaction, then written back with
\* every column, liveStatus and the terms included.
ReadProfile(e) ==
  /\ edit[e] = "none"
  /\ draft' = [draft EXCEPT ![e] = row[EditorStore[e]]]
  /\ edit' = [edit EXCEPT ![e] = "profile"]
  /\ UNCHANGED <<storeVars, moneyVars>>

SaveProfile(e) ==
  /\ edit[e] = "profile" /\ storeLock[EditorStore[e]] = NoEditor
  /\ row' = [row EXCEPT ![EditorStore[e]] = draft[e]]
  /\ overwritten' = [overwritten EXCEPT ![EditorStore[e]] =
       @ \/ row[EditorStore[e]] # draft[e]]
  /\ Done(e)
  /\ UNCHANGED <<record, storeLock, moneyVars>>

-----------------------------------------------------------------------------
(* An operation of the merchant on LIVE money: a charge, a refund, a       *)
(* withdrawal or the simulation of one.                                    *)

LiveEnabled(s) == row[s].live = "APPROVED"

\* The gate, early in the operation's transaction. The store is not locked.
PassGate(o) ==
  /\ money[o] = "idle" /\ LiveEnabled(MoneyStore[o])
  /\ money' = [money EXCEPT ![o] = "passed"]
  /\ UNCHANGED <<storeVars, editVars, underway>>

\* The transaction commits or is rolled back.
EndOperation(o) ==
  /\ money[o] = "passed"
  /\ money' = [money EXCEPT ![o] = "idle"]
  /\ underway' = underway \ {o}
  /\ UNCHANGED <<storeVars, editVars>>

-----------------------------------------------------------------------------
LiveNext ==
  \/ \E e \in Editors :
       \/ \E kind \in Decisions \cup {"terms"} : BeginEdit(e, kind)
       \/ CommitEdit(e) \/ AbortEdit(e) \/ ReadProfile(e) \/ SaveProfile(e)
  \/ \E o \in Operations : PassGate(o) \/ EndOperation(o)

LiveSpec == LiveInit /\ [][LiveNext]_liveVars

-----------------------------------------------------------------------------
(* Properties.                                                             *)

\* Every variable stays within its type.
LiveTypeOK ==
  /\ row \in [Stores -> Rows] /\ record \in [Stores -> Rows]
  /\ overwritten \in [Stores -> BOOLEAN]
  /\ storeLock \in [Stores -> Editors \cup {NoEditor}]
  /\ edit \in [Editors -> Decisions \cup {"none", "terms", "profile"}]
  /\ draft \in [Editors -> Rows]
  /\ money \in [Operations -> {"idle", "passed"}]
  /\ underway \subseteq Operations

\* Requests, decisions and terms, whoever makes them at once, never undo one
\* another: unless a profile edit intervened, the store is as recorded.
DecisionsAccumulate ==
  \A s \in Stores : overwritten[s] \/ row[s] = record[s]

\* After a suspension only operations that had already passed the gate can
\* still move LIVE money, although no token is revoked.
SuspensionHolds ==
  \A o \in Operations :
    LET s == MoneyStore[o] IN
      money[o] = "passed" /\ record[s].live # "APPROVED" =>
        o \in underway \/ overwritten[s]

\* Both: what the desk decides stays, in the row and at the gate.
DecisionsStand == DecisionsAccumulate /\ SuspensionHolds

\* "liveStatus so muda por pedido do lojista ou decisao da mesa"
\* (docs/DATA_MODEL.md), whatever else is edited.
StatusIsDecided == \A s \in Stores : row[s].live = record[s].live
=============================================================================
