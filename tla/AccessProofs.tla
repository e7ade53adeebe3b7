----------------------------- MODULE AccessProofs -----------------------------
(***************************************************************************)
(* Who may act, for any stores, terms, editors, operations, calls, requests*)
(* and keys: LIVE enablement, the sessions that carry it, API keys, and the*)
(* operator desk with its trail.                                           *)
(***************************************************************************)
EXTENDS Sessions, ApiKeys, OperatorDesk, TLAPS

-----------------------------------------------------------------------------
(* LIVE enablement.                                                        *)

Locking == Decisions \cup {"terms"}

\* An edit that locks the row has it locked, and has read what it still holds;
\* a decision was accepted in the status it read.
EditsLocked ==
  \A e \in Editors : edit[e] \in Locking =>
    /\ storeLock[EditorStore[e]] = e
    /\ draft[e] = row[EditorStore[e]]
    /\ edit[e] \in Decisions => draft[e].live \in From(edit[e])

\* What every step keeps.
LiveInv == LiveTypeOK /\ EditsLocked /\ DecisionsAccumulate /\ SuspensionHolds

\* What an edit writes is a row, and a decision writes its own status.
LEMMA EditedRows ==
  ASSUME LiveTypeOK, NEW e \in Editors, edit[e] \in Locking, NEW new \in Edited(e)
  PROVE  /\ new \in Rows
         /\ edit[e] = "terms" => new.live = draft[e].live
         /\ edit[e] # "terms" => new = [draft[e] EXCEPT !.live = To(edit[e])]
  BY DEF LiveTypeOK, Edited, Locking, Decisions, Rows, Statuses, To

\* A store that nobody has asked anything of.
LEMMA LiveStart == LiveInit => LiveInv
<1> SUFFICES ASSUME LiveInit PROVE LiveInv
  OBVIOUS
<1> USE StoreAssumption DEF LiveInit
<1>1. NewStore \in Rows
  BY DEF NewStore, Rows, Statuses
<1>2. LiveTypeOK
  BY <1>1 DEF LiveTypeOK
<1>3. EditsLocked
  BY DEF EditsLocked, Locking, Decisions
<1>4. DecisionsAccumulate
  BY DEF DecisionsAccumulate
<1>5. SuspensionHolds
  BY DEF SuspensionHolds
<1> QED BY <1>2, <1>3, <1>4, <1>5 DEF LiveInv

\* Types are kept.
LEMMA LiveTypeStep == LiveTypeOK /\ [LiveNext]_liveVars => LiveTypeOK'
<1> SUFFICES ASSUME LiveTypeOK, [LiveNext]_liveVars PROVE LiveTypeOK'
  OBVIOUS
<1>0. NewStore \in Rows /\ EditorStore \in [Editors -> Stores]
  BY StoreAssumption DEF NewStore, Rows, Statuses
<1> USE <1>0 DEF storeVars, editVars, moneyVars
<1>1. ASSUME NEW e \in Editors, NEW kind \in Locking, BeginEdit(e, kind)
      PROVE  LiveTypeOK'
  BY <1>1 DEF BeginEdit, ReadForUpdate, LiveTypeOK, Locking
<1>2. ASSUME NEW e \in Editors, CommitEdit(e) PROVE LiveTypeOK'
  <2>1. PICK new \in Edited(e) :
          /\ row' = [row EXCEPT ![EditorStore[e]] = new]
          /\ record' = [record EXCEPT ![EditorStore[e]] =
               IF edit[e] = "terms" THEN [@ EXCEPT !.terms = new.terms]
               ELSE [@ EXCEPT !.live = new.live]]
    BY <1>2 DEF CommitEdit
  <2>2. new \in Rows
    BY <1>2, EditedRows DEF CommitEdit, Locking
  <2>3. row' \in [Stores -> Rows] /\ record' \in [Stores -> Rows]
    BY ONLY LiveTypeOK, <1>0, <2>1, <2>2 DEF LiveTypeOK, Rows
  <2>4. underway' \subseteq Operations
    BY <1>2 DEF CommitEdit, LiveTypeOK
  <2> QED BY <1>2, <2>3, <2>4 DEF CommitEdit, Unlock, Done, LiveTypeOK
<1>3. ASSUME NEW e \in Editors, AbortEdit(e) PROVE LiveTypeOK'
  BY <1>3 DEF AbortEdit, Unlock, Done, LiveTypeOK
<1>4. ASSUME NEW e \in Editors, ReadProfile(e) PROVE LiveTypeOK'
  BY <1>4 DEF ReadProfile, LiveTypeOK
<1>5. ASSUME NEW e \in Editors, SaveProfile(e) PROVE LiveTypeOK'
  BY <1>5 DEF SaveProfile, Done, LiveTypeOK
<1>6. ASSUME NEW o \in Operations, PassGate(o) PROVE LiveTypeOK'
  BY <1>6 DEF PassGate, LiveTypeOK
<1>7. ASSUME NEW o \in Operations, EndOperation(o) PROVE LiveTypeOK'
  BY <1>7 DEF EndOperation, LiveTypeOK
<1>8. CASE UNCHANGED liveVars
  BY <1>8 DEF liveVars, LiveTypeOK
<1> QED BY <1>1, <1>2, <1>3, <1>4, <1>5, <1>6, <1>7, <1>8 DEF LiveNext, Locking

\* A row that an edit has locked is written by nobody else.
LEMMA LiveStep == LiveInv /\ [LiveNext]_liveVars => LiveInv'
<1> SUFFICES ASSUME LiveInv, [LiveNext]_liveVars PROVE LiveInv'
  OBVIOUS
<1>0. LiveTypeOK /\ LiveTypeOK' /\ EditorStore \in [Editors -> Stores]
        /\ NoEditor \notin Editors /\ MoneyStore \in [Operations -> Stores]
  BY LiveTypeStep, StoreAssumption DEF LiveInv
<1>t. /\ row \in [Stores -> Rows] /\ record \in [Stores -> Rows]
      /\ storeLock \in [Stores -> Editors \cup {NoEditor}]
      /\ edit \in [Editors -> Decisions \cup {"none", "terms", "profile"}]
      /\ draft \in [Editors -> Rows]
      /\ money \in [Operations -> {"idle", "passed"}]
      /\ overwritten \in [Stores -> BOOLEAN] /\ underway \subseteq Operations
  BY <1>0 DEF LiveTypeOK
<1> USE <1>0, <1>t DEF LiveInv, storeVars, editVars, moneyVars, Locking, Decisions
<1>1. ASSUME NEW e \in Editors, NEW kind \in Locking, BeginEdit(e, kind)
      PROVE  LiveInv'
  <2>1. EditsLocked'
    BY <1>1 DEF BeginEdit, ReadForUpdate, EditsLocked
  <2> QED BY <1>1, <2>1 DEF BeginEdit, DecisionsAccumulate, SuspensionHolds
<1>2. ASSUME NEW e \in Editors, CommitEdit(e) PROVE LiveInv'
  <2> DEFINE s == EditorStore[e]
  <2>0. edit[e] \in Locking /\ storeLock[s] = e /\ draft[e] = row[s]
          /\ (edit[e] \in Decisions => row[s].live \in From(edit[e]))
    BY <1>2 DEF CommitEdit, EditsLocked
  <2>1. PICK new \in Edited(e) :
          /\ row' = [row EXCEPT ![s] = new]
          /\ record' = [record EXCEPT ![s] =
               IF edit[e] = "terms" THEN [@ EXCEPT !.terms = new.terms]
               ELSE [@ EXCEPT !.live = new.live]]
    BY <1>2 DEF CommitEdit
  <2>2. /\ edit[e] = "terms" => new = [row[s] EXCEPT !.terms = new.terms]
        /\ edit[e] # "terms" => new = [row[s] EXCEPT !.live = new.live]
    BY <2>0, <2>1 DEF Edited, Rows
  <2>3. \A t \in Stores \ {s} : row'[t] = row[t] /\ record'[t] = record[t]
    BY <2>1
  <2>4. s \in Stores /\ row'[s] = new
    BY <2>1
  <2>5. DecisionsAccumulate'
    <3>1. ~overwritten[s] => record'[s] = new
      BY <2>1, <2>2, <2>4 DEF DecisionsAccumulate
    <3> QED BY <3>1, <2>3, <2>4, <1>2 DEF DecisionsAccumulate, CommitEdit
  <2>6. EditsLocked'
    <3>1. \A d \in Editors : d # e =>
            /\ edit'[d] = edit[d] /\ draft'[d] = draft[d]
            /\ edit[d] \in Locking => EditorStore[d] # s
      BY <1>2, <2>0 DEF CommitEdit, Done, EditsLocked
    <3>2. edit'[e] = "none"
      BY <1>2 DEF CommitEdit, Done
    <3>3. \A t \in Stores \ {s} : storeLock'[t] = storeLock[t]
      BY <1>2 DEF CommitEdit, Unlock
    <3> QED BY <3>1, <3>2, <3>3, <2>3 DEF EditsLocked
  <2>7. SuspensionHolds'
    <3>1. UNCHANGED <<money, overwritten>>
      BY <1>2 DEF CommitEdit
    <3>2. CASE edit[e] = "suspend"
      <4>1. \A o \in Operations : money[o] = "passed" /\ MoneyStore[o] = s => o \in underway'
        BY <1>2, <3>2 DEF CommitEdit
      <4>2. \A o \in Operations : o \in underway /\ MoneyStore[o] # s => o \in underway'
        BY <1>2, <3>2 DEF CommitEdit
      <4> QED BY <4>1, <4>2, <2>3, <3>1 DEF SuspensionHolds
    <3>3. CASE edit[e] = "approve"
      <4>1. record'[s].live = "APPROVED" /\ underway' = underway
        BY <1>2, <3>3, <2>1, <2>4 DEF CommitEdit, Edited, To, Rows
      <4> QED BY <4>1, <2>3, <3>1 DEF SuspensionHolds
    <3>4. CASE edit[e] = "terms"
      <4>1. record'[s].live = record[s].live /\ underway' = underway
        BY <1>2, <3>4, <2>1, <2>4 DEF CommitEdit, Rows
      <4> QED BY <4>1, <2>3, <3>1 DEF SuspensionHolds
    <3>5. CASE edit[e] \in {"request", "reject"}
      <4>1. overwritten[s] \/ record[s].live # "APPROVED"
        BY <2>0, <3>5 DEF From, DecisionsAccumulate
      <4>2. underway' = underway
        BY <1>2, <3>5 DEF CommitEdit
      <4> QED BY <4>1, <4>2, <2>3, <3>1 DEF SuspensionHolds
    <3> QED BY <2>0, <3>2, <3>3, <3>4, <3>5
  <2> QED BY <2>5, <2>6, <2>7
<1>3. ASSUME NEW e \in Editors, AbortEdit(e) PROVE LiveInv'
  <2>1. EditsLocked'
    BY <1>3 DEF AbortEdit, Unlock, Done, EditsLocked
  <2> QED BY <1>3, <2>1 DEF AbortEdit, DecisionsAccumulate, SuspensionHolds
<1>4. ASSUME NEW e \in Editors, ReadProfile(e) PROVE LiveInv'
  <2>1. EditsLocked'
    BY <1>4 DEF ReadProfile, EditsLocked
  <2> QED BY <1>4, <2>1 DEF ReadProfile, DecisionsAccumulate, SuspensionHolds
<1>5. ASSUME NEW e \in Editors, SaveProfile(e) PROVE LiveInv'
  <2>1. EditsLocked'
    BY <1>5 DEF SaveProfile, Done, EditsLocked
  <2>2. \A s \in Stores : overwritten'[s] \/ (row'[s] = row[s] /\ ~overwritten[s])
    <3> SUFFICES ASSUME NEW s \in Stores PROVE overwritten'[s] \/ (row'[s] = row[s] /\ ~overwritten[s])
      OBVIOUS
    <3>1. CASE s # EditorStore[e]
      BY <1>5, <3>1 DEF SaveProfile
    <3>2. CASE s = EditorStore[e]
      <4>1. row'[s] = draft[e] /\ overwritten'[s] = (overwritten[s] \/ row[s] # draft[e])
        BY <1>5, <3>2 DEF SaveProfile
      <4> QED BY <4>1
    <3> QED BY <3>1, <3>2
  <2>3. UNCHANGED <<record, money, underway>>
    BY <1>5 DEF SaveProfile
  <2>4. \A s \in Stores : overwritten[s] => overwritten'[s]
    BY <1>5 DEF SaveProfile
  <2> QED BY <2>1, <2>2, <2>3, <2>4 DEF DecisionsAccumulate, SuspensionHolds
<1>6. ASSUME NEW o \in Operations, PassGate(o) PROVE LiveInv'
  <2>1. UNCHANGED <<row, record, overwritten, storeLock, edit, draft, underway>>
    BY <1>6 DEF PassGate
  <2>2. row[MoneyStore[o]].live = "APPROVED"
          /\ \A p \in Operations \ {o} : money'[p] = money[p]
    BY <1>6 DEF PassGate, LiveEnabled
  <2>3. EditsLocked' /\ DecisionsAccumulate'
    BY <2>1 DEF EditsLocked, DecisionsAccumulate
  <2> QED BY <2>1, <2>2, <2>3 DEF DecisionsAccumulate, SuspensionHolds
<1>7. ASSUME NEW o \in Operations, EndOperation(o) PROVE LiveInv'
  <2>1. UNCHANGED <<row, record, overwritten, storeLock, edit, draft>>
          /\ underway' = underway \ {o}
    BY <1>7 DEF EndOperation
  <2>2. money'[o] = "idle" /\ \A p \in Operations \ {o} : money'[p] = money[p]
    BY <1>7 DEF EndOperation
  <2>3. EditsLocked' /\ DecisionsAccumulate'
    BY <2>1 DEF EditsLocked, DecisionsAccumulate
  <2> QED BY <2>1, <2>2, <2>3 DEF SuspensionHolds
<1>8. CASE UNCHANGED liveVars
  BY <1>8 DEF liveVars, EditsLocked, DecisionsAccumulate, SuspensionHolds
<1> QED BY <1>1, <1>2, <1>3, <1>4, <1>5, <1>6, <1>7, <1>8 DEF LiveNext

\* Requests, decisions and terms never undo one another.
THEOREM DecisionsAreKept == LiveSpec => []DecisionsAccumulate
<1>1. LiveInv => DecisionsAccumulate
  BY DEF LiveInv
<1> QED BY <1>1, LiveStart, LiveStep, PTL DEF LiveSpec

\* After a suspension only operations that were past the gate move LIVE money.
THEOREM SuspensionIsKept == LiveSpec => []SuspensionHolds
<1>1. LiveInv => SuspensionHolds
  BY DEF LiveInv
<1> QED BY <1>1, LiveStart, LiveStep, PTL DEF LiveSpec

\* Both: what the desk decides stays.
COROLLARY DecisionsAreFinal == LiveSpec => []DecisionsStand
BY DecisionsAreKept, SuspensionIsKept, PTL DEF DecisionsStand

-----------------------------------------------------------------------------
(* Sessions over those stores.                                             *)

\* A context that is LIVE is one of a store that was approved.
Earned(context) == context.env = "LIVE" => context.store \in OnceApproved

GrantsEarned ==
  \A c \in Calls : call[c].at = "issue" => call[c].grant \in Contexts /\ Earned(call[c].grant)

SessionsInv ==
  /\ row \in [Stores -> Rows] /\ SessionsTypeOK
  /\ LiveWasApproved /\ GrantsEarned

\* Every session starts in TEST.
LEMMA SessionsStart == LiveInit /\ SessionsInit => SessionsInv
<1> SUFFICES ASSUME LiveInit, SessionsInit PROVE SessionsInv
  OBVIOUS
<1>1. row \in [Stores -> Rows]
  BY StoreAssumption DEF LiveInit, NewStore, Rows, Statuses
<1>2. call \in [Calls -> CallRecords] /\ \A c \in Calls : call[c].at = "idle"
  BY DEF SessionsInit, Idle, CallRecords, UseCases, Login, NoContext
<1>3. merchant \in Contexts /\ merchant.env = "TEST"
  BY DEF SessionsInit, Contexts, Environments
<1> QED BY <1>1, <1>2, <1>3
        DEF SessionsInit, SessionsInv, SessionsTypeOK, LiveWasApproved, GrantsEarned

\* A store that was approved once stays so: no status leads back.
LEMMA ApprovedOnce ==
  ASSUME row \in [Stores -> Rows], NEW s \in Stores, DecideStore(s)
  PROVE  row' \in [Stores -> Rows] /\ OnceApproved \subseteq OnceApproved'
<1>1. PICK kind \in Decisions :
        /\ row[s].live \in From(kind)
        /\ row' = [row EXCEPT ![s].live = To(kind)]
  BY DEF DecideStore
<1>2. row' \in [Stores -> Rows]
  BY <1>1 DEF Rows, Statuses, Decisions, To
<1>3. row[s].live \in {"APPROVED", "SUSPENDED"} => row'[s].live \in {"APPROVED", "SUSPENDED"}
  BY <1>1 DEF Rows, Decisions, From, To
<1>4. \A t \in Stores \ {s} : row'[t] = row[t]
  BY <1>1
<1> QED BY <1>2, <1>3, <1>4 DEF OnceApproved

\* A step of a session keeps the invariant: LIVE comes only from a store that
\* is approved when it is read.
LEMMA SessionsStep ==
  SessionsInv /\ [SessionsNext]_<<liveVars, sessVars>> => SessionsInv'
<1> SUFFICES ASSUME SessionsInv, [SessionsNext]_<<liveVars, sessVars>> PROVE SessionsInv'
  OBVIOUS
<1>0. /\ row \in [Stores -> Rows] /\ merchant \in Contexts
      /\ token \in {"none", "valid", "revoked", "expired"} /\ liveTokens \subseteq Stores
      /\ merchantLock \in Calls \cup {NoCall} /\ tokenLock \in Calls \cup {NoCall}
      /\ call \in [Calls -> CallRecords]
  BY DEF SessionsInv, SessionsTypeOK
<1>i. Idle \in CallRecords /\ Idle.at = "idle"
  BY DEF Idle, CallRecords, UseCases, Login, NoContext
<1>1. ASSUME UNCHANGED liveVars, UNCHANGED <<merchant, token, liveTokens>>,
             call' \in [Calls -> CallRecords],
             merchantLock' \in Calls \cup {NoCall}, tokenLock' \in Calls \cup {NoCall},
             \A c \in Calls : call'[c].at = "issue" =>
               (call[c].at = "issue" /\ call'[c].grant = call[c].grant)
               \/ (call'[c].grant \in Contexts /\ Earned(call'[c].grant))
      PROVE  SessionsInv'
  <2>1. OnceApproved' = OnceApproved
    BY <1>1 DEF OnceApproved, liveVars, storeVars
  <2>2. GrantsEarned'
    BY <1>1, <2>1 DEF GrantsEarned, Earned, SessionsInv
  <2> QED BY <1>0, <1>1, <2>1, <2>2
          DEF SessionsInv, SessionsTypeOK, LiveWasApproved, liveVars, storeVars
<1>2. ASSUME UNCHANGED liveVars, NEW c \in Calls, RollBack(c) PROVE SessionsInv'
  <2>1. call' \in [Calls -> CallRecords]
          /\ \A d \in Calls : call'[d] = IF d = c THEN Idle ELSE call[d]
    BY <1>0, <1>i, <1>2 DEF RollBack
  <2>2. merchantLock' \in Calls \cup {NoCall} /\ tokenLock' \in Calls \cup {NoCall}
    BY <1>0, <1>2 DEF RollBack, Release
  <2> QED BY <1>1, <1>2, <1>i, <2>1, <2>2 DEF RollBack, rows
<1>3. ASSUME UNCHANGED liveVars, NEW c \in Calls,
             BeginMerchantCall(c) \/ BeginRefresh(c) \/ BeginLogout(c)
      PROVE  SessionsInv'
  <2>1. PICK new \in CallRecords : new.at # "issue" /\ call' = [call EXCEPT ![c] = new]
    <3>1. CASE BeginMerchantCall(c)
      <4>1. PICK u \in UseCases :
              call' = [call EXCEPT ![c] = [Idle EXCEPT !.at = "lockMerchant", !.use = u]]
        BY <3>1 DEF BeginMerchantCall
      <4>2. [Idle EXCEPT !.at = "lockMerchant", !.use = u] \in CallRecords
              /\ [Idle EXCEPT !.at = "lockMerchant", !.use = u].at # "issue"
        BY DEF Idle, CallRecords, NoContext
      <4> QED BY <4>1, <4>2
    <3>2. CASE BeginRefresh(c)
      <4> DEFINE new == [Idle EXCEPT !.at = "lockToken", !.use = [name |-> "refresh"], !.fresh = TRUE]
      <4>1. new \in CallRecords /\ new.at # "issue"
        BY DEF Idle, CallRecords, NoContext, UseCases
      <4> QED BY <3>2, <4>1 DEF BeginRefresh
    <3>3. CASE BeginLogout(c)
      <4> DEFINE new == [Idle EXCEPT !.at = "revoke", !.use = [name |-> "logout"], !.fresh = TRUE]
      <4>1. new \in CallRecords /\ new.at # "issue"
        BY DEF Idle, CallRecords, NoContext, UseCases
      <4> QED BY <3>3, <4>1 DEF BeginLogout
    <3> QED BY <1>3, <3>1, <3>2, <3>3
  <2>3. call' \in [Calls -> CallRecords] /\ call'[c].at # "issue"
          /\ \A d \in Calls \ {c} : call'[d] = call[d]
    BY <1>0, <2>1
  <2>4. UNCHANGED <<merchant, token, liveTokens, merchantLock, tokenLock>>
    BY <1>3 DEF BeginMerchantCall, BeginRefresh, BeginLogout, rows, locks
  <2> QED BY <1>0, <1>1, <1>3, <2>3, <2>4
<1>4. ASSUME UNCHANGED liveVars, NEW c \in Calls, LockToken(c) PROVE SessionsInv'
  <2>1. call' \in [Calls -> CallRecords] /\ call'[c].at = "lockMerchant"
          /\ \A d \in Calls \ {c} : call'[d] = call[d]
    BY <1>0, <1>4 DEF LockToken, Step, CallRecords
  <2>2. UNCHANGED <<merchant, token, liveTokens, merchantLock>> /\ tokenLock' = c
    BY <1>4 DEF LockToken, rows
  <2> QED BY <1>0, <1>1, <1>4, <2>1, <2>2
<1>5. ASSUME UNCHANGED liveVars, NEW c \in Calls, LockMerchant(c) PROVE SessionsInv'
  <2>1. call' \in [Calls -> CallRecords] /\ call'[c].at = "resolve"
          /\ \A d \in Calls \ {c} : call'[d] = call[d]
    BY <1>0, <1>5 DEF LockMerchant, Step, CallRecords
  <2>2. UNCHANGED <<merchant, token, liveTokens, tokenLock>> /\ merchantLock' = c
    BY <1>5 DEF LockMerchant, rows
  <2> QED BY <1>0, <1>1, <1>5, <2>1, <2>2
<1>6. ASSUME UNCHANGED liveVars, NEW c \in Calls, Resolve(c) PROVE SessionsInv'
  <2>1. PICK g \in Contexts : Earned(g) /\
          call' = [call EXCEPT ![c].at = "issue", ![c].grant = g]
    <3>1. LiveEnabled(merchant.store) => merchant.store \in OnceApproved
      BY <1>0 DEF LiveEnabled, OnceApproved, Contexts
    <3>2. CASE call' = [call EXCEPT ![c].at = "issue", ![c].grant = ReconferEnvironment]
      <4>1. ReconferEnvironment \in Contexts /\ Earned(ReconferEnvironment)
        BY <1>0, <3>1 DEF ReconferEnvironment, Contexts, Environments, Earned
      <4> QED BY <3>2, <4>1
    <3>3. CASE call[c].use.name = "store" /\
            call' = [call EXCEPT ![c].at = "issue", ![c].grant = SwitchedToStore(call[c].use.store)]
      <4>1. call[c].use.store \in Stores
        BY <1>0, <3>3 DEF CallRecords, UseCases
      <4>2. SwitchedToStore(call[c].use.store) \in Contexts
              /\ Earned(SwitchedToStore(call[c].use.store))
        BY <4>1 DEF SwitchedToStore, Contexts, Environments, Earned
      <4> QED BY <3>3, <4>2
    <3>4. CASE call[c].use.name = "environment"
               /\ (call[c].use.env = "LIVE" => LiveEnabled(merchant.store))
               /\ call' = [call EXCEPT ![c].at = "issue",
                                       ![c].grant = [merchant EXCEPT !.env = call[c].use.env]]
      <4>1. call[c].use.env \in Environments
        BY <1>0, <3>4 DEF CallRecords, UseCases
      <4>2. [merchant EXCEPT !.env = call[c].use.env] \in Contexts
              /\ Earned([merchant EXCEPT !.env = call[c].use.env])
        BY <1>0, <3>1, <3>4, <4>1 DEF Contexts, Environments, Earned
      <4> QED BY <3>4, <4>2
    <3> QED BY <1>6, <3>2, <3>3, <3>4 DEF Resolve
  <2>2. call' \in [Calls -> CallRecords] /\ call'[c].grant = g
          /\ \A d \in Calls \ {c} : call'[d] = call[d]
    BY <1>0, <2>1 DEF CallRecords
  <2>3. UNCHANGED <<merchant, token, liveTokens, merchantLock, tokenLock>>
    BY <1>6 DEF Resolve, rows, locks
  <2> QED BY <1>0, <1>1, <1>6, <2>1, <2>2, <2>3
<1>7. ASSUME UNCHANGED liveVars, NEW c \in Calls, IssueTokens(c) PROVE SessionsInv'
  <2>1. call[c].at = "issue" /\ merchant' = call[c].grant /\ token' = "valid"
    BY <1>7 DEF IssueTokens
  <2>2. Earned(call[c].grant)
    BY <2>1 DEF SessionsInv, GrantsEarned
  <2>3. merchant' \in Contexts
    BY <2>1 DEF SessionsInv, GrantsEarned
  <2>4. liveTokens' \subseteq Stores /\ liveTokens' \subseteq OnceApproved
    BY <1>0, <1>7, <2>1, <2>2, <2>3
    DEF IssueTokens, SessionsInv, LiveWasApproved, Contexts, Earned
  <2>5. merchantLock' \in Calls \cup {NoCall} /\ tokenLock' \in Calls \cup {NoCall}
    BY <1>0, <1>7 DEF IssueTokens, Release
  <2>6. call' \in [Calls -> CallRecords]
          /\ \A d \in Calls : call'[d].at = "issue" =>
               call[d].at = "issue" /\ call'[d].grant = call[d].grant
    BY <1>0, <1>i, <1>7 DEF IssueTokens, CallRecords
  <2>7. OnceApproved' = OnceApproved /\ row' = row
    BY <1>7 DEF OnceApproved, liveVars, storeVars
  <2>8. GrantsEarned'
    BY <2>6, <2>7 DEF GrantsEarned, Earned, SessionsInv
  <2> QED BY <1>0, <2>1, <2>2, <2>3, <2>4, <2>5, <2>6, <2>7, <2>8
          DEF SessionsInv, SessionsTypeOK, LiveWasApproved, Earned
<1>8. ASSUME UNCHANGED liveVars, NEW c \in Calls, Revoke(c) PROVE SessionsInv'
  <2>1. call' \in [Calls -> CallRecords] /\ call'[c] = Idle
          /\ \A d \in Calls \ {c} : call'[d] = call[d]
    BY <1>0, <1>i, <1>8 DEF Revoke
  <2>2. OnceApproved' = OnceApproved /\ row' = row
    BY <1>8 DEF OnceApproved, liveVars, storeVars
  <2>3. token' \in {"none", "valid", "revoked", "expired"}
          /\ UNCHANGED <<merchant, liveTokens, merchantLock, tokenLock>>
    BY <1>0, <1>8 DEF Revoke, locks
  <2>4. GrantsEarned'
    BY <1>i, <2>1, <2>2 DEF GrantsEarned, Earned, SessionsInv
  <2> QED BY <1>0, <2>1, <2>2, <2>3, <2>4 DEF SessionsInv, SessionsTypeOK, LiveWasApproved
<1>9. ASSUME UNCHANGED liveVars,
             (\E s \in Stores : AccessTokenExpires(s)) \/ RefreshTokenExpires
      PROVE  SessionsInv'
  <2>1. OnceApproved' = OnceApproved /\ row' = row
    BY <1>9 DEF OnceApproved, liveVars, storeVars
  <2>2. liveTokens' \subseteq liveTokens /\ token' \in {token, "expired"}
          /\ UNCHANGED <<merchant, merchantLock, tokenLock, call>>
    BY <1>9 DEF AccessTokenExpires, RefreshTokenExpires, locks
  <2> QED BY <1>0, <2>1, <2>2
          DEF SessionsInv, SessionsTypeOK, LiveWasApproved, GrantsEarned, Earned
<1>10. ASSUME UNCHANGED sessVars, NEW s \in Stores, DecideStore(s) PROVE SessionsInv'
  <2>1. row' \in [Stores -> Rows] /\ OnceApproved \subseteq OnceApproved'
    BY <1>0, <1>10, ApprovedOnce
  <2> QED BY <1>10, <2>1
          DEF SessionsInv, SessionsTypeOK, LiveWasApproved, GrantsEarned, Earned, sessVars,
              rows, locks
<1>11. CASE UNCHANGED <<liveVars, sessVars>>
  BY <1>11 DEF SessionsInv, SessionsTypeOK, LiveWasApproved, GrantsEarned, Earned, sessVars,
               rows, locks, liveVars, storeVars, OnceApproved
<1>12. ASSUME UNCHANGED liveVars, NEW c \in Calls, CallStep(c) \/ AbortCall(c)
       PROVE  SessionsInv'
  BY <1>12, <1>2, <1>4, <1>5, <1>6, <1>7, <1>8
  DEF CallStep, AbortCall, RefuseRefresh, RefuseLive, BreakDeadlock
<1> QED BY <1>3, <1>9, <1>10, <1>11, <1>12, StoreAssumption DEF SessionsNext

\* No session or access token is LIVE for a store the desk never approved.
THEOREM LiveIsEarned == SessionsSpec => []LiveWasApproved
<1>1. SessionsInv => LiveWasApproved
  BY DEF SessionsInv
<1> QED BY <1>1, SessionsStart, SessionsStep, PTL DEF SessionsSpec

\* A refresh that got past its token holds the token's lock, and the token is
\* not revoked.
RefreshHolds ==
  \A c \in Calls :
    call[c].use.name = "refresh" /\ call[c].at \in {"lockMerchant", "resolve", "issue"} =>
      tokenLock = c /\ token # "revoked"

\* Nobody's refresh is under way.
LEMMA RefreshStart == SessionsInit => RefreshHolds
  BY DEF SessionsInit, RefreshHolds, Idle

\* No step takes the token from a refresh that holds its lock.
LEMMA RefreshStep ==
  SessionsInv /\ RefreshHolds /\ [SessionsNext]_<<liveVars, sessVars>> => RefreshHolds'
<1> SUFFICES ASSUME SessionsInv, RefreshHolds, [SessionsNext]_<<liveVars, sessVars>>
             PROVE  RefreshHolds'
  OBVIOUS
<1>0. call \in [Calls -> CallRecords] /\ NoCall \notin Calls
  BY CallAssumption DEF SessionsInv, SessionsTypeOK
<1>i. Idle.at = "idle" /\ Idle.use.name = "login"
  BY DEF Idle, Login
<1>1. ASSUME NEW c \in Calls,
             \A d \in Calls \ {c} : call'[d] = call[d] /\ (tokenLock = d => tokenLock' = d),
             call'[c].at \notin {"lockMerchant", "resolve", "issue"}
               \/ call'[c].use.name # "refresh"
               \/ (tokenLock' = c /\ token' # "revoked"),
             \/ token' = token \/ token' # "revoked"
             \/ Free(tokenLock, c)
      PROVE  RefreshHolds'
  BY <1>0, <1>1 DEF RefreshHolds, Free
<1>2. ASSUME NEW c \in Calls, RollBack(c) PROVE RefreshHolds'
  <2>1. call'[c] = Idle /\ \A d \in Calls \ {c} : call'[d] = call[d]
    BY <1>0, <1>2 DEF RollBack
  <2>2. token' = token /\ \A d \in Calls \ {c} : tokenLock = d => tokenLock' = d
    BY <1>0, <1>2 DEF RollBack, Release, rows
  <2> QED BY <1>1, <1>i, <2>1, <2>2
<1>3. ASSUME NEW c \in Calls, BeginMerchantCall(c) PROVE RefreshHolds'
  <2>1. PICK u \in UseCases :
          /\ u.name \in {"login", "environment", "store"}
          /\ call' = [call EXCEPT ![c] = [Idle EXCEPT !.at = "lockMerchant", !.use = u]]
    BY <1>3 DEF BeginMerchantCall
  <2>2. call'[c].use = u /\ \A d \in Calls \ {c} : call'[d] = call[d]
    BY <1>0, <2>1 DEF Idle
  <2>3. token' = token /\ tokenLock' = tokenLock
    BY <1>3 DEF BeginMerchantCall, rows, locks
  <2> QED BY <1>1, <2>1, <2>2, <2>3
<1>4. ASSUME NEW c \in Calls, BeginRefresh(c) \/ BeginLogout(c) PROVE RefreshHolds'
  <2>1. call'[c].at \in {"lockToken", "revoke"}
          /\ \A d \in Calls \ {c} : call'[d] = call[d]
    BY <1>0, <1>4 DEF BeginRefresh, BeginLogout, Idle
  <2>2. token' = token /\ tokenLock' = tokenLock
    BY <1>4 DEF BeginRefresh, BeginLogout, rows, locks
  <2> QED BY <1>1, <2>1, <2>2
<1>5. ASSUME NEW c \in Calls, LockToken(c) PROVE RefreshHolds'
  <2>1. tokenLock' = c /\ token' = token /\ token' # "revoked" /\ Free(tokenLock, c)
    BY <1>5 DEF LockToken, rows
  <2>2. \A d \in Calls \ {c} : call'[d] = call[d] /\ tokenLock # d
    BY <1>0, <1>5 DEF LockToken, Step, Free
  <2> QED BY <1>1, <2>1, <2>2
<1>6. ASSUME NEW c \in Calls, LockMerchant(c) \/ Resolve(c) PROVE RefreshHolds'
  <2>1. call[c].at \in {"lockMerchant", "resolve"}
    BY <1>6 DEF LockMerchant, Resolve
  <2>2. /\ call'[c].use = call[c].use
        /\ \A d \in Calls \ {c} : call'[d] = call[d]
    <3>1. CASE LockMerchant(c)
      BY <1>0, <3>1 DEF LockMerchant, Step, CallRecords
    <3>2. CASE Resolve(c)
      <4>1. PICK g : call' = [call EXCEPT ![c].at = "issue", ![c].grant = g]
        BY <3>2 DEF Resolve
      <4> QED BY <1>0, <4>1 DEF CallRecords
    <3> QED BY <1>6, <3>1, <3>2
  <2>3. token' = token /\ tokenLock' = tokenLock
    BY <1>6 DEF LockMerchant, Resolve, rows, locks
  <2>4. call[c].use.name = "refresh" => tokenLock = c /\ token # "revoked"
    BY <2>1 DEF RefreshHolds
  <2> QED BY <1>1, <2>2, <2>3, <2>4
<1>7. ASSUME NEW c \in Calls, IssueTokens(c) PROVE RefreshHolds'
  <2>1. \A d \in Calls : call'[d] = IF d = c THEN Idle ELSE [call[d] EXCEPT !.fresh = FALSE]
    BY <1>7 DEF IssueTokens
  <2>2. \A d \in Calls \ {c} : call'[d].at = call[d].at /\ call'[d].use = call[d].use
    BY <1>0, <2>1 DEF CallRecords
  <2>3. token' = "valid" /\ \A d \in Calls \ {c} : tokenLock = d => tokenLock' = d
    BY <1>0, <1>7 DEF IssueTokens, Release
  <2> QED BY <1>i, <2>1, <2>2, <2>3 DEF RefreshHolds
<1>8. ASSUME NEW c \in Calls, Revoke(c) PROVE RefreshHolds'
  <2>1. call'[c] = Idle /\ \A d \in Calls \ {c} : call'[d] = call[d]
    BY <1>0, <1>8 DEF Revoke
  <2>2. tokenLock' = tokenLock /\ Free(tokenLock, c)
    BY <1>8 DEF Revoke, locks
  <2> QED BY <1>1, <1>i, <2>1, <2>2
<1>9. ASSUME (\E s \in Stores : AccessTokenExpires(s)) \/ RefreshTokenExpires
      PROVE  RefreshHolds'
  BY <1>9 DEF AccessTokenExpires, RefreshTokenExpires, RefreshHolds, locks
<1>10. CASE UNCHANGED sessVars
  BY <1>10 DEF RefreshHolds, sessVars, rows, locks
<1>11. ASSUME NEW c \in Calls, CallStep(c) \/ AbortCall(c) PROVE RefreshHolds'
  BY <1>11, <1>2, <1>5, <1>6, <1>7, <1>8
  DEF CallStep, AbortCall, RefuseRefresh, RefuseLive, BreakDeadlock
<1> QED BY <1>3, <1>4, <1>9, <1>10, <1>11 DEF SessionsNext

\* A logout that revoked the token is final for refreshes, the ones under way
\* included.
THEOREM LogoutsHold == SessionsSpec => LogoutHolds
<1> DEFINE Reopened ==
      token = "revoked" /\ token' = "valid" =>
        \E c \in Calls : /\ call[c].at = "issue" /\ call'[c] = Idle
                         /\ call[c].use.name # "refresh"
<1>1. SessionsInv /\ RefreshHolds /\ [SessionsNext]_<<liveVars, sessVars>>
        => [Reopened]_sessVars
  <2> SUFFICES ASSUME SessionsInv, RefreshHolds, [SessionsNext]_<<liveVars, sessVars>>,
                      token = "revoked", token' = "valid"
               PROVE  Reopened
    OBVIOUS
  <2>1. PICK c \in Calls : IssueTokens(c)
    BY DEF SessionsNext, CallStep, AbortCall, RefuseRefresh, RefuseLive, BreakDeadlock, RollBack,
           BeginMerchantCall, BeginRefresh, BeginLogout, LockToken, LockMerchant, Resolve, Revoke,
           AccessTokenExpires, RefreshTokenExpires, sessVars, rows, locks
  <2>2. call[c].at = "issue" /\ call'[c] = Idle
    BY <2>1 DEF IssueTokens
  <2> QED BY <2>2 DEF RefreshHolds
<1> QED BY <1>1, SessionsStart, SessionsStep, RefreshStart, RefreshStep, PTL
        DEF SessionsSpec, LogoutHolds

-----------------------------------------------------------------------------
(* Sessions: who waits for whom.                                           *)

\* The call waits for a row lock that d holds.
WaitsFor(c, d) ==
  /\ c # d
  /\ \/ call[c].at \in {"lockToken", "issue", "revoke"} /\ tokenLock = d
     \/ call[c].at = "lockMerchant" /\ merchantLock = d

\* The guards of CallStep, action by action: it finds the lock free that it
\* needs next, or resolves, or the database breaks a deadlock it is part of.
MayStep(c) ==
  \/ call[c].at \in {"lockToken", "issue", "revoke"} /\ Free(tokenLock, c)
  \/ call[c].at = "lockMerchant" /\ Free(merchantLock, c)
  \/ call[c].at = "resolve" /\ call[c].use.name # "logout"
  \/ \E d \in Calls : Deadlocked(c, d) \/ Deadlocked(d, c)

\* Whoever waits has, at most two locks further, somebody who goes on, and
\* only a refresh and a call that issues ever wait for one another.
WaitsEnd ==
  /\ \A c \in Calls : call[c] # Idle =>
       \/ MayStep(c)
       \/ \E d \in Calls :
            WaitsFor(c, d) /\ (MayStep(d) \/ \E e \in Calls : WaitsFor(d, e) /\ MayStep(e))
  /\ \A c, d \in Calls : Deadlocked(c, d) =>
       call[c].use.name = "refresh" /\ call[d].use.name # "refresh"

\* What the place of a call says of its use and of the merchant's lock.
PlaceHolds(c) ==
  /\ call[c].at = "idle" => call[c] = Idle
  /\ call[c].at = "lockToken" => call[c].use.name = "refresh"
  /\ call[c].at \in {"lockMerchant", "resolve", "issue"} => call[c].use.name # "logout"
  /\ call[c].at \in {"resolve", "issue"} => merchantLock = c

\* The token is locked by a refresh that is past it, the merchant by the one
\* call that resolves or issues.
LocksHeld ==
  /\ tokenLock # NoCall =>
       /\ call[tokenLock].use.name = "refresh"
       /\ call[tokenLock].at \in {"lockMerchant", "resolve", "issue"}
  /\ merchantLock # NoCall => call[merchantLock].at \in {"resolve", "issue"}
  /\ \A c \in Calls : PlaceHolds(c)

\* Nobody holds a lock.
LEMMA LocksStart == SessionsInit => LocksHeld
  BY DEF SessionsInit, LocksHeld, PlaceHolds, Idle

\* Locks are taken and given back with the places that need them.
LEMMA LocksStep ==
  SessionsInv /\ RefreshHolds /\ LocksHeld /\ [SessionsNext]_<<liveVars, sessVars>>
    => LocksHeld'
<1> SUFFICES ASSUME SessionsInv, RefreshHolds, LocksHeld,
                    [SessionsNext]_<<liveVars, sessVars>>
             PROVE  LocksHeld'
  OBVIOUS
<1>0. /\ call \in [Calls -> CallRecords] /\ NoCall \notin Calls
      /\ merchantLock \in Calls \cup {NoCall} /\ tokenLock \in Calls \cup {NoCall}
  BY CallAssumption DEF SessionsInv, SessionsTypeOK
<1>i. Idle.at = "idle" /\ Idle.use.name = "login"
  BY DEF Idle, Login
<1>1. ASSUME NEW c \in Calls, RollBack(c) PROVE LocksHeld'
  <2>1. call'[c] = Idle /\ \A d \in Calls \ {c} : call'[d] = call[d]
    BY <1>0, <1>1 DEF RollBack
  <2>2. /\ merchantLock' = IF merchantLock = c THEN NoCall ELSE merchantLock
        /\ tokenLock' = IF tokenLock = c THEN NoCall ELSE tokenLock
    BY <1>1 DEF RollBack, Release
  <2> QED BY <1>0, <1>i, <2>1, <2>2 DEF LocksHeld, PlaceHolds
<1>2. ASSUME NEW c \in Calls, BeginMerchantCall(c) PROVE LocksHeld'
  <2>1. PICK u \in UseCases :
          /\ u.name \in {"login", "environment", "store"}
          /\ call' = [call EXCEPT ![c] = [Idle EXCEPT !.at = "lockMerchant", !.use = u]]
    BY <1>2 DEF BeginMerchantCall
  <2>2. call'[c].at = "lockMerchant" /\ call'[c].use = u
          /\ \A d \in Calls \ {c} : call'[d] = call[d]
    BY <1>0, <2>1 DEF Idle
  <2>3. call[c].at = "idle" /\ UNCHANGED <<merchantLock, tokenLock>>
    BY <1>2, <1>i DEF BeginMerchantCall, locks
  <2> QED BY <1>0, <2>1, <2>2, <2>3 DEF LocksHeld, PlaceHolds
<1>3. ASSUME NEW c \in Calls, BeginRefresh(c) \/ BeginLogout(c) PROVE LocksHeld'
  <2>1. /\ call'[c].at \in {"lockToken", "revoke"}
        /\ call'[c].at = "lockToken" => call'[c].use.name = "refresh"
        /\ \A d \in Calls \ {c} : call'[d] = call[d]
    <3>1. CASE BeginRefresh(c)
      BY <1>0, <3>1 DEF BeginRefresh, Idle
    <3>2. CASE BeginLogout(c)
      BY <1>0, <3>2 DEF BeginLogout, Idle
    <3> QED BY <1>3, <3>1, <3>2
  <2>2. call[c].at = "idle" /\ UNCHANGED <<merchantLock, tokenLock>>
    BY <1>3, <1>i DEF BeginRefresh, BeginLogout, locks
  <2> QED BY <1>0, <2>1, <2>2 DEF LocksHeld, PlaceHolds
<1>4. ASSUME NEW c \in Calls, LockToken(c) PROVE LocksHeld'
  <2>1. call'[c] = [call[c] EXCEPT !.at = "lockMerchant"]
          /\ \A d \in Calls \ {c} : call'[d] = call[d]
    BY <1>0, <1>4 DEF LockToken, Step
  <2>2. call'[c].at = "lockMerchant" /\ call'[c].use = call[c].use
    BY <1>0, <2>1 DEF CallRecords
  <2>3. call[c].at = "lockToken" /\ tokenLock' = c /\ merchantLock' = merchantLock
    BY <1>4 DEF LockToken
  <2>4. call[c].use.name = "refresh"
    BY <2>3 DEF LocksHeld, PlaceHolds
  <2> QED BY <1>0, <2>1, <2>2, <2>3, <2>4 DEF LocksHeld, PlaceHolds
<1>5. ASSUME NEW c \in Calls, LockMerchant(c) PROVE LocksHeld'
  <2>1. call'[c] = [call[c] EXCEPT !.at = "resolve"]
          /\ \A d \in Calls \ {c} : call'[d] = call[d]
    BY <1>0, <1>5 DEF LockMerchant, Step
  <2>2. call'[c].at = "resolve" /\ call'[c].use = call[c].use
    BY <1>0, <2>1 DEF CallRecords
  <2>3. /\ call[c].at = "lockMerchant" /\ merchantLock' = c /\ tokenLock' = tokenLock
        /\ merchantLock \in {NoCall, c}
    BY <1>5 DEF LockMerchant, Free
  <2>4. \A d \in Calls \ {c} : call[d].at \notin {"resolve", "issue"}
    BY <1>0, <2>3 DEF LocksHeld, PlaceHolds
  <2>5. tokenLock # NoCall => call'[tokenLock].use = call[tokenLock].use
          /\ call'[tokenLock].at \in {"lockMerchant", "resolve", "issue"}
    BY <1>0, <2>1, <2>2 DEF LocksHeld, PlaceHolds
  <2>6. PlaceHolds(c)'
    BY <2>2, <2>3 DEF LocksHeld, PlaceHolds
  <2>7. \A d \in Calls \ {c} : PlaceHolds(d)'
    BY <2>1, <2>4 DEF LocksHeld, PlaceHolds
  <2> QED BY <1>0, <2>2, <2>3, <2>5, <2>6, <2>7 DEF LocksHeld, PlaceHolds
<1>6. ASSUME NEW c \in Calls, Resolve(c) PROVE LocksHeld'
  <2>1. PICK g : call' = [call EXCEPT ![c].at = "issue", ![c].grant = g]
    BY <1>6 DEF Resolve
  <2>2. call'[c].at = "issue" /\ call'[c].use = call[c].use
          /\ \A d \in Calls \ {c} : call'[d] = call[d]
    BY <1>0, <2>1 DEF CallRecords
  <2>3. call[c].at = "resolve" /\ UNCHANGED <<merchantLock, tokenLock>>
    BY <1>6 DEF Resolve, locks
  <2> QED BY <1>0, <2>2, <2>3 DEF LocksHeld, PlaceHolds
<1>7. ASSUME NEW c \in Calls, IssueTokens(c) PROVE LocksHeld'
  <2>1. \A d \in Calls : call'[d] = IF d = c THEN Idle ELSE [call[d] EXCEPT !.fresh = FALSE]
    BY <1>7 DEF IssueTokens
  <2>i. [Idle EXCEPT !.fresh = FALSE] = Idle
    <3>1. Idle \in CallRecords /\ Idle.fresh = FALSE
      BY DEF Idle, CallRecords, UseCases, Login, NoContext
    <3>2. \A x \in CallRecords : x.fresh = FALSE => [x EXCEPT !.fresh = FALSE] = x
      BY DEF CallRecords
    <3> QED BY <3>1, <3>2
  <2>2. \A d \in Calls \ {c} :
          /\ call'[d].at = call[d].at /\ call'[d].use = call[d].use
          /\ call[d] = Idle => call'[d] = Idle
    <3> SUFFICES ASSUME NEW d \in Calls \ {c}
                 PROVE  /\ call'[d].at = call[d].at /\ call'[d].use = call[d].use
                        /\ call[d] = Idle => call'[d] = Idle
      OBVIOUS
    <3>1. call'[d] = [call[d] EXCEPT !.fresh = FALSE] /\ call[d] \in CallRecords
      BY <1>0, <2>1
    <3>2. call'[d].at = call[d].at /\ call'[d].use = call[d].use
      BY <3>1 DEF CallRecords
    <3> QED BY <3>1, <3>2, <2>i
  <2>3. /\ merchantLock' = IF merchantLock = c THEN NoCall ELSE merchantLock
        /\ tokenLock' = IF tokenLock = c THEN NoCall ELSE tokenLock
    BY <1>7 DEF IssueTokens, Release
  <2>4. call'[c] = Idle
    BY <2>1
  <2>5. PlaceHolds(c)'
    BY <1>i, <2>4 DEF PlaceHolds
  <2>6. ASSUME NEW d \in Calls \ {c} PROVE PlaceHolds(d)'
    <3>1. PlaceHolds(d) /\ d # c
      BY DEF LocksHeld
    <3>2. call[d].at \in {"resolve", "issue"} => merchantLock' = d
      BY <2>3, <3>1 DEF PlaceHolds
    <3>3. call'[d].at = call[d].at /\ call'[d].use = call[d].use
            /\ (call[d] = Idle => call'[d] = Idle)
      BY <2>2, <2>6
    <3> QED BY <3>1, <3>2, <3>3 DEF PlaceHolds
  <2>7. /\ tokenLock' # NoCall => tokenLock' = tokenLock /\ tokenLock \in Calls \ {c}
        /\ merchantLock' # NoCall => merchantLock' = merchantLock /\ merchantLock \in Calls \ {c}
    BY <1>0, <2>3
  <2>8. tokenLock' # NoCall =>
          /\ call'[tokenLock'].use.name = "refresh"
          /\ call'[tokenLock'].at \in {"lockMerchant", "resolve", "issue"}
    BY <2>2, <2>7 DEF LocksHeld
  <2>9. merchantLock' # NoCall => call'[merchantLock'].at \in {"resolve", "issue"}
    BY <2>2, <2>7 DEF LocksHeld
  <2>10. \A d \in Calls : PlaceHolds(d)'
    BY <2>5, <2>6
  <2> QED BY <2>8, <2>9, <2>10 DEF LocksHeld, PlaceHolds
<1>8. ASSUME NEW c \in Calls, Revoke(c) PROVE LocksHeld'
  <2>1. call'[c] = Idle /\ \A d \in Calls \ {c} : call'[d] = call[d]
    BY <1>0, <1>8 DEF Revoke
  <2>2. call[c].at = "revoke" /\ UNCHANGED <<merchantLock, tokenLock>>
    BY <1>8 DEF Revoke, locks
  <2> QED BY <1>0, <1>i, <2>1, <2>2 DEF LocksHeld, PlaceHolds
<1>9. ASSUME (\E s \in Stores : AccessTokenExpires(s)) \/ RefreshTokenExpires
      PROVE  LocksHeld'
  BY <1>9 DEF AccessTokenExpires, RefreshTokenExpires, LocksHeld, PlaceHolds, locks
<1>10. CASE UNCHANGED sessVars
  BY <1>10 DEF LocksHeld, PlaceHolds, sessVars, rows, locks
<1>11. ASSUME NEW c \in Calls, CallStep(c) \/ AbortCall(c) PROVE LocksHeld'
  BY <1>11, <1>1, <1>4, <1>5, <1>6, <1>7, <1>8
  DEF CallStep, AbortCall, RefuseRefresh, RefuseLive, BreakDeadlock
<1> QED BY <1>2, <1>3, <1>9, <1>10, <1>11 DEF SessionsNext

\* In every such state somebody goes on.
LEMMA LocksEndWaits == SessionsInv /\ RefreshHolds /\ LocksHeld => WaitsEnd
<1> SUFFICES ASSUME SessionsInv, RefreshHolds, LocksHeld PROVE WaitsEnd
  OBVIOUS
<1>0. /\ call \in [Calls -> CallRecords] /\ NoCall \notin Calls
      /\ merchantLock \in Calls \cup {NoCall} /\ tokenLock \in Calls \cup {NoCall}
  BY CallAssumption DEF SessionsInv, SessionsTypeOK
<1>1. ASSUME NEW c \in Calls, call[c].at \in {"lockToken", "issue", "revoke"}, tokenLock # NoCall
      PROVE  \/ MayStep(c)
             \/ \E d \in Calls :
                  WaitsFor(c, d) /\ (MayStep(d) \/ \E e \in Calls : WaitsFor(d, e) /\ MayStep(e))
  <2> DEFINE d == tokenLock
  <2>1. d \in Calls /\ call[d].at \in {"lockMerchant", "resolve", "issue"}
    BY <1>0, <1>1 DEF LocksHeld, PlaceHolds
  <2>2. CASE d = c
    BY <1>1, <2>2 DEF MayStep, Free
  <2>3. CASE d # c
    <3>1. WaitsFor(c, d)
      BY <1>1, <2>3 DEF WaitsFor
    <3>2. CASE call[d].at # "lockMerchant" \/ merchantLock \in {NoCall, d}
      BY <2>1, <3>1, <3>2 DEF MayStep, Free, LocksHeld, PlaceHolds
    <3>3. CASE call[d].at = "lockMerchant" /\ merchantLock \notin {NoCall, d}
      <4>1. merchantLock \in Calls /\ call[merchantLock].at \in {"resolve", "issue"}
        BY <1>0, <3>3 DEF LocksHeld, PlaceHolds
      <4>2. CASE call[merchantLock].at = "resolve"
        BY <2>1, <3>1, <3>3, <4>1, <4>2 DEF WaitsFor, MayStep, LocksHeld, PlaceHolds
      <4>3. CASE call[merchantLock].at = "issue"
        BY <2>1, <3>1, <3>3, <4>1, <4>3 DEF MayStep, Deadlocked
      <4> QED BY <4>1, <4>2, <4>3
    <3> QED BY <3>2, <3>3
  <2> QED BY <2>2, <2>3
<1>2. ASSUME NEW c \in Calls, call[c].at = "lockMerchant", merchantLock # NoCall
      PROVE  \/ MayStep(c)
             \/ \E d \in Calls :
                  WaitsFor(c, d) /\ (MayStep(d) \/ \E e \in Calls : WaitsFor(d, e) /\ MayStep(e))
  <2> DEFINE d == merchantLock
  <2>1. d \in Calls /\ call[d].at \in {"resolve", "issue"}
    BY <1>0, <1>2 DEF LocksHeld, PlaceHolds
  <2>2. WaitsFor(c, d)
    BY <1>2, <2>1 DEF WaitsFor
  <2>3. CASE call[d].at = "resolve"
    BY <2>1, <2>2, <2>3 DEF MayStep, LocksHeld, PlaceHolds
  <2>4. CASE call[d].at = "issue" /\ tokenLock \in {NoCall, d}
    BY <2>1, <2>2, <2>4 DEF MayStep, Free
  <2>5. CASE call[d].at = "issue" /\ tokenLock \notin {NoCall, d}
    <3> DEFINE e == tokenLock
    <3>1. e \in Calls /\ WaitsFor(d, e) /\ call[e].at \in {"lockMerchant", "resolve", "issue"}
      BY <1>0, <2>5 DEF WaitsFor, LocksHeld, PlaceHolds
    <3>2. call[e].at = "lockMerchant"
      BY <2>5, <3>1 DEF LocksHeld, PlaceHolds
    <3>3. Deadlocked(e, d)
      BY <2>5, <3>2 DEF Deadlocked
    <3>4. MayStep(d)
      BY <3>1, <3>3 DEF MayStep
    <3> QED BY <2>1, <2>2, <3>4
  <2> QED BY <2>1, <2>3, <2>4, <2>5
<1>3. ASSUME NEW c \in Calls, call[c] # Idle
      PROVE  \/ MayStep(c)
             \/ \E d \in Calls :
                  WaitsFor(c, d) /\ (MayStep(d) \/ \E e \in Calls : WaitsFor(d, e) /\ MayStep(e))
  <2>1. call[c].at \in {"lockToken", "lockMerchant", "resolve", "issue", "revoke"}
    BY <1>0, <1>3 DEF CallRecords, LocksHeld, PlaceHolds
  <2>2. CASE call[c].at = "resolve"
    BY <2>2 DEF MayStep, LocksHeld, PlaceHolds
  <2>3. CASE call[c].at = "lockMerchant" /\ merchantLock = NoCall
    BY <2>3 DEF MayStep, Free
  <2>4. CASE call[c].at \in {"lockToken", "issue", "revoke"} /\ tokenLock = NoCall
    BY <2>4 DEF MayStep, Free
  <2> QED BY <1>1, <1>2, <2>1, <2>2, <2>3, <2>4
<1>4. ASSUME NEW c \in Calls, NEW d \in Calls, Deadlocked(c, d)
      PROVE  call[c].use.name = "refresh" /\ call[d].use.name # "refresh"
  <2>1. call[c].at = "lockMerchant" /\ call[d].at = "issue" /\ tokenLock = c
    BY <1>4 DEF Deadlocked
  <2>2. call[c].use.name = "refresh"
    BY <1>0, <2>1 DEF LocksHeld, PlaceHolds
  <2>3. call[d].use.name # "refresh"
    BY <2>1 DEF RefreshHolds
  <2> QED BY <2>2, <2>3
<1> QED BY <1>3, <1>4 DEF WaitsEnd

\* Although refreshes and the other calls take the token and the merchant in
\* opposite orders, nobody is part of an unbroken wait: the safety half of
\* CallsEnd, whose rest is fairness.
THEOREM CallsNeverBlock == SessionsSpec => []WaitsEnd
<1> QED BY SessionsStart, SessionsStep, RefreshStart, RefreshStep, LocksStart, LocksStep,
           LocksEndWaits, PTL DEF SessionsSpec

\* The steps a call has left at most, from each place.
StepsLeft(place) ==
  CASE place = "lockToken" -> 4 [] place = "lockMerchant" -> 3 [] place = "resolve" -> 2
    [] place \in {"issue", "revoke"} -> 1 [] OTHER -> 0

\* A call that began gets nearer to its end with each step of its own, and no
\* step of anybody else takes it back.
Advances(c) ==
  call[c].at # "idle" =>
    \/ call'[c].at = call[c].at /\ ~CallStep(c)
    \/ StepsLeft(call'[c].at) < StepsLeft(call[c].at)

\* A step of a call leads to a later place.
LEMMA StepsCount ==
  ASSUME SessionsInv, NEW c \in Calls, call[c].at # "idle", CallStep(c) \/ AbortCall(c)
  PROVE  StepsLeft(call'[c].at) < StepsLeft(call[c].at)
<1>0. /\ call \in [Calls -> CallRecords]
      /\ call[c].at \in {"lockToken", "lockMerchant", "resolve", "issue", "revoke"}
  BY DEF SessionsInv, SessionsTypeOK, CallRecords
<1>1. CASE RollBack(c)
  <2>1. call'[c].at = "idle"
    BY <1>0, <1>1 DEF RollBack, Idle
  <2> QED BY <1>0, <2>1 DEF StepsLeft
<1>2. CASE LockToken(c)
  <2>1. call[c].at = "lockToken" /\ call'[c].at = "lockMerchant"
    BY <1>0, <1>2 DEF LockToken, Step, CallRecords
  <2> QED BY <2>1 DEF StepsLeft
<1>3. CASE LockMerchant(c)
  <2>1. call[c].at = "lockMerchant" /\ call'[c].at = "resolve"
    BY <1>0, <1>3 DEF LockMerchant, Step, CallRecords
  <2> QED BY <2>1 DEF StepsLeft
<1>4. CASE Resolve(c)
  <2>1. PICK g : call[c].at = "resolve" /\ call' = [call EXCEPT ![c].at = "issue", ![c].grant = g]
    BY <1>4 DEF Resolve
  <2>2. call'[c].at = "issue"
    BY <1>0, <2>1 DEF CallRecords
  <2> QED BY <2>1, <2>2 DEF StepsLeft
<1>5. CASE IssueTokens(c) \/ Revoke(c)
  <2>1. call'[c].at = "idle"
    BY <1>0, <1>5 DEF IssueTokens, Revoke, Idle
  <2> QED BY <1>0, <2>1 DEF StepsLeft
<1> QED BY <1>1, <1>2, <1>3, <1>4, <1>5
        DEF CallStep, AbortCall, RefuseRefresh, RefuseLive, BreakDeadlock

\* The variant of CallsEnd: at most four steps of its own end a call, and
\* nothing that the others do sets it back.
THEOREM CallsAdvance == SessionsSpec => [][\A c \in Calls : Advances(c)]_sessVars
<1> DEFINE AllAdvance == \A c \in Calls : Advances(c)
<1>1. SessionsInv /\ [SessionsNext]_<<liveVars, sessVars>> => [AllAdvance]_sessVars
  <2> SUFFICES ASSUME SessionsInv, SessionsNext, NEW c \in Calls, call[c].at # "idle",
                      call'[c].at # call[c].at \/ CallStep(c), ~UNCHANGED sessVars
               PROVE  StepsLeft(call'[c].at) < StepsLeft(call[c].at)
    BY DEF Advances
  <2>0. call \in [Calls -> CallRecords]
    BY DEF SessionsInv, SessionsTypeOK
  <2>1. CASE CallStep(c) \/ AbortCall(c)
    BY <2>1, StepsCount
  <2>2. CASE ~(CallStep(c) \/ AbortCall(c))
    <3>1. call'[c].at # call[c].at
      BY <2>2
    <3>2. ASSUME NEW d \in Calls \ {c},
                 BeginMerchantCall(d) \/ BeginRefresh(d) \/ BeginLogout(d) \/ LockToken(d)
                   \/ LockMerchant(d) \/ Resolve(d) \/ Revoke(d) \/ RollBack(d)
          PROVE  FALSE
      <4>1. call'[c] = call[c]
        BY <2>0, <3>2 DEF BeginMerchantCall, BeginRefresh, BeginLogout, LockToken, LockMerchant,
                          Resolve, Revoke, RollBack, Step
      <4> QED BY <3>1, <4>1
    <3>3. ASSUME NEW d \in Calls \ {c}, IssueTokens(d) PROVE FALSE
      <4>1. call'[c] = [call[c] EXCEPT !.fresh = FALSE]
        BY <3>3 DEF IssueTokens
      <4> QED BY <2>0, <3>1, <4>1 DEF CallRecords
    <3>4. ASSUME BeginMerchantCall(c) \/ BeginRefresh(c) \/ BeginLogout(c) PROVE FALSE
      <4>1. Idle.at = "idle"
        BY DEF Idle
      <4>2. call[c] = Idle
        BY <3>4 DEF BeginMerchantCall, BeginRefresh, BeginLogout
      <4> QED BY <4>1, <4>2
    <3>5. ASSUME (\E s \in Stores : AccessTokenExpires(s)) \/ RefreshTokenExpires PROVE FALSE
      BY <3>1, <3>5 DEF AccessTokenExpires, RefreshTokenExpires
    <3>6. ASSUME NEW d \in Calls,
                 BeginMerchantCall(d) \/ BeginRefresh(d) \/ BeginLogout(d) \/ CallStep(d) \/ AbortCall(d)
          PROVE  FALSE
      <4>1. CASE d = c
        BY <2>2, <3>4, <3>6, <4>1
      <4>2. CASE d # c
        BY <3>2, <3>3, <3>6, <4>2
        DEF CallStep, AbortCall, RefuseRefresh, RefuseLive, BreakDeadlock
      <4> QED BY <4>1, <4>2
    <3> QED BY <3>5, <3>6 DEF SessionsNext
  <2> QED BY <2>1, <2>2
<1> QED BY <1>1, SessionsStart, SessionsStep, PTL DEF SessionsSpec

-----------------------------------------------------------------------------
(* API keys.                                                               *)

\* What was answered is in the row, and who comes later finds it there.
Answered ==
  /\ \A m \in Revocations : revocation[m] = "done" => revoked
  /\ \A r \in tooLate : revoked /\ guard[r] \in {"asking", "refused"}

\* A key that nobody has revoked yet.
LEMMA KeyStart == ApiKeysInit => ApiKeysTypeOK /\ Answered
  BY DEF ApiKeysInit, ApiKeysTypeOK, Answered

\* No step takes a revocation back, whatever was read before it.
LEMMA KeyStep ==
  ApiKeysTypeOK /\ Answered /\ [ApiKeysNext]_apiKeyVars => (ApiKeysTypeOK /\ Answered)'
<1> SUFFICES ASSUME ApiKeysTypeOK, Answered, [ApiKeysNext]_apiKeyVars
             PROVE  ApiKeysTypeOK' /\ Answered'
  OBVIOUS
<1> USE DEF ApiKeysTypeOK, Answered
<1>1. ASSUME NEW r \in ApiRequests, PresentKey(r)
      PROVE  ApiKeysTypeOK' /\ Answered'
  BY <1>1 DEF PresentKey, GuardTo
<1>2. ASSUME NEW r \in ApiRequests, FindKey(r)
      PROVE  ApiKeysTypeOK' /\ Answered'
  BY <1>2 DEF FindKey, GuardTo
<1>3. ASSUME NEW r \in ApiRequests, Authenticate(r)
      PROVE  ApiKeysTypeOK' /\ Answered'
  BY <1>3 DEF Authenticate, SaveKey, GuardTo
<1>4. ASSUME NEW m \in Revocations, ReadForRevocation(m)
      PROVE  ApiKeysTypeOK' /\ Answered'
  BY <1>4 DEF ReadForRevocation
<1>5. ASSUME NEW m \in Revocations, RevokeApiKey(m)
      PROVE  ApiKeysTypeOK' /\ Answered'
  BY <1>5 DEF RevokeApiKey, SaveKey
<1>6. CASE UNCHANGED apiKeyVars
  BY <1>6 DEF apiKeyVars
<1> QED BY <1>1, <1>2, <1>3, <1>4, <1>5, <1>6 DEF ApiKeysNext

\* A request that comes after the answer to a revocation is never let in.
THEOREM RevocationIsKept == ApiKeysSpec => []RevocationHolds
<1>1. ApiKeysTypeOK /\ Answered => RevocationHolds
  BY DEF Answered, RevocationHolds
<1> QED BY <1>1, KeyStart, KeyStep, PTL DEF ApiKeysSpec

-----------------------------------------------------------------------------
(* The operator desk.                                                      *)

\* A transaction that moves money has locked the account since it read it.
MovesLocked ==
  \A k \in DeskCalls : deskCall[k].at = "moving" =>
    fundsLock = k /\ deskCall[k].before = funds

\* One that is about to hand out tokens has the operator's lock, and has found
\* them active under it.
RotatesLocked ==
  \A k \in DeskCalls : deskCall[k].at = "rotating" => opLock = k /\ opActive

\* A refresh holds the lock of the token it presented, not revoked.
RefreshesLocked ==
  \A k \in DeskCalls :
    deskCall[k].use # "login" /\ deskCall[k].at \in {"rotating", "lockOperator"} =>
      opTokenLock = k /\ opToken # "revoked"

DeskInv == DeskTypeOK /\ MovesLocked /\ RotatesLocked /\ RefreshesLocked /\ TrailIsExact

\* Nothing is locked or under way.
LEMMA DeskStart == DeskInit => DeskInv
<1> SUFFICES ASSUME DeskInit PROVE DeskInv
  OBVIOUS
<1> USE DeskAssumption DEF DeskInit, NoUse
<1>1. \A k \in DeskCalls : deskCall[k].at = "idle"
  OBVIOUS
<1>2. deskCall \in [DeskCalls -> DeskCallRecords]
  BY DEF DeskCallRecords
<1>3. trail \in Seq(Lines) /\ moves \in Seq(Lines)
  OBVIOUS
<1>4. DeskTypeOK
  BY <1>2, <1>3 DEF DeskTypeOK
<1>5. MovesLocked /\ RotatesLocked /\ RefreshesLocked
  BY <1>1 DEF MovesLocked, RotatesLocked, RefreshesLocked
<1> QED BY <1>4, <1>5 DEF DeskInv, TrailIsExact

\* Types are kept.
LEMMA DeskTypeStep == DeskTypeOK /\ [DeskNext]_deskVars => DeskTypeOK'
<1> SUFFICES ASSUME DeskTypeOK, [DeskNext]_deskVars PROVE DeskTypeOK'
  OBVIOUS
<1>0. NoUse \in DeskCallRecords
  BY DeskAssumption DEF NoUse, DeskCallRecords
<1> USE DeskAssumption DEF DeskTypeOK, DeskCallRecords, NoUse, Place, Begin, opVars, fundVars
<1>1. CASE OpTokensExpire
  BY <1>1 DEF OpTokensExpire
<1>2. CASE SetActive
  BY <1>2 DEF SetActive
<1>3. CASE OthersMove
  BY <1>3 DEF OthersMove
<1>4. ASSUME NEW k \in DeskCalls, OperatorLogin(k) PROVE DeskTypeOK'
  BY <1>4 DEF OperatorLogin
<1>5. ASSUME NEW k \in DeskCalls, OperatorRefresh(k) PROVE DeskTypeOK'
  BY <1>5 DEF OperatorRefresh
<1>6. ASSUME NEW k \in DeskCalls, OperatorLogout(k) PROVE DeskTypeOK'
  BY <1>6 DEF OperatorLogout
<1>7. ASSUME NEW k \in DeskCalls, LockOpToken(k) PROVE DeskTypeOK'
  BY <1>7 DEF LockOpToken
<1>8. ASSUME NEW k \in DeskCalls, LockOperator(k) PROVE DeskTypeOK'
  BY <1>8 DEF LockOperator
<1>9. ASSUME NEW k \in DeskCalls, RotateOpToken(k) PROVE DeskTypeOK'
  <2>0. deskCall \in [DeskCalls -> DeskCallRecords]
    OBVIOUS
  <2>1. deskCall' \in [DeskCalls -> DeskCallRecords]
    BY ONLY <1>0, <1>9, <2>0 DEF RotateOpToken, DeskCallRecords
  <2> QED BY <1>9, <2>1 DEF RotateOpToken
<1>10. ASSUME NEW k \in DeskCalls, RevokeOpToken(k) PROVE DeskTypeOK'
  <2>0. deskCall \in [DeskCalls -> DeskCallRecords]
    OBVIOUS
  <2>1. deskCall' \in [DeskCalls -> DeskCallRecords]
    BY ONLY <1>0, <1>10, <2>0 DEF RevokeOpToken
  <2> QED BY <1>10, <2>1 DEF RevokeOpToken
<1>11. ASSUME NEW k \in DeskCalls, ReadBefore(k) PROVE DeskTypeOK'
  BY <1>11 DEF ReadBefore
<1>12. ASSUME NEW k \in DeskCalls, MoveAndRecord(k) PROVE DeskTypeOK'
  <2>0. deskCall \in [DeskCalls -> DeskCallRecords]
    OBVIOUS
  <2>1. deskCall' \in [DeskCalls -> DeskCallRecords]
    BY ONLY <1>0, <1>12, <2>0 DEF MoveAndRecord
  <2>2. funds' = funds - 1 /\ funds' \in 0 .. MaxFunds /\ deskCall[k].before \in 0 .. MaxFunds
    <3>1. funds > 0 /\ funds' = funds - 1
      BY <1>12 DEF MoveAndRecord
    <3>2. deskCall[k].before \in 0 .. MaxFunds
      OBVIOUS
    <3>3. funds \in 0 .. MaxFunds /\ MaxFunds \in Nat
      OBVIOUS
    <3> QED BY ONLY <3>1, <3>2, <3>3
  <2>3. <<funds, funds'>> \in Lines /\ <<deskCall[k].before, funds'>> \in Lines
    BY <2>2 DEF Lines
  <2>4. trail' = Append(trail, <<deskCall[k].before, funds'>>)
          /\ moves' = Append(moves, <<funds, funds'>>)
    BY <1>12 DEF MoveAndRecord
  <2>5. trail \in Seq(Lines) /\ moves \in Seq(Lines)
    OBVIOUS
  <2>6. trail' \in Seq(Lines) /\ moves' \in Seq(Lines)
    BY ONLY <2>3, <2>4, <2>5
  <2> QED BY <1>12, <2>1, <2>2, <2>6 DEF MoveAndRecord
<1>13. ASSUME NEW k \in DeskCalls, DeskRollback(k) PROVE DeskTypeOK'
  <2>0. deskCall \in [DeskCalls -> DeskCallRecords]
    OBVIOUS
  <2>1. deskCall' \in [DeskCalls -> DeskCallRecords]
    BY ONLY <1>0, <1>13, <2>0 DEF DeskRollback
  <2> QED BY <1>13, <2>1 DEF DeskRollback, Unlocked
<1>14. CASE UNCHANGED deskVars
  BY <1>14 DEF deskVars
<1> QED BY <1>1, <1>2, <1>3, <1>4, <1>5, <1>6, <1>7, <1>8, <1>9, <1>10, <1>11, <1>12, <1>13,
           <1>14 DEF DeskNext

\* What a transaction found under a lock is still so while it has the lock.
LEMMA DeskLocksStep ==
  DeskTypeOK /\ MovesLocked /\ RotatesLocked /\ RefreshesLocked /\ [DeskNext]_deskVars =>
    MovesLocked' /\ RotatesLocked' /\ RefreshesLocked'
<1> DEFINE Locked == MovesLocked /\ RotatesLocked /\ RefreshesLocked
<1> SUFFICES ASSUME DeskTypeOK, Locked, [DeskNext]_deskVars PROVE Locked'
  OBVIOUS
<1>0. deskCall \in [DeskCalls -> DeskCallRecords] /\ NoDeskCall \notin DeskCalls
  BY DeskAssumption DEF DeskTypeOK
<1> USE <1>0
    DEF DeskCallRecords, NoUse, MovesLocked, RotatesLocked, RefreshesLocked, Place, Begin,
        opVars, fundVars
<1>1. CASE OpTokensExpire
  BY <1>1 DEF OpTokensExpire
<1>2. CASE SetActive
  BY <1>2 DEF SetActive
<1>3. CASE OthersMove
  BY <1>3 DEF OthersMove
<1>4. ASSUME NEW k \in DeskCalls, OperatorLogin(k) PROVE Locked'
  BY <1>4 DEF OperatorLogin
<1>5. ASSUME NEW k \in DeskCalls, OperatorRefresh(k) PROVE Locked'
  BY <1>5 DEF OperatorRefresh
<1>6. ASSUME NEW k \in DeskCalls, OperatorLogout(k) PROVE Locked'
  BY <1>6 DEF OperatorLogout
<1>7. ASSUME NEW k \in DeskCalls, LockOpToken(k) PROVE Locked'
  BY <1>7 DEF LockOpToken
<1>8. ASSUME NEW k \in DeskCalls, LockOperator(k) PROVE Locked'
  BY <1>8 DEF LockOperator, MayLogin
<1>9. ASSUME NEW k \in DeskCalls, RotateOpToken(k) PROVE Locked'
  <2>1. deskCall'[k].at = "idle"
    BY <1>9 DEF RotateOpToken
  <2>2. \A j \in DeskCalls : j # k =>
          deskCall'[j].at = deskCall[j].at /\ deskCall'[j].use = deskCall[j].use
            /\ deskCall'[j].before = deskCall[j].before
    BY <1>9 DEF RotateOpToken
  <2>3. \A j \in DeskCalls : j # k => opLock # j /\ opTokenLock # j
    <3>1. opLock = k /\ opTokenLock \in {NoDeskCall, k}
      BY <1>9 DEF RotateOpToken
    <3> QED BY <3>1, <1>0
  <2>4. UNCHANGED fundVars
    BY <1>9 DEF RotateOpToken
  <2> QED BY <2>1, <2>2, <2>3, <2>4
<1>10. ASSUME NEW k \in DeskCalls, RevokeOpToken(k) PROVE Locked'
  <2>1. deskCall'[k].at = "idle" /\ \A j \in DeskCalls : j # k => deskCall'[j] = deskCall[j]
    BY <1>10 DEF RevokeOpToken
  <2>2. \A j \in DeskCalls : opTokenLock # j
    BY <1>10 DEF RevokeOpToken
  <2>3. UNCHANGED <<opActive, opLock, opTokenLock, fundVars>>
    BY <1>10 DEF RevokeOpToken
  <2> QED BY <2>1, <2>2, <2>3
<1>11. ASSUME NEW k \in DeskCalls, ReadBefore(k) PROVE Locked'
  BY <1>11 DEF ReadBefore
<1>12. ASSUME NEW k \in DeskCalls, MoveAndRecord(k) PROVE Locked'
  <2>1. deskCall'[k].at = "idle" /\ \A j \in DeskCalls : j # k => deskCall'[j] = deskCall[j]
    BY <1>12 DEF MoveAndRecord
  <2>2. fundsLock = k
    BY <1>12 DEF MoveAndRecord
  <2>3. UNCHANGED opVars
    BY <1>12 DEF MoveAndRecord
  <2> QED BY <2>1, <2>2, <2>3
<1>13. ASSUME NEW k \in DeskCalls, DeskRollback(k) PROVE Locked'
  <2>1. deskCall'[k].at = "idle" /\ \A j \in DeskCalls : j # k => deskCall'[j] = deskCall[j]
    BY <1>13 DEF DeskRollback
  <2>2. \A j \in DeskCalls : j # k =>
          /\ opLock = j => opLock' = j
          /\ opTokenLock = j => opTokenLock' = j
          /\ fundsLock = j => fundsLock' = j
    <3>1. /\ opLock' = IF opLock = k THEN NoDeskCall ELSE opLock
          /\ opTokenLock' = IF opTokenLock = k THEN NoDeskCall ELSE opTokenLock
          /\ fundsLock' = IF fundsLock = k THEN NoDeskCall ELSE fundsLock
      BY ONLY <1>13 DEF DeskRollback, Unlocked
    <3> QED BY ONLY <3>1
  <2>3. UNCHANGED <<opActive, opToken, funds>>
    BY <1>13 DEF DeskRollback
  <2> QED BY <2>1, <2>2, <2>3
<1>14. CASE UNCHANGED deskVars
  BY <1>14 DEF deskVars
<1> QED BY <1>1, <1>2, <1>3, <1>4, <1>5, <1>6, <1>7, <1>8, <1>9, <1>10, <1>11, <1>12, <1>13,
           <1>14 DEF DeskNext

\* A step keeps the invariant: a line is written from what the lock kept.
LEMMA DeskStep == DeskInv /\ [DeskNext]_deskVars => DeskInv'
<1> SUFFICES ASSUME DeskInv, [DeskNext]_deskVars PROVE DeskInv'
  OBVIOUS
<1>1. DeskTypeOK' /\ MovesLocked' /\ RotatesLocked' /\ RefreshesLocked'
  BY DeskTypeStep, DeskLocksStep DEF DeskInv
<1>2. ASSUME NEW k \in DeskCalls, MoveAndRecord(k) PROVE TrailIsExact'
  <2>1. deskCall[k].before = funds
    BY <1>2 DEF MoveAndRecord, DeskInv, MovesLocked
  <2> QED BY <1>2, <2>1 DEF MoveAndRecord, DeskInv, TrailIsExact
<1>3. ASSUME UNCHANGED <<trail, moves>> PROVE TrailIsExact'
  BY <1>3 DEF DeskInv, TrailIsExact
<1>4. (\E k \in DeskCalls : MoveAndRecord(k)) \/ UNCHANGED <<trail, moves>>
  BY DEF DeskNext, deskVars, opVars, fundVars, OpTokensExpire, SetActive, OthersMove,
         OperatorLogin, OperatorRefresh, OperatorLogout, LockOpToken, LockOperator,
         RotateOpToken, RevokeOpToken, ReadBefore, DeskRollback
<1> QED BY <1>1, <1>2, <1>3, <1>4 DEF DeskInv

\* A line of the trail tells the balances its movement really led from and to.
THEOREM TrailNeverLies == DeskSpec => []TrailIsExact
<1>1. DeskInv => TrailIsExact
  BY DEF DeskInv
<1> QED BY <1>1, DeskStart, DeskStep, PTL DEF DeskSpec

\* An operator who is not active gets no new access.
THEOREM DeactivationHolds == DeskSpec => DeactivatedIsOut
<1>1. DeskInv /\ [DeskNext]_deskVars => [opAccess' /\ ~opAccess => opActive]_deskVars
  BY DEF DeskNext, deskVars, opVars, fundVars, OpTokensExpire, SetActive, OthersMove,
         OperatorLogin, OperatorRefresh, OperatorLogout, LockOpToken, LockOperator,
         RotateOpToken, RevokeOpToken, ReadBefore, MoveAndRecord, DeskRollback,
         DeskInv, RotatesLocked
<1> QED BY <1>1, DeskStart, DeskStep, PTL DEF DeskSpec, DeactivatedIsOut

\* A session that a logout closed is opened again by a login only.
THEOREM LogoutIsKept == DeskSpec => ClosedUntilLogin
<1>1. DeskInv /\ [DeskNext]_deskVars => [OpenedByLogin]_deskVars
  <2> SUFFICES ASSUME DeskInv, DeskNext, opToken = "revoked", opToken' = "valid"
               PROVE  \E k \in DeskCalls : deskCall[k].use = "login" /\ deskCall'[k] = NoUse
    BY DEF OpenedByLogin
  <2>1. PICK k \in DeskCalls : RotateOpToken(k)
    BY DEF DeskNext, opVars, fundVars, OpTokensExpire, SetActive, OthersMove,
           OperatorLogin, OperatorRefresh, OperatorLogout, LockOpToken, LockOperator,
           RevokeOpToken, ReadBefore, MoveAndRecord, DeskRollback
  <2>2. deskCall[k].use = "login"
    BY <2>1 DEF RotateOpToken, DeskInv, RefreshesLocked
  <2> QED BY <2>1, <2>2 DEF RotateOpToken, DeskInv, DeskTypeOK
<1> QED BY <1>1, DeskStart, DeskStep, PTL DEF DeskSpec, ClosedUntilLogin

\* Both together: no request under way gets around a deactivation or a logout.
THEOREM AccessIsEarned == DeskSpec => AccessIsGranted
  BY DeactivationHolds, LogoutIsKept DEF AccessIsGranted
-----------------------------------------------------------------------------
(* The operator desk: who waits for whom.                                  *)

\* Who holds a row of the desk is at a place from where it gives it up, and the
\* token is locked by refreshes only.
DeskHolds ==
  /\ opLock # NoDeskCall => deskCall[opLock].at = "rotating"
  /\ opTokenLock # NoDeskCall =>
       /\ deskCall[opTokenLock].use = "refresh"
       /\ deskCall[opTokenLock].at \in {"lockOperator", "rotating"}
  /\ fundsLock # NoDeskCall => deskCall[fundsLock].at = "moving"
  /\ \A k \in DeskCalls :
       /\ deskCall[k].at = "lockToken" => deskCall[k].use = "refresh"
       /\ deskCall[k].at \in {"lockOperator", "rotating"} =>
            deskCall[k].use \in {"login", "refresh"}

\* j holds the token and waits for the operator, whom k has locked, who waits
\* for the token.
DeskDeadlock(j, k) ==
  /\ deskCall[j].at = "lockOperator" /\ opLock = k
  /\ deskCall[k].at = "rotating" /\ opTokenLock = j

\* Whoever waits for the operator waits for a call that hands out tokens; for
\* the token, for a refresh; who hands out tokens waits only where a refresh and
\* a login have locked the two rows crosswise; and who moves money waits for
\* nobody any more.
DeskWaitsEnd ==
  \A k \in DeskCalls :
    /\ deskCall[k].at = "lockOperator" /\ opLock # NoDeskCall =>
         opLock \in DeskCalls \ {k} /\ deskCall[opLock].at = "rotating"
    /\ deskCall[k].at \in {"lockToken", "revoking"} /\ opTokenLock # NoDeskCall =>
         /\ opTokenLock \in DeskCalls \ {k}
         /\ deskCall[opTokenLock].use = "refresh"
         /\ deskCall[opTokenLock].at \in {"lockOperator", "rotating"}
    /\ deskCall[k].at = "rotating" /\ opTokenLock \notin {NoDeskCall, k} =>
         /\ DeskDeadlock(opTokenLock, k)
         /\ deskCall[opTokenLock].use = "refresh" /\ deskCall[k].use = "login"
    /\ deskCall[k].at = "moving" => fundsLock = k

\* A step keeps the holders at their places.
LEMMA DeskHoldsStep ==
  ASSUME DeskInv, DeskHolds, [DeskNext]_deskVars
  PROVE  DeskHolds'
<1>0. /\ deskCall \in [DeskCalls -> DeskCallRecords] /\ NoDeskCall \notin DeskCalls
      /\ opLock \in DeskCalls \cup {NoDeskCall} /\ opTokenLock \in DeskCalls \cup {NoDeskCall}
      /\ fundsLock \in DeskCalls \cup {NoDeskCall}
  BY DeskAssumption DEF DeskInv, DeskTypeOK
<1> USE <1>0 DEF DeskCallRecords, NoUse, DeskHolds, opVars, fundVars
<1>1. CASE OpTokensExpire \/ SetActive \/ OthersMove \/ UNCHANGED deskVars
  BY <1>1 DEF OpTokensExpire, SetActive, OthersMove, deskVars
<1>2. ASSUME NEW k \in DeskCalls, OperatorLogin(k) \/ OperatorRefresh(k) \/ OperatorLogout(k)
      PROVE  DeskHolds'
  <2>1. /\ deskCall[k].at = "idle" /\ UNCHANGED <<opLock, opTokenLock, fundsLock>>
        /\ \A j \in DeskCalls \ {k} : deskCall'[j] = deskCall[j]
    BY <1>2 DEF OperatorLogin, OperatorRefresh, OperatorLogout, Begin
  <2>2. \/ deskCall'[k].at = "lockOperator" /\ deskCall'[k].use = "login"
        \/ deskCall'[k].at = "lockToken" /\ deskCall'[k].use = "refresh"
        \/ deskCall'[k].at = "revoking"
    <3>1. CASE OperatorLogin(k)
      BY <3>1 DEF OperatorLogin, Begin
    <3>2. CASE OperatorRefresh(k)
      BY <3>2 DEF OperatorRefresh, Begin
    <3>3. CASE OperatorLogout(k)
      BY <3>3 DEF OperatorLogout, Begin
    <3> QED BY <1>2, <3>1, <3>2, <3>3
  <2> QED BY <2>1, <2>2
<1>3. ASSUME NEW k \in DeskCalls, LockOpToken(k) PROVE DeskHolds'
  <2>1. /\ deskCall[k].at = "lockToken" /\ opTokenLock' = k
        /\ deskCall'[k].at = "lockOperator" /\ deskCall'[k].use = deskCall[k].use
        /\ \A j \in DeskCalls \ {k} : deskCall'[j] = deskCall[j]
        /\ UNCHANGED <<opLock, fundsLock>>
    BY <1>3 DEF LockOpToken, Place
  <2> QED BY <2>1
<1>4. ASSUME NEW k \in DeskCalls, LockOperator(k) PROVE DeskHolds'
  <2>1. /\ deskCall[k].at = "lockOperator" /\ opLock' = k
        /\ deskCall'[k].at = "rotating" /\ deskCall'[k].use = deskCall[k].use
        /\ \A j \in DeskCalls \ {k} : deskCall'[j] = deskCall[j]
        /\ UNCHANGED <<opTokenLock, fundsLock>>
    BY <1>4 DEF LockOperator, Place
  <2> QED BY <2>1
<1>5. ASSUME NEW k \in DeskCalls, RotateOpToken(k) PROVE DeskHolds'
  <2>1. /\ deskCall'[k].at = "idle" /\ deskCall[k].at = "rotating"
        /\ opLock' = NoDeskCall /\ opTokenLock' = NoDeskCall /\ UNCHANGED fundsLock
    BY <1>5 DEF RotateOpToken
  <2>2. \A j \in DeskCalls \ {k} :
          deskCall'[j].at = deskCall[j].at /\ deskCall'[j].use = deskCall[j].use
    BY <1>5 DEF RotateOpToken
  <2> QED BY <2>1, <2>2
<1>6. ASSUME NEW k \in DeskCalls, RevokeOpToken(k) PROVE DeskHolds'
  <2>1. /\ deskCall'[k].at = "idle" /\ deskCall[k].at = "revoking"
        /\ \A j \in DeskCalls \ {k} : deskCall'[j] = deskCall[j]
        /\ UNCHANGED <<opLock, opTokenLock, fundsLock>>
    BY <1>6 DEF RevokeOpToken
  <2> QED BY <2>1
<1>7. ASSUME NEW k \in DeskCalls, ReadBefore(k) PROVE DeskHolds'
  <2>1. /\ deskCall'[k].at = "moving" /\ deskCall[k].at = "idle" /\ fundsLock' = k
        /\ \A j \in DeskCalls \ {k} : deskCall'[j] = deskCall[j]
        /\ UNCHANGED <<opLock, opTokenLock>>
    BY <1>7 DEF ReadBefore
  <2> QED BY <2>1
<1>8. ASSUME NEW k \in DeskCalls, MoveAndRecord(k) PROVE DeskHolds'
  <2>1. /\ deskCall'[k].at = "idle" /\ deskCall[k].at = "moving" /\ fundsLock' = NoDeskCall
        /\ \A j \in DeskCalls \ {k} : deskCall'[j] = deskCall[j]
        /\ UNCHANGED <<opLock, opTokenLock>>
    BY <1>8 DEF MoveAndRecord
  <2> QED BY <2>1
<1>9. ASSUME NEW k \in DeskCalls, DeskRollback(k) PROVE DeskHolds'
  <2>1. /\ deskCall'[k].at = "idle" /\ \A j \in DeskCalls \ {k} : deskCall'[j] = deskCall[j]
    BY <1>9 DEF DeskRollback
  <2>2. /\ opLock' = IF opLock = k THEN NoDeskCall ELSE opLock
        /\ opTokenLock' = IF opTokenLock = k THEN NoDeskCall ELSE opTokenLock
        /\ fundsLock' = IF fundsLock = k THEN NoDeskCall ELSE fundsLock
    BY <1>9 DEF DeskRollback, Unlocked
  <2> QED BY <2>1, <2>2
<1> QED BY <1>1, <1>2, <1>3, <1>4, <1>5, <1>6, <1>7, <1>8, <1>9 DEF DeskNext

\* Login and refresh lock the operator and the token in opposite orders; the
\* deadlock of the two is the only one there is.
THEOREM DeskNeverBlocks == DeskSpec => []DeskWaitsEnd
<1>1. DeskInit => DeskHolds
  BY DEF DeskInit, NoUse, DeskHolds
<1>2. DeskInv /\ DeskHolds /\ [DeskNext]_deskVars => DeskHolds'
  BY DeskHoldsStep
<1>3. DeskInv /\ DeskHolds => DeskWaitsEnd
  <2> SUFFICES ASSUME DeskInv, DeskHolds PROVE DeskWaitsEnd
    OBVIOUS
  <2>0. /\ NoDeskCall \notin DeskCalls /\ MovesLocked /\ RotatesLocked /\ RefreshesLocked
        /\ opLock \in DeskCalls \cup {NoDeskCall} /\ opTokenLock \in DeskCalls \cup {NoDeskCall}
    BY DeskAssumption DEF DeskInv, DeskTypeOK
  <2>1. ASSUME NEW k \in DeskCalls, deskCall[k].at = "rotating",
               opTokenLock \notin {NoDeskCall, k}
        PROVE  /\ DeskDeadlock(opTokenLock, k)
               /\ deskCall[opTokenLock].use = "refresh" /\ deskCall[k].use = "login"
    <3>1. opLock = k
      BY <2>0, <2>1 DEF RotatesLocked
    <3>2. /\ opTokenLock \in DeskCalls \ {k} /\ deskCall[opTokenLock].use = "refresh"
          /\ deskCall[opTokenLock].at \in {"lockOperator", "rotating"}
      BY <2>0, <2>1 DEF DeskHolds
    <3>3. deskCall[opTokenLock].at # "rotating"
      BY <2>0, <3>1, <3>2 DEF RotatesLocked
    <3>4. deskCall[k].use = "login"
      BY <2>0, <2>1 DEF RefreshesLocked
    <3> QED BY <2>1, <3>1, <3>2, <3>3, <3>4 DEF DeskDeadlock
  <2>2. ASSUME NEW k \in DeskCalls
        PROVE  /\ deskCall[k].at = "lockOperator" /\ opLock # NoDeskCall =>
                    opLock \in DeskCalls \ {k} /\ deskCall[opLock].at = "rotating"
               /\ deskCall[k].at \in {"lockToken", "revoking"} /\ opTokenLock # NoDeskCall =>
                    /\ opTokenLock \in DeskCalls \ {k}
                    /\ deskCall[opTokenLock].use = "refresh"
                    /\ deskCall[opTokenLock].at \in {"lockOperator", "rotating"}
               /\ deskCall[k].at = "moving" => fundsLock = k
    BY <2>0 DEF DeskHolds, MovesLocked
  <2> QED BY <2>1, <2>2 DEF DeskWaitsEnd
<1> QED BY <1>1, <1>2, <1>3, DeskStart, DeskStep, PTL DEF DeskSpec
=============================================================================
