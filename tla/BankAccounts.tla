---------------------------- MODULE BankAccounts ----------------------------
(***************************************************************************)
(* The bank accounts of one store: which of them is the default, and which *)
(* may be deleted while withdrawals name them.  No use case locks what it  *)
(* reads; only the row locks of the updates, which a transaction keeps to  *)
(* its end, and the foreign key of withdrawals stand between two of them.  *)
(***************************************************************************)

CONSTANTS
  BankAccounts,
  BankCalls,      \* calls of the merchant
  NoBank          \* no account, or no call

ASSUME BankAssumption == NoBank \notin BankAccounts /\ NoBank \notin BankCalls

VARIABLES
  bank,       \* accounts: whether the committed row is there, and the default
  bankLock,   \* accounts: the call whose transaction has written the row
  written,    \* accounts: what it has written
  withdrawn,  \* accounts that a committed withdrawal names
  bankCall    \* calls: see BankCallRecords

bankVars == <<bank, bankLock, written, withdrawn, bankCall>>

\* An account that was deleted is not created again: ids are random.
RowStates == {"none", "plain", "default", "deleted"}

Exists(a) == bank[a] \in {"plain", "default"}

\* The account a call is about, what it does, and the other accounts whose
\* flag it still has to clear.
BankCallRecords ==
  [at : {"idle", "clear", "save", "commit", "withdraw", "delete"},
   about : BankAccounts \cup {NoBank}, todo : SUBSET BankAccounts]

NoBankCall == [at |-> "idle", about |-> NoBank, todo |-> {}]

BankInit ==
  /\ bank = [a \in BankAccounts |-> "none"]
  /\ bankLock = [a \in BankAccounts |-> NoBank]
  /\ written = [a \in BankAccounts |-> "none"]
  /\ withdrawn = {}
  /\ bankCall = [c \in BankCalls |-> NoBankCall]

BankTo(c, place, a, others) ==
  bankCall' = [bankCall EXCEPT ![c] = [at |-> place, about |-> a, todo |-> others]]

\* Call c may write the row of a: nobody else has, or they are done.
Writable(c, a) == bankLock[a] \in {NoBank, c}

WriteRow(c, a, state) ==
  /\ bankLock' = [bankLock EXCEPT ![a] = c]
  /\ written' = [written EXCEPT ![a] = state]

\* The rows the clearing update finds when it starts.
OtherDefaults(a) == {b \in BankAccounts \ {a} : bank[b] = "default"}

-----------------------------------------------------------------------------
(* CreateBankAccount: save, then clear the others.                         *)

CreateBankAccount(c, a) ==
  /\ bankCall[c] = NoBankCall /\ bank[a] = "none" /\ bankLock[a] = NoBank
  /\ \/ WriteRow(c, a, "plain") /\ BankTo(c, "commit", a, {})
     \/ WriteRow(c, a, "default") /\ BankTo(c, "clear", a, OtherDefaults(a))
  /\ UNCHANGED <<bank, withdrawn>>

-----------------------------------------------------------------------------
(* SetDefaultBankAccount: read, clear the others, save the whole row.      *)

SetDefault(c, a) ==
  /\ bankCall[c] = NoBankCall /\ Exists(a)
  /\ BankTo(c, "clear", a, OtherDefaults(a))
  /\ UNCHANGED <<bank, bankLock, written, withdrawn>>

\* A row that changed since the update found it is locked too, and looked at
\* again: what is no longer the default stays as it is.
ClearDefault(c, b) ==
  /\ bankCall[c].at = "clear" /\ b \in bankCall[c].todo /\ Writable(c, b)
  /\ IF Exists(b) THEN WriteRow(c, b, "plain") ELSE UNCHANGED <<bankLock, written>>
  /\ bankCall' = [bankCall EXCEPT ![c].todo = @ \ {b}]
  /\ UNCHANGED <<bank, withdrawn>>

\* A new account is saved already; the other one is saved now. The save is an
\* upsert: a row that was deleted meanwhile is inserted again.
SaveDefault(c) ==
  LET a == bankCall[c].about IN
    /\ bankCall[c].at = "clear" /\ bankCall[c].todo = {} /\ Writable(c, a)
    /\ WriteRow(c, a, "default")
    /\ BankTo(c, "commit", a, {})
    /\ UNCHANGED <<bank, withdrawn>>

CommitBank(c) ==
  /\ bankCall[c].at = "commit"
  /\ bank' = [a \in BankAccounts |-> IF bankLock[a] = c THEN written[a] ELSE bank[a]]
  /\ bankLock' = [a \in BankAccounts |-> IF bankLock[a] = c THEN NoBank ELSE bankLock[a]]
  /\ BankTo(c, "idle", NoBank, {})
  /\ UNCHANGED <<written, withdrawn>>

\* Mutant: each update is committed by itself.
KeepWrites(c) ==
  /\ bankCall[c].at \in {"clear", "commit", "delete"}
  /\ bank' = [a \in BankAccounts |-> IF bankLock[a] = c THEN written[a] ELSE bank[a]]
  /\ bankLock' = [a \in BankAccounts |-> IF bankLock[a] = c THEN NoBank ELSE bankLock[a]]
  /\ BankTo(c, "idle", NoBank, {})
  /\ UNCHANGED <<written, withdrawn>>

\* A failure, a timeout or the victim of a deadlock.
RollbackBank(c) ==
  /\ bankCall[c].at \in {"clear", "commit", "delete"}
  /\ bankLock' = [a \in BankAccounts |-> IF bankLock[a] = c THEN NoBank ELSE bankLock[a]]
  /\ BankTo(c, "idle", NoBank, {})
  /\ UNCHANGED <<bank, written, withdrawn>>

-----------------------------------------------------------------------------
(* Withdrawals that name an account, and its deletion.                     *)

\* CreateWithdrawal inserts a row that names the account, which must be there:
\* the foreign key. The account cannot be deleted until the transaction ends.
NameAccount(c, a) ==
  /\ bankCall[c] = NoBankCall /\ Exists(a)
  /\ BankTo(c, "withdraw", a, {})
  /\ UNCHANGED <<bank, bankLock, written, withdrawn>>

EndWithdrawal(c) ==
  /\ bankCall[c].at = "withdraw"
  /\ \/ withdrawn' = withdrawn \cup {bankCall[c].about}
     \/ UNCHANGED withdrawn
  /\ BankTo(c, "idle", NoBank, {})
  /\ UNCHANGED <<bank, bankLock, written>>

\* DeleteBankAccount has read that no withdrawal names the account.
FindUnused(c, a) ==
  /\ bankCall[c] = NoBankCall /\ Exists(a) /\ a \notin withdrawn
  /\ BankTo(c, "delete", a, {})
  /\ UNCHANGED <<bank, bankLock, written, withdrawn>>

\* ON DELETE RESTRICT, which waits for an insertion that is not committed.
Unreferenced(a) ==
  /\ a \notin withdrawn
  /\ \A d \in BankCalls : ~(bankCall[d].at = "withdraw" /\ bankCall[d].about = a)

DeleteBankAccount(c) ==
  LET a == bankCall[c].about IN
    /\ bankCall[c].at = "delete" /\ Writable(c, a)
    /\ \/ Unreferenced(a) /\ bank' = [bank EXCEPT ![a] = "deleted"]
       \/ a \in withdrawn /\ UNCHANGED bank
    /\ BankTo(c, "idle", NoBank, {})
    /\ UNCHANGED <<bankLock, written, withdrawn>>

-----------------------------------------------------------------------------
BankNext ==
  \E c \in BankCalls :
    \/ \E a \in BankAccounts :
         \/ CreateBankAccount(c, a) \/ SetDefault(c, a) \/ ClearDefault(c, a)
         \/ NameAccount(c, a) \/ FindUnused(c, a)
    \/ SaveDefault(c) \/ CommitBank(c) \/ RollbackBank(c)
    \/ EndWithdrawal(c) \/ DeleteBankAccount(c)

BankSpec == BankInit /\ [][BankNext]_bankVars

-----------------------------------------------------------------------------
(* Properties.                                                             *)

\* Every variable stays within its type.
BankTypeOK ==
  /\ bank \in [BankAccounts -> RowStates] /\ written \in [BankAccounts -> RowStates]
  /\ bankLock \in [BankAccounts -> BankCalls \cup {NoBank}]
  /\ withdrawn \subseteq BankAccounts
  /\ bankCall \in [BankCalls -> BankCallRecords]

HasDefault == \E a \in BankAccounts : bank[a] = "default"

\* However changes of the default race or fail, a store that has a default
\* account loses it only by deleting it: clearing and setting are one.
DefaultSurvives ==
  [][HasDefault /\ ~HasDefault' =>
       \E a \in BankAccounts : bank[a] = "default" /\ bank'[a] = "deleted"]_bankVars

\* A withdrawal always has the account it is paid to, although the deletion
\* looked for withdrawals before they were there.
WithdrawalsKeepAccount == \A a \in withdrawn : Exists(a)

\* Both: a store keeps the accounts its withdrawals need.
BankAccountsHold == []WithdrawalsKeepAccount /\ DefaultSurvives
=============================================================================
