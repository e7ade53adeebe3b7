---------------------------- MODULE OperatorDesk ----------------------------
(***************************************************************************)
(* One operator of the desk: the sessions they open, which end when they   *)
(* are deactivated, and the money they move for a store, each movement     *)
(* with its line on the audit trail.  As for a merchant, a refresh locks   *)
(* the token and then the operator, a login the operator and then the      *)
(* token.  Nothing in the code deactivates an operator: it is done on the  *)
(* database.                                                               *)
(***************************************************************************)
EXTENDS Integers, Sequences

CONSTANTS
  DeskCalls,   \* requests of the operator
  NoDeskCall,
  MaxFunds,    \* bound: funds of the store
  MaxMoves     \* bound: movements by the desk

ASSUME DeskAssumption ==
  NoDeskCall \notin DeskCalls /\ MaxFunds \in Nat /\ MaxMoves \in Nat

VARIABLES
  opActive,     \* Operator.isActive
  opToken,      \* the one refresh token of the operator
  opAccess,     \* an access token of theirs is still good
  opLock, opTokenLock, \* row locks
  funds, fundsLock,    \* Account.available of the store, and its row lock
  trail,        \* before and after of the desk's lines
  moves,        \* balances the desk's movements really led from and to (history)
  deskCall      \* calls: where each is

opVars == <<opActive, opToken, opAccess, opLock, opTokenLock>>
fundVars == <<funds, fundsLock, trail, moves>>
deskVars == <<opVars, fundVars, deskCall>>

\* known: the token a call presented or read is still the current one.
DeskCallRecords ==
  [at : {"idle", "lockOperator", "lockToken", "rotating", "revoking", "moving"},
   use : {"login", "refresh", "logout", "money", "none"},
   known : BOOLEAN, before : 0 .. MaxFunds]

\* Lines of the trail: a balance before and after.
Lines == (0 .. MaxFunds) \X (0 .. MaxFunds)

NoUse == [at |-> "idle", use |-> "none", known |-> FALSE, before |-> 0]

DeskInit ==
  /\ opActive = TRUE /\ opToken = "none" /\ opAccess = FALSE
  /\ opLock = NoDeskCall /\ opTokenLock = NoDeskCall
  /\ funds \in 0 .. MaxFunds /\ fundsLock = NoDeskCall
  /\ trail = <<>> /\ moves = <<>>
  /\ deskCall = [k \in DeskCalls |-> NoUse]

Place(k, where) == deskCall' = [deskCall EXCEPT ![k].at = where]

Begin(k, use, where) ==
  /\ deskCall[k] = NoUse
  /\ deskCall' = [deskCall EXCEPT
       ![k] = [NoUse EXCEPT !.at = where, !.use = use, !.known = opToken # "none"]]

Unlocked(lock, k) == IF lock = k THEN NoDeskCall ELSE lock

\* The transaction of k ends without effect.
DeskRollback(k) ==
  /\ deskCall[k].at # "idle"
  /\ deskCall' = [deskCall EXCEPT ![k] = NoUse]
  /\ opLock' = Unlocked(opLock, k) /\ opTokenLock' = Unlocked(opTokenLock, k)
  /\ fundsLock' = Unlocked(fundsLock, k)
  /\ UNCHANGED <<opActive, opToken, opAccess, funds, trail, moves>>

-----------------------------------------------------------------------------
(* Sessions of the operator.                                               *)

\* The password is verified, and the operator is active when first read.
OperatorLogin(k) ==
  /\ opActive
  /\ Begin(k, "login", "lockOperator")
  /\ UNCHANGED <<opVars, fundVars>>

OperatorRefresh(k) ==
  /\ opToken # "none"
  /\ Begin(k, "refresh", "lockToken")
  /\ UNCHANGED <<opVars, fundVars>>

\* Mutant: the presented token is read without its lock.
ReadOpToken(k) ==
  /\ deskCall[k].at = "lockToken"
  /\ opToken = "valid" /\ deskCall[k].known
  /\ Place(k, "lockOperator")
  /\ UNCHANGED <<opVars, fundVars>>

LockOpToken(k) ==
  /\ deskCall[k].at = "lockToken" /\ opTokenLock = NoDeskCall
  /\ opToken = "valid" /\ deskCall[k].known
  /\ opTokenLock' = k
  /\ Place(k, "lockOperator")
  /\ UNCHANGED <<opActive, opToken, opAccess, opLock, fundVars>>

MayLogin(k) == opActive

\* Who is no longer active is refused: DeskRollback. The revocation of the token
\* by the refresh goes with it.
LockOperator(k) ==
  /\ deskCall[k].at = "lockOperator" /\ opLock = NoDeskCall
  /\ MayLogin(k)
  /\ opLock' = k
  /\ Place(k, "rotating")
  /\ UNCHANGED <<opActive, opToken, opAccess, opTokenLock, fundVars>>

\* The old token is deleted, once nobody else has its lock, and a new one
\* created.
RotateOpToken(k) ==
  /\ deskCall[k].at = "rotating" /\ opTokenLock \in {NoDeskCall, k}
  /\ opToken' = "valid" /\ opAccess' = TRUE
  /\ opLock' = NoDeskCall /\ opTokenLock' = NoDeskCall
  /\ deskCall' = [j \in DeskCalls |->
       IF j = k THEN NoUse ELSE [deskCall[j] EXCEPT !.known = FALSE]]
  /\ UNCHANGED <<opActive, fundVars>>

\* The token is read without a lock; with none that is open the call is over.
OperatorLogout(k) ==
  /\ opAccess /\ opToken \in {"valid", "expired"}
  /\ Begin(k, "logout", "revoking")
  /\ UNCHANGED <<opVars, fundVars>>

\* The row is updated by its id: one that was replaced is not there.
RevokeOpToken(k) ==
  /\ deskCall[k].at = "revoking" /\ opTokenLock = NoDeskCall
  /\ deskCall[k].known
  /\ opToken' = "revoked"
  /\ deskCall' = [deskCall EXCEPT ![k] = NoUse]
  /\ UNCHANGED <<opActive, opAccess, opLock, opTokenLock, fundVars>>

\* Access ends with its 15 minutes, and the refresh token expires.
OpTokensExpire ==
  /\ \/ opAccess' = FALSE /\ UNCHANGED opToken
     \/ opToken = "valid" /\ opToken' = "expired" /\ UNCHANGED opAccess
  /\ UNCHANGED <<opActive, opLock, opTokenLock, fundVars, deskCall>>

\* By hand, on the database.
SetActive ==
  /\ opLock = NoDeskCall
  /\ opActive' = ~opActive
  /\ UNCHANGED <<opToken, opAccess, opLock, opTokenLock, fundVars, deskCall>>

-----------------------------------------------------------------------------
(* Money moved by the desk, and by others.                                 *)

\* Mutant: what the line says was there before is read without the lock.
GlanceBefore(k) ==
  /\ opAccess /\ deskCall[k] = NoUse
  /\ deskCall' = [deskCall EXCEPT
       ![k] = [NoUse EXCEPT !.at = "moving", !.use = "money", !.before = funds]]
  /\ UNCHANGED <<opVars, fundVars>>

ReadBefore(k) ==
  /\ opAccess /\ deskCall[k] = NoUse /\ fundsLock = NoDeskCall
  /\ fundsLock' = k
  /\ deskCall' = [deskCall EXCEPT
       ![k] = [NoUse EXCEPT !.at = "moving", !.use = "money", !.before = funds]]
  /\ UNCHANGED <<opVars, funds, trail, moves>>

\* The merchant's own use case moves the money, in the transaction of the line.
MoveAndRecord(k) ==
  /\ deskCall[k].at = "moving" /\ fundsLock \in {NoDeskCall, k}
  /\ funds > 0 /\ Len(moves) < MaxMoves
  /\ funds' = funds - 1
  /\ moves' = Append(moves, <<funds, funds'>>)
  /\ trail' = Append(trail, <<deskCall[k].before, funds'>>)
  /\ fundsLock' = NoDeskCall
  /\ deskCall' = [deskCall EXCEPT ![k] = NoUse]
  /\ UNCHANGED opVars

\* The merchant, the worker and the payers, who lock the account as well.
OthersMove ==
  /\ fundsLock = NoDeskCall
  /\ \E change \in {-1, 1} :
       funds + change \in 0 .. MaxFunds /\ funds' = funds + change
  /\ UNCHANGED <<opVars, fundsLock, trail, moves, deskCall>>

-----------------------------------------------------------------------------
DeskNext ==
  \/ OpTokensExpire \/ SetActive \/ OthersMove
  \/ \E k \in DeskCalls :
       \/ OperatorLogin(k) \/ OperatorRefresh(k) \/ OperatorLogout(k)
       \/ LockOpToken(k) \/ LockOperator(k) \/ RotateOpToken(k) \/ RevokeOpToken(k)
       \/ ReadBefore(k) \/ MoveAndRecord(k) \/ DeskRollback(k)

DeskSpec == DeskInit /\ [][DeskNext]_deskVars

-----------------------------------------------------------------------------
(* Properties.                                                             *)

\* Every variable stays within its type.
DeskTypeOK ==
  /\ opActive \in BOOLEAN /\ opAccess \in BOOLEAN
  /\ opToken \in {"none", "valid", "revoked", "expired"}
  /\ opLock \in DeskCalls \cup {NoDeskCall} /\ opTokenLock \in DeskCalls \cup {NoDeskCall}
  /\ funds \in 0 .. MaxFunds /\ fundsLock \in DeskCalls \cup {NoDeskCall}
  /\ trail \in Seq(Lines) /\ moves \in Seq(Lines)
  /\ deskCall \in [DeskCalls -> DeskCallRecords]

\* A line of the trail tells the balances its movement really led from and
\* to, whoever moved money between the desk's request and its transaction.
TrailIsExact == trail = moves

\* Whoever is deactivated gets no new access, although the login had found
\* them active or their session is still open.
DeactivatedIsOut == [][opAccess' /\ ~opAccess => opActive]_deskVars

\* A session that a logout closed is opened again by a login only, never by a
\* refresh that was under way.
OpenedByLogin ==
  opToken = "revoked" /\ opToken' = "valid" =>
    \E k \in DeskCalls : deskCall[k].use = "login" /\ deskCall'[k] = NoUse

ClosedUntilLogin == [][OpenedByLogin]_deskVars

\* Access is handed out as the operator's row and session have it by then,
\* whatever a request found before.
AccessIsGranted == DeactivatedIsOut /\ ClosedUntilLogin
=============================================================================
