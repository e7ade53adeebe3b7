------------------------------ MODULE Sessions ------------------------------
(***************************************************************************)
(* The sessions of one merchant over its stores: login, refresh, switches  *)
(* of environment and store, logout, and the desk's decisions on a store   *)
(* meanwhile.  A refresh locks its token and then the merchant; the others *)
(* lock the merchant and then delete the token.                            *)
(*                                                                         *)
(* merchant_id is unique in refresh_tokens, so there is one refresh token  *)
(* at a time.  Of the access tokens, which nothing revokes, only those for *)
(* LIVE are kept; a caller always has one for TEST.                        *)
(***************************************************************************)
EXTENDS LiveEnablement

CONSTANTS Calls, NoCall

ASSUME CallAssumption == NoCall \notin Calls /\ NoCall \notin Stores

VARIABLES
  merchant,     \* current store and environment
  token,        \* the refresh token
  liveTokens,   \* stores with a LIVE access token that has not expired
  merchantLock, tokenLock, \* the calls that hold these row locks
  call          \* calls: see CallRecords

rows == <<merchant, token, liveTokens>>
locks == <<merchantLock, tokenLock>>
sessVars == <<rows, locks, call>>

Environments == {"TEST", "LIVE"}
Contexts == [store : Stores, env : Environments]

\* Create-store is a switch to a store that nobody has switched to before.
UseCases ==
  [name : {"login", "refresh", "logout"}] \cup
  [name : {"environment"}, env : Environments] \cup
  [name : {"store"}, store : Stores]

Login == [name |-> "login"]
NoContext == [store |-> NoCall, env |-> "TEST"]

\* Where a call is; the use case; the store and environment it will issue;
\* whether the token it presented or read is still the row in the table.
CallRecords ==
  [at : {"idle", "lockToken", "lockMerchant", "resolve", "issue", "revoke"},
   use : UseCases, grant : Contexts \cup {NoContext}, fresh : BOOLEAN]

Idle == [at |-> "idle", use |-> Login, grant |-> NoContext, fresh |-> FALSE]

SessionsInit ==
  /\ \E s \in Stores : merchant = [store |-> s, env |-> "TEST"]
  /\ token = "none"
  /\ liveTokens = {}
  /\ merchantLock = NoCall /\ tokenLock = NoCall
  /\ call = [c \in Calls |-> Idle]

-----------------------------------------------------------------------------
(* Locks and the end of a call.                                            *)

Step(c, place) == call' = [call EXCEPT ![c].at = place]

Free(lock, c) == lock \in {NoCall, c}

\* Mutant: the token stays locked when the transaction ends.
ReleaseMerchant(c) ==
  /\ merchantLock' = IF merchantLock = c THEN NoCall ELSE merchantLock
  /\ UNCHANGED tokenLock

Release(c) ==
  /\ merchantLock' = IF merchantLock = c THEN NoCall ELSE merchantLock
  /\ tokenLock' = IF tokenLock = c THEN NoCall ELSE tokenLock

\* The transaction is rolled back: refused, timed out or the victim of a
\* deadlock.
RollBack(c) ==
  /\ call' = [call EXCEPT ![c] = Idle]
  /\ Release(c)
  /\ UNCHANGED rows

-----------------------------------------------------------------------------
(* Beginning a call.                                                       *)

\* Any use case that locks the merchant first.
BeginMerchantCall(c) ==
  /\ call[c] = Idle
  /\ \E u \in UseCases :
       /\ u.name \in {"login", "environment", "store"}
       /\ call' = [call EXCEPT ![c] = [Idle EXCEPT !.at = "lockMerchant", !.use = u]]
  /\ UNCHANGED <<rows, locks>>

\* A refresh presents the current token; what it presented may be replaced
\* before it comes to look for it.
BeginRefresh(c) ==
  /\ call[c] = Idle /\ token # "none"
  /\ call' = [call EXCEPT ![c] =
       [Idle EXCEPT !.at = "lockToken", !.use = [name |-> "refresh"], !.fresh = TRUE]]
  /\ UNCHANGED <<rows, locks>>

\* Logout reads the token without a lock, and is done if there is none left.
BeginLogout(c) ==
  /\ call[c] = Idle /\ token \in {"valid", "expired"}
  /\ call' = [call EXCEPT ![c] =
       [Idle EXCEPT !.at = "revoke", !.use = [name |-> "logout"], !.fresh = TRUE]]
  /\ UNCHANGED <<rows, locks>>

-----------------------------------------------------------------------------
(* RefreshToken, Login, SwitchEnvironment, SwitchStore and CreateStore.    *)

\* Mutant: the token is read without FOR UPDATE.
ReadToken(c) ==
  /\ call[c].at = "lockToken"
  /\ call[c].fresh /\ token = "valid"
  /\ Step(c, "lockMerchant")
  /\ UNCHANGED <<rows, locks>>

\* A refresh locks the token it presented.
LockToken(c) ==
  /\ call[c].at = "lockToken" /\ Free(tokenLock, c)
  /\ call[c].fresh /\ token = "valid"
  /\ tokenLock' = c
  /\ Step(c, "lockMerchant")
  /\ UNCHANGED <<rows, merchantLock>>

\* The token is gone, revoked or expired.
RefuseRefresh(c) ==
  /\ call[c].at = "lockToken" /\ Free(tokenLock, c)
  /\ ~(call[c].fresh /\ token = "valid")
  /\ RollBack(c)

LockMerchant(c) ==
  /\ call[c].at = "lockMerchant" /\ Free(merchantLock, c)
  /\ merchantLock' = c
  /\ Step(c, "resolve")
  /\ UNCHANGED <<rows, tokenLock>>

\* Mutant: a refresh and a login carry the stored environment on.
CarryEnvironment == merchant

\* resolveSessionEnvironment: LIVE is kept only while the store has it.
ReconferEnvironment ==
  [merchant EXCEPT !.env =
     IF @ = "LIVE" /\ LiveEnabled(merchant.store) THEN "LIVE" ELSE "TEST"]

\* Mutant: switching the store keeps the environment.
CarryToStore(s) == [merchant EXCEPT !.store = s]

SwitchedToStore(s) == [store |-> s, env |-> "TEST"]

\* What the call will issue, from the store read without a lock. LIVE is
\* refused to a store that does not have it.
Resolve(c) ==
  LET use == call[c].use
      Grant(context) ==
        call' = [call EXCEPT ![c].at = "issue", ![c].grant = context]
  IN /\ call[c].at = "resolve"
     /\ \/ use.name \in {"login", "refresh"} /\ Grant(ReconferEnvironment)
        \/ use.name = "store" /\ Grant(SwitchedToStore(use.store))
        \/ /\ use.name = "environment"
           /\ use.env = "LIVE" => LiveEnabled(merchant.store)
           /\ Grant([merchant EXCEPT !.env = use.env])
     /\ UNCHANGED <<rows, locks>>

RefuseLive(c) ==
  /\ call[c].at = "resolve" /\ call[c].use = [name |-> "environment", env |-> "LIVE"]
  /\ ~LiveEnabled(merchant.store)
  /\ RollBack(c)

\* The merchant is updated, its refresh token deleted, which waits for the
\* token's row lock, and a new one created; the access token is handed out.
IssueTokens(c) ==
  /\ call[c].at = "issue" /\ Free(tokenLock, c)
  /\ merchant' = call[c].grant
  /\ token' = "valid"
  /\ liveTokens' = IF merchant'.env = "LIVE"
                     THEN liveTokens \cup {merchant'.store} ELSE liveTokens
  /\ Release(c)
  /\ call' = [d \in Calls |->
       IF d = c THEN Idle ELSE [call[d] EXCEPT !.fresh = FALSE]]

-----------------------------------------------------------------------------
(* Logout, and faults.                                                     *)

\* Logout revokes the row it read; if that was replaced meanwhile, the update
\* fails and the new token stays.
Revoke(c) ==
  /\ call[c].at = "revoke" /\ Free(tokenLock, c)
  /\ token' = IF call[c].fresh THEN "revoked" ELSE token
  /\ call' = [call EXCEPT ![c] = Idle]
  /\ UNCHANGED <<merchant, liveTokens, locks>>

\* c waits for a lock of d, and d for one of c.
Deadlocked(c, d) ==
  /\ call[c].at = "lockMerchant" /\ merchantLock = d
  /\ call[d].at = "issue" /\ tokenLock = c

\* Postgres rolls back one of the two.
BreakDeadlock(c) ==
  /\ \E d \in Calls : Deadlocked(c, d) \/ Deadlocked(d, c)
  /\ RollBack(c)

\* The transaction times out, the database fails or the process dies.
AbortCall(c) == call[c] # Idle /\ RollBack(c)

AccessTokenExpires(s) ==
  /\ s \in liveTokens
  /\ liveTokens' = liveTokens \ {s}
  /\ UNCHANGED <<merchant, token, locks, call>>

RefreshTokenExpires ==
  /\ token = "valid"
  /\ token' = "expired"
  /\ UNCHANGED <<merchant, liveTokens, locks, call>>

\* A request or a decision on a store, its locked transaction as one step.
DecideStore(s) ==
  /\ \E kind \in Decisions :
       /\ row[s].live \in From(kind)
       /\ row' = [row EXCEPT ![s].live = To(kind)]
  /\ record' = [record EXCEPT ![s].live = row'[s].live]
  /\ UNCHANGED <<overwritten, storeLock, editVars, moneyVars>>

-----------------------------------------------------------------------------
CallStep(c) ==
  \/ LockToken(c) \/ RefuseRefresh(c) \/ LockMerchant(c)
  \/ Resolve(c) \/ RefuseLive(c) \/ IssueTokens(c) \/ Revoke(c) \/ BreakDeadlock(c)

SessionsNext ==
  \/ /\ \/ \E c \in Calls :
             \/ BeginMerchantCall(c) \/ BeginRefresh(c) \/ BeginLogout(c)
             \/ CallStep(c) \/ AbortCall(c)
        \/ \E s \in Stores : AccessTokenExpires(s)
        \/ RefreshTokenExpires
     /\ UNCHANGED liveVars
  \/ (\E e \in Editors : DecideStore(EditorStore[e])) /\ UNCHANGED sessVars

\* Row locks are granted in turn, so a call that waits for one is served, and
\* access tokens expire.
SessionsFairness ==
  /\ \A c \in Calls : SF_sessVars(CallStep(c))
  /\ \A s \in Stores : WF_sessVars(AccessTokenExpires(s))

SessionsSpec ==
  LiveInit /\ SessionsInit /\ [][SessionsNext]_<<liveVars, sessVars>>
SessionsFairSpec == SessionsSpec /\ SessionsFairness

-----------------------------------------------------------------------------
(* Properties.                                                             *)

\* Every variable stays within its type.
SessionsTypeOK ==
  /\ merchant \in Contexts
  /\ token \in {"none", "valid", "revoked", "expired"}
  /\ liveTokens \subseteq Stores
  /\ merchantLock \in Calls \cup {NoCall} /\ tokenLock \in Calls \cup {NoCall}
  /\ call \in [Calls -> CallRecords]

OnceApproved == {s \in Stores : row[s].live \in {"APPROVED", "SUSPENDED"}}

\* No path of switches, logins and refreshes, overlapping or not, leads to a
\* LIVE session or access token of a store that the desk never approved.
LiveWasApproved ==
  /\ liveTokens \subseteq OnceApproved
  /\ merchant.env = "LIVE" => merchant.store \in OnceApproved

\* A logout that revoked the token is final for refreshes, the ones under way
\* included: only a login or a switch opens the session again.
LogoutHolds ==
  [][token = "revoked" /\ token' = "valid" =>
       \E c \in Calls : /\ call[c].at = "issue" /\ call'[c] = Idle
                        /\ call[c].use.name # "refresh"]_sessVars

\* Once the desk has closed LIVE for good, the last LIVE access token expires
\* and is not renewed, although the merchant keeps refreshing.
LiveSessionsEnd ==
  \A s \in Stores :
    <>[](row[s].live # "APPROVED") => <>[](s \notin liveTokens)

\* No call waits for ever, although refreshes and switches lock the token and
\* the merchant in opposite orders.
CallsEnd == \A c \in Calls : call[c] # Idle ~> call[c] = Idle
=============================================================================
