---------------------------- MODULE Idempotency ----------------------------
(***************************************************************************)
(* Idempotency keys: a mutation that a client may send again runs in one   *)
(* transaction with the insertion of its key, and its response is replayed *)
(* from the key's row or from a copy of it in Redis.                       *)
(*                                                                         *)
(* A request stands for its own response: keyRow[k] = r says that the row  *)
(* of k was completed with the response of r.  A key is a key string       *)
(* together with the store and environment that scope it.                  *)
(***************************************************************************)
EXTENDS Integers, FiniteSets

CONSTANTS
  Requests,      \* requests; a client that sends again makes another one
  Keys, KeyOf,   \* the key each request carries
  Fingerprint,   \* its method, path and body
  Direct,        \* requests of the operator desk, which has no interceptor
  MaxExpiries,   \* bound: rows of one key that expire
  NoRequest

ASSUME IdempotencyAssumption ==
  /\ IsFiniteSet(Requests) /\ NoRequest \notin Requests
  /\ KeyOf \in [Requests -> Keys]
  /\ Direct \subseteq Requests
  /\ MaxExpiries \in Nat

VARIABLES
  request,    \* requests: where each is
  keyRow,     \* keys: the request whose response the committed row holds
  keyExpired, \* keys: expiresAt of that row has passed
  inserter,   \* keys: the request whose transaction has inserted the key
  copy,       \* keys: the request whose response Redis holds
  unsaved,    \* requests: the response still to be written to Redis
  answer,     \* requests: the response that was sent
  executed,   \* requests whose operation is committed (history)
  expiries    \* keys: rows that expired (history)

keyVars == <<request, keyRow, keyExpired, inserter, copy, unsaved, answer,
             executed, expiries>>

Responses == Requests \cup {NoRequest}

KeysInit ==
  /\ request = [r \in Requests |-> "new"]
  /\ keyRow = [k \in Keys |-> NoRequest]
  /\ keyExpired = [k \in Keys |-> FALSE]
  /\ inserter = [k \in Keys |-> NoRequest]
  /\ copy = [k \in Keys |-> NoRequest]
  /\ unsaved = [r \in Requests |-> NoRequest]
  /\ answer = [r \in Requests |-> NoRequest]
  /\ executed = {}
  /\ expiries = [k \in Keys |-> 0]

\* A committed row that has not expired.
LiveRow(k) == keyRow[k] # NoRequest /\ ~keyExpired[k]

\* Response x was given to a request like r.
Matches(x, r) == x # NoRequest /\ Fingerprint[x] = Fingerprint[r]

Go(r, place) == request' = [request EXCEPT ![r] = place]

Answer(r, x) == answer' = [answer EXCEPT ![r] = x]

-----------------------------------------------------------------------------
(* The interceptor.                                                        *)

Arrive(r) ==
  /\ request[r] = "new"
  /\ Go(r, IF r \in Direct THEN "reserve" ELSE "redis")
  /\ UNCHANGED <<keyRow, keyExpired, inserter, copy, unsaved, answer, executed, expiries>>

\* Mutant: the answer from the copy is sent, and the handler runs all the same.
RedisHitGoesOn(r) ==
  /\ request[r] = "redis" /\ copy[KeyOf[r]] # NoRequest
  /\ IF Matches(copy[KeyOf[r]], r)
       THEN Go(r, "find") /\ Answer(r, copy[KeyOf[r]])
       ELSE Go(r, "refused") /\ UNCHANGED answer
  /\ UNCHANGED <<keyRow, keyExpired, inserter, copy, unsaved, executed, expiries>>

\* The copy in Redis answers: with the response, or with a conflict when the
\* fingerprints differ.
RedisHit(r) ==
  /\ request[r] = "redis" /\ copy[KeyOf[r]] # NoRequest
  /\ IF Matches(copy[KeyOf[r]], r)
       THEN Go(r, "answered") /\ Answer(r, copy[KeyOf[r]])
       ELSE Go(r, "refused") /\ UNCHANGED answer
  /\ UNCHANGED <<keyRow, keyExpired, inserter, copy, unsaved, executed, expiries>>

\* No copy, or Redis failed: the cache service then returns null.
RedisMiss(r) ==
  /\ request[r] = "redis"
  /\ Go(r, "find")
  /\ UNCHANGED <<keyRow, keyExpired, inserter, copy, unsaved, answer, executed, expiries>>

\* A completed row answers like a copy, and is copied to Redis without
\* waiting for it.
FindCompleted(r) ==
  /\ request[r] = "find"
  /\ LET x == keyRow[KeyOf[r]] IN
       \/ /\ ~LiveRow(KeyOf[r])
          /\ Go(r, "reserve")
          /\ UNCHANGED <<answer, unsaved>>
       \/ /\ LiveRow(KeyOf[r]) /\ ~Matches(x, r)
          /\ Go(r, "refused")
          /\ UNCHANGED <<answer, unsaved>>
       \/ /\ LiveRow(KeyOf[r]) /\ Matches(x, r)
          /\ Go(r, "answered") /\ Answer(r, x)
          /\ unsaved' = [unsaved EXCEPT ![r] = x]
  /\ UNCHANGED <<keyRow, keyExpired, inserter, copy, executed, expiries>>

-----------------------------------------------------------------------------
(* The transaction: reserve the key, run the operation, complete the key.  *)

\* An insertion (and the deletion of an expired row before it) waits for the
\* transaction that holds the key.
KeyFree(k) == inserter[k] = NoRequest

\* A live row of an equal request is replayed, of a different one refused;
\* the code's third case, a row that is not completed, is never committed.
Reserve(r) ==
  /\ request[r] = "reserve" /\ KeyFree(KeyOf[r])
  /\ LET k == KeyOf[r] IN
       \/ /\ ~LiveRow(k)
          /\ inserter' = [inserter EXCEPT ![k] = r]
          /\ Go(r, "operating")
          /\ UNCHANGED unsaved
       \/ /\ LiveRow(k) /\ ~Matches(keyRow[k], r)
          /\ Go(r, "refused")
          /\ UNCHANGED <<inserter, unsaved>>
       \/ /\ LiveRow(k) /\ Matches(keyRow[k], r)
          /\ unsaved' = [unsaved EXCEPT ![r] = keyRow[k]]
          /\ Go(r, "caching")
          /\ UNCHANGED inserter
  /\ UNCHANGED <<keyRow, keyExpired, copy, answer, executed, expiries>>

\* The operation throws, the transaction times out or the process dies.
Rollback(r) ==
  /\ request[r] = "operating"
  /\ inserter' = [inserter EXCEPT ![KeyOf[r]] = NoRequest]
  /\ Go(r, "failed")
  /\ UNCHANGED <<keyRow, keyExpired, copy, unsaved, answer, executed, expiries>>

CommitOperation(r) ==
  /\ request[r] = "operating"
  /\ keyRow' = [keyRow EXCEPT ![KeyOf[r]] = r]
  /\ keyExpired' = [keyExpired EXCEPT ![KeyOf[r]] = FALSE]
  /\ inserter' = [inserter EXCEPT ![KeyOf[r]] = NoRequest]
  /\ executed' = executed \cup {r}
  /\ unsaved' = [unsaved EXCEPT ![r] = r]
  /\ Go(r, "caching")
  /\ UNCHANGED <<copy, answer, expiries>>

-----------------------------------------------------------------------------
(* After the transaction.                                                  *)

Sent(r) ==
  /\ unsaved' = [unsaved EXCEPT ![r] = NoRequest]
  /\ Go(r, "answered")
  /\ Answer(r, unsaved[r])
  /\ UNCHANGED <<keyRow, keyExpired, inserter, executed, expiries>>

\* The response is copied to Redis and sent. A request that FindCompleted
\* answered only has the copying left, and it may come late.
CopyToRedis(r) ==
  /\ unsaved[r] # NoRequest
  /\ copy' = [copy EXCEPT ![KeyOf[r]] = unsaved[r]]
  /\ Sent(r)

\* Redis fails, which is logged and ignored.
CopyFails(r) ==
  /\ unsaved[r] # NoRequest
  /\ Sent(r)
  /\ UNCHANGED copy

\* The process dies, or the database fails outside of the transaction.
RequestDies(r) ==
  /\ request[r] \in {"redis", "find", "reserve", "caching"}
  /\ unsaved' = [unsaved EXCEPT ![r] = NoRequest]
  /\ Go(r, "failed")
  /\ UNCHANGED <<keyRow, keyExpired, inserter, copy, answer, executed, expiries>>

-----------------------------------------------------------------------------
(* Time: the TTL of the row, its daily cleanup, the TTL of the copy.       *)

RowExpires(k) ==
  /\ LiveRow(k) /\ expiries[k] < MaxExpiries
  /\ keyExpired' = [keyExpired EXCEPT ![k] = TRUE]
  /\ expiries' = [expiries EXCEPT ![k] = @ + 1]
  /\ UNCHANGED <<request, keyRow, inserter, copy, unsaved, answer, executed>>

CleanUp(k) ==
  /\ keyRow[k] # NoRequest /\ keyExpired[k] /\ inserter[k] = NoRequest
  /\ keyRow' = [keyRow EXCEPT ![k] = NoRequest]
  /\ UNCHANGED <<request, keyExpired, inserter, copy, unsaved, answer, executed, expiries>>

CopyExpires(k) ==
  /\ copy[k] # NoRequest
  /\ copy' = [copy EXCEPT ![k] = NoRequest]
  /\ UNCHANGED <<request, keyRow, keyExpired, inserter, unsaved, answer, executed, expiries>>

-----------------------------------------------------------------------------
RequestStep(r) ==
  \/ RedisHit(r) \/ RedisMiss(r) \/ FindCompleted(r)
  \/ Reserve(r) \/ CommitOperation(r) \/ Rollback(r)
  \/ CopyToRedis(r) \/ CopyFails(r)

KeysNext ==
  \/ \E r \in Requests : Arrive(r) \/ RequestStep(r) \/ RequestDies(r)
  \/ \E k \in Keys : RowExpires(k) \/ CleanUp(k) \/ CopyExpires(k)

\* A request that has arrived goes on unless its process dies: each of its
\* steps returns, fails or times out.
KeysFairness == \A r \in Requests : WF_keyVars(RequestStep(r))

KeysSpec == KeysInit /\ [][KeysNext]_keyVars
KeysFairSpec == KeysSpec /\ KeysFairness

-----------------------------------------------------------------------------
(* Properties.                                                             *)

\* Every variable stays within its type.
KeysTypeOK ==
  /\ request \in [Requests -> {"new", "redis", "find", "reserve", "operating",
                               "caching", "answered", "refused", "failed"}]
  /\ keyRow \in [Keys -> Responses]
  /\ keyExpired \in [Keys -> BOOLEAN]
  /\ inserter \in [Keys -> Responses]
  /\ copy \in [Keys -> Responses]
  /\ unsaved \in [Requests -> Responses]
  /\ answer \in [Requests -> Responses]
  /\ executed \subseteq Requests
  /\ expiries \in [Keys -> 0 .. MaxExpiries]

ExecutedWith(k) == {r \in executed : KeyOf[r] = k}

\* However requests with one key race, fail, are sent again or meet the
\* cleanup, at most one operation is committed in each lifetime of the key's
\* row (reserve and complete share the operation's transaction).
OncePerLifetime ==
  \A k \in Keys : Cardinality(ExecutedWith(k)) <= expiries[k] + 1

\* Whoever is answered, from the row, from Redis or first hand, gets the
\* response of a committed operation, asked for with the same key and
\* the same fingerprint: a replay never reports what was rolled back.
AnswersAreTrue ==
  \A r \in Requests : answer[r] # NoRequest =>
    /\ answer[r] \in executed
    /\ KeyOf[answer[r]] = KeyOf[r]
    /\ Fingerprint[answer[r]] = Fingerprint[r]

\* A mutation sent again runs once and is answered with its own response.
Idempotent == OncePerLifetime /\ AnswersAreTrue

\* What a key stands for while its row lives.
Remembered == [k \in Keys |-> IF LiveRow(k) THEN keyRow[k] ELSE NoRequest]

Mutations == INSTANCE MutationContract WITH remembered <- Remembered

\* And so, step by step: an operation is committed only when the key stands
\* for nothing, nothing that is committed is committed again, and an answer
\* that was given is never replaced by another.
MutationsKeepPromise == []Idempotent /\ Mutations!Spec

\* No request waits for ever for the transaction that holds its key.
RequestsEnd ==
  \A r \in Requests :
    request[r] = "reserve" ~> request[r] \in {"answered", "refused", "failed"}
=============================================================================
