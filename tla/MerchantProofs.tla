---------------------------- MODULE MerchantProofs ----------------------------
(***************************************************************************)
(* What a merchant and its integration rely on, for any calls, requests,   *)
(* payments, days and accounts: a mutation is executed once and answered   *)
(* truly, a checkout session makes one payment at most, receipts are       *)
(* numbered without a gap, and no race loses a bank account.               *)
(***************************************************************************)
EXTENDS Idempotency, CheckoutSession, Receipts, BankAccounts, FiniteSetTheorems,
        TLAPS

-----------------------------------------------------------------------------
(* Idempotency.                                                            *)

\* Response x is that of a committed operation, asked for like r.
TrueFor(x, r) ==
  /\ x \in executed /\ KeyOf[x] = KeyOf[r] /\ Fingerprint[x] = Fingerprint[r]

\* The open transaction of a key is that of the request at its operation, and
\* was begun when no row was live.
KeyHolders ==
  /\ \A k \in Keys : inserter[k] # NoRequest =>
       /\ KeyOf[inserter[k]] = k /\ request[inserter[k]] = "operating"
       /\ ~LiveRow(k)
  /\ \A r \in Requests : request[r] = "operating" => inserter[KeyOf[r]] = r

\* Rows and copies hold responses of committed operations with their key.
StoredAreTrue ==
  \A k \in Keys :
    /\ keyRow[k] # NoRequest => keyRow[k] \in executed /\ KeyOf[keyRow[k]] = k
    /\ copy[k] # NoRequest => copy[k] \in executed /\ KeyOf[copy[k]] = k

\* So do the responses that are still to be sent or copied.
UnsavedAreTrue ==
  \A r \in Requests : unsaved[r] # NoRequest => TrueFor(unsaved[r], r)

\* Only a request whose transaction is over has a response to send or copy.
SendersAreDone ==
  \A r \in Requests : unsaved[r] # NoRequest => request[r] \in {"caching", "answered"}

\* Executions with a key are paid for by its expiries and its live row.
Paid ==
  /\ IsFiniteSet(executed)
  /\ \A k \in Keys :
       Cardinality(ExecutedWith(k)) <= expiries[k] + (IF LiveRow(k) THEN 1 ELSE 0)

KeysInv ==
  /\ KeysTypeOK /\ SendersAreDone /\ KeyHolders /\ Paid
  /\ StoredAreTrue /\ UnsavedAreTrue /\ AnswersAreTrue

\* Each step writes values of the types of the variables.
LEMMA KeysTypeStep == KeysTypeOK /\ [KeysNext]_keyVars => KeysTypeOK'
<1> SUFFICES ASSUME KeysTypeOK, [KeysNext]_keyVars PROVE KeysTypeOK'
  OBVIOUS
<1> USE IdempotencyAssumption DEF KeysTypeOK, Responses, Go, Answer
<1>1. ASSUME NEW r \in Requests, Arrive(r) PROVE KeysTypeOK'
  BY <1>1 DEF Arrive
<1>2. ASSUME NEW r \in Requests, RequestStep(r) PROVE KeysTypeOK'
  <2>1. CASE RedisHit(r) BY <2>1 DEF RedisHit
  <2>2. CASE RedisMiss(r) BY <2>2 DEF RedisMiss
  <2>3. CASE FindCompleted(r) BY <2>3 DEF FindCompleted
  <2>4. CASE Reserve(r) BY <2>4 DEF Reserve
  <2>5. CASE CommitOperation(r) BY <2>5 DEF CommitOperation
  <2>6. CASE Rollback(r) BY <2>6 DEF Rollback
  <2>7. CASE CopyToRedis(r) BY <2>7 DEF CopyToRedis, Sent
  <2>8. CASE CopyFails(r) BY <2>8 DEF CopyFails, Sent
  <2> QED BY <1>2, <2>1, <2>2, <2>3, <2>4, <2>5, <2>6, <2>7, <2>8 DEF RequestStep
<1>3. ASSUME NEW r \in Requests, RequestDies(r) PROVE KeysTypeOK'
  BY <1>3 DEF RequestDies
<1>4. ASSUME NEW k \in Keys, RowExpires(k) PROVE KeysTypeOK'
  BY <1>4 DEF RowExpires
<1>5. ASSUME NEW k \in Keys, CleanUp(k) PROVE KeysTypeOK'
  BY <1>5 DEF CleanUp
<1>6. ASSUME NEW k \in Keys, CopyExpires(k) PROVE KeysTypeOK'
  BY <1>6 DEF CopyExpires
<1>7. CASE UNCHANGED keyVars
  BY <1>7 DEF keyVars
<1> QED BY <1>1, <1>2, <1>3, <1>4, <1>5, <1>6, <1>7 DEF KeysNext

\* A sender that is done keeps its answer.
LEMMA SendersStep ==
  KeysTypeOK /\ SendersAreDone /\ [KeysNext]_keyVars => SendersAreDone'
<1> SUFFICES ASSUME KeysTypeOK, SendersAreDone, [KeysNext]_keyVars, NEW q \in Requests
             PROVE  unsaved'[q] # NoRequest => request'[q] \in {"caching", "answered"}
  BY DEF SendersAreDone
<1> USE DEF KeysTypeOK, SendersAreDone, Go
<1>1. ASSUME NEW r \in Requests, Arrive(r) \/ RequestDies(r) PROVE
        unsaved'[q] # NoRequest => request'[q] \in {"caching", "answered"}
  BY <1>1 DEF Arrive, RequestDies
<1>2. ASSUME NEW r \in Requests, RequestStep(r) PROVE
        unsaved'[q] # NoRequest => request'[q] \in {"caching", "answered"}
  BY <1>2 DEF RequestStep, RedisHit, RedisMiss, FindCompleted, Reserve, CommitOperation,
              Rollback, CopyToRedis, CopyFails, Sent
<1>3. ASSUME NEW k \in Keys, RowExpires(k) \/ CleanUp(k) \/ CopyExpires(k) PROVE
        unsaved'[q] # NoRequest => request'[q] \in {"caching", "answered"}
  BY <1>3 DEF RowExpires, CleanUp, CopyExpires
<1>4. CASE UNCHANGED keyVars
  BY <1>4 DEF keyVars
<1> QED BY <1>1, <1>2, <1>3, <1>4 DEF KeysNext

\* One step of a request keeps the invariant: each kind of step disturbs at
\* most its own row, copy, response and count.
LEMMA KeysStep == KeysInv /\ [KeysNext]_keyVars => KeysInv'
<1> SUFFICES ASSUME KeysInv, [KeysNext]_keyVars PROVE KeysInv'
  OBVIOUS
<1> USE IdempotencyAssumption DEF KeysInv
<1>1. KeysTypeOK' /\ SendersAreDone'
  BY KeysTypeStep, SendersStep
<1> DEFINE Others == KeyHolders' /\ StoredAreTrue' /\ UnsavedAreTrue' /\ AnswersAreTrue' /\ Paid'
<1>2. ASSUME NEW r \in Requests, request'[r] # "operating", request[r] # "operating",
             \A q \in Requests \ {r} : request'[q] = request[q],
             UNCHANGED <<keyRow, keyExpired, inserter, executed, expiries>>
      PROVE  KeyHolders' /\ Paid'
  BY <1>2 DEF KeyHolders, Paid, LiveRow, ExecutedWith, KeysTypeOK, Responses
<1>3. ASSUME NEW r \in Requests, Arrive(r) PROVE Others
  <2>1. KeyHolders' /\ Paid'
    BY <1>2, <1>3 DEF Arrive, Go, KeysTypeOK
  <2> QED BY <2>1, <1>3 DEF Arrive, StoredAreTrue, UnsavedAreTrue, AnswersAreTrue, TrueFor
<1>4. ASSUME NEW r \in Requests, RedisHit(r) PROVE Others
  <2>1. KeyHolders' /\ Paid'
    BY <1>2, <1>4 DEF RedisHit, Go, KeysTypeOK
  <2>2. AnswersAreTrue'
    BY <1>4 DEF RedisHit, Answer, Matches, AnswersAreTrue, StoredAreTrue, KeysTypeOK, Responses
  <2> QED BY <2>1, <2>2, <1>4 DEF RedisHit, StoredAreTrue, UnsavedAreTrue, TrueFor
<1>5. ASSUME NEW r \in Requests, RedisMiss(r) PROVE Others
  <2>1. KeyHolders' /\ Paid'
    BY <1>2, <1>5 DEF RedisMiss, Go, KeysTypeOK
  <2> QED BY <2>1, <1>5 DEF RedisMiss, StoredAreTrue, UnsavedAreTrue, AnswersAreTrue, TrueFor
<1>6. ASSUME NEW r \in Requests, FindCompleted(r) PROVE Others
  <2>1. KeyHolders' /\ Paid'
    BY <1>2, <1>6 DEF FindCompleted, Go, KeysTypeOK
  <2>2. AnswersAreTrue' /\ UnsavedAreTrue'
    BY <1>6 DEF FindCompleted, Answer, Matches, AnswersAreTrue, StoredAreTrue, UnsavedAreTrue,
                TrueFor, LiveRow, KeysTypeOK, Responses
  <2> QED BY <2>1, <2>2, <1>6 DEF FindCompleted, StoredAreTrue
<1>7. ASSUME NEW r \in Requests, Reserve(r) PROVE Others
  <2>1. KeyHolders'
    BY <1>7 DEF Reserve, Go, KeyFree, KeyHolders, LiveRow, KeysTypeOK, Responses
  <2>2. UnsavedAreTrue'
    BY <1>7 DEF Reserve, Matches, StoredAreTrue, UnsavedAreTrue, TrueFor, KeysTypeOK, Responses
  <2> QED BY <2>1, <2>2, <1>7
          DEF Reserve, StoredAreTrue, AnswersAreTrue, Paid, LiveRow, ExecutedWith
<1>8. ASSUME NEW r \in Requests, CommitOperation(r) PROVE Others
  <2>1. KeyHolders'
    BY <1>8 DEF CommitOperation, Go, KeyHolders, LiveRow, KeysTypeOK, Responses
  <2>2. StoredAreTrue' /\ UnsavedAreTrue' /\ AnswersAreTrue'
    BY <1>8 DEF CommitOperation, StoredAreTrue, UnsavedAreTrue, AnswersAreTrue, TrueFor,
                KeysTypeOK, Responses
  <2>3. IsFiniteSet(executed')
    BY <1>8, FS_AddElement DEF CommitOperation, Paid
  <2>4. ASSUME NEW k \in Keys
        PROVE  Cardinality(ExecutedWith(k)') <= expiries'[k] + (IF LiveRow(k)' THEN 1 ELSE 0)
    <3>1. CASE KeyOf[r] # k
      BY <1>8, <3>1 DEF CommitOperation, Paid, ExecutedWith, LiveRow, KeysTypeOK
    <3>2. CASE KeyOf[r] = k
      <4>1. ~LiveRow(k) /\ LiveRow(k)'
        BY <1>8, <3>2 DEF CommitOperation, KeyHolders, LiveRow, KeysTypeOK
      <4>2. ExecutedWith(k)' = ExecutedWith(k) \cup {r}
        BY <1>8, <3>2 DEF CommitOperation, ExecutedWith
      <4>3. IsFiniteSet(ExecutedWith(k))
        BY FS_Subset DEF Paid, ExecutedWith
      <4>4. /\ Cardinality(ExecutedWith(k)) \in Nat /\ Cardinality(ExecutedWith(k)') \in Nat
            /\ Cardinality(ExecutedWith(k)') <= Cardinality(ExecutedWith(k)) + 1
        <5>1. /\ IsFiniteSet(ExecutedWith(k) \cup {r})
              /\ Cardinality(ExecutedWith(k) \cup {r}) =
                   IF r \in ExecutedWith(k) THEN Cardinality(ExecutedWith(k))
                                            ELSE Cardinality(ExecutedWith(k)) + 1
          BY <4>3, FS_AddElement
        <5> QED BY <4>2, <4>3, <5>1, FS_CardinalityType
      <4> QED BY <4>1, <4>4, <1>8 DEF CommitOperation, Paid, KeysTypeOK
    <3> QED BY <3>1, <3>2
  <2> QED BY <2>1, <2>2, <2>3, <2>4 DEF Paid
<1>9. ASSUME NEW r \in Requests, Rollback(r) PROVE Others
  <2>1. KeyHolders'
    BY <1>9 DEF Rollback, Go, KeyHolders, LiveRow, KeysTypeOK, Responses
  <2> QED BY <2>1, <1>9 DEF Rollback, StoredAreTrue, UnsavedAreTrue, AnswersAreTrue, TrueFor,
                            Paid, LiveRow, ExecutedWith
<1>10. ASSUME NEW r \in Requests, CopyToRedis(r) \/ CopyFails(r) PROVE Others
  <2>1. KeyHolders' /\ Paid'
    BY <1>2, <1>10 DEF CopyToRedis, CopyFails, Sent, Go, KeysTypeOK, SendersAreDone
  <2>2. StoredAreTrue' /\ UnsavedAreTrue' /\ AnswersAreTrue'
    BY <1>10 DEF CopyToRedis, CopyFails, Sent, Answer, StoredAreTrue, UnsavedAreTrue,
                 AnswersAreTrue, TrueFor, KeysTypeOK, Responses
  <2> QED BY <2>1, <2>2
<1>11. ASSUME NEW r \in Requests, RequestDies(r) PROVE Others
  <2>1. KeyHolders' /\ Paid'
    BY <1>2, <1>11 DEF RequestDies, Go, KeysTypeOK
  <2> QED BY <2>1, <1>11 DEF RequestDies, StoredAreTrue, UnsavedAreTrue, AnswersAreTrue,
                             TrueFor, KeysTypeOK
<1>12. ASSUME NEW k \in Keys, RowExpires(k) PROVE Others
  <2>1. Paid'
    BY <1>12, FS_Subset, FS_CardinalityType
       DEF RowExpires, Paid, LiveRow, ExecutedWith, KeysTypeOK
  <2> QED BY <2>1, <1>12 DEF RowExpires, KeyHolders, StoredAreTrue, UnsavedAreTrue,
                             AnswersAreTrue, TrueFor, LiveRow, KeysTypeOK
<1>13. ASSUME NEW k \in Keys, CleanUp(k) PROVE Others
  <2>1. Paid' /\ KeyHolders'
    BY <1>13 DEF CleanUp, Paid, KeyHolders, LiveRow, ExecutedWith, KeysTypeOK
  <2> QED BY <2>1, <1>13 DEF CleanUp, StoredAreTrue, UnsavedAreTrue, AnswersAreTrue, TrueFor,
                             KeysTypeOK
<1>14. ASSUME NEW k \in Keys, CopyExpires(k) PROVE Others
  BY <1>14 DEF CopyExpires, KeyHolders, StoredAreTrue, UnsavedAreTrue, AnswersAreTrue, TrueFor,
               Paid, LiveRow, ExecutedWith, KeysTypeOK
<1>15. CASE UNCHANGED keyVars
  BY <1>1, <1>15 DEF keyVars, KeyHolders, StoredAreTrue, UnsavedAreTrue, AnswersAreTrue, TrueFor,
               Paid, LiveRow, ExecutedWith
<1> QED
  BY <1>1, <1>3, <1>4, <1>5, <1>6, <1>7, <1>8, <1>9, <1>10, <1>11, <1>12, <1>13, <1>14, <1>15
  DEF KeysNext, RequestStep

\* At first no operation is committed and nothing is stored.
LEMMA KeysStart == KeysInit => KeysInv
<1> SUFFICES ASSUME KeysInit PROVE KeysInv
  OBVIOUS
<1>1. Paid
  <2>1. \A k \in Keys : ExecutedWith(k) = {}
    BY DEF KeysInit, ExecutedWith
  <2> QED BY <2>1, FS_EmptySet DEF KeysInit, Paid, LiveRow
<1> QED
  BY <1>1, IdempotencyAssumption
  DEF KeysInit, KeysInv, KeysTypeOK, Responses, SendersAreDone, KeyHolders, StoredAreTrue,
      UnsavedAreTrue, AnswersAreTrue

\* However requests race, fail or are repeated, an operation is committed at
\* most once in each lifetime of its key's row.
THEOREM ExecutedOnce == KeysSpec => []OncePerLifetime
<1>1. KeysInv => OncePerLifetime
  <2> SUFFICES ASSUME KeysInv, NEW k \in Keys
               PROVE  Cardinality(ExecutedWith(k)) <= expiries[k] + 1
    BY DEF OncePerLifetime
  <2>1. Cardinality(ExecutedWith(k)) \in Nat
    BY FS_Subset, FS_CardinalityType DEF KeysInv, Paid, ExecutedWith
  <2> QED BY <2>1, IdempotencyAssumption DEF KeysInv, Paid, KeysTypeOK
<1> QED BY <1>1, KeysStart, KeysStep, PTL DEF KeysSpec

\* Every answer, first hand or replayed, is the response of a committed
\* operation that was asked for in the same way.
THEOREM AnswersNeverLie == KeysSpec => []AnswersAreTrue
<1>1. KeysInv => AnswersAreTrue
  BY DEF KeysInv
<1> QED BY <1>1, KeysStart, KeysStep, PTL DEF KeysSpec

\* Both together: mutations are idempotent.
THEOREM MutationsAreIdempotent == KeysSpec => []Idempotent
  BY ExecutedOnce, AnswersNeverLie, PTL DEF Idempotent

\* Who was answered is done, and what it has left to copy is that answer; who
\* was executed never comes to its operation again.
AnswersLast ==
  /\ \A r \in Requests : answer[r] # NoRequest =>
       request[r] = "answered" /\ unsaved[r] \in {NoRequest, answer[r]}
  /\ \A r \in executed : request[r] \in {"caching", "answered", "failed"}

\* Requests end once, and their places only lead on.
LEMMA AnswersLastStep == KeysInv /\ AnswersLast /\ [KeysNext]_keyVars => AnswersLast'
<1> SUFFICES ASSUME KeysInv, AnswersLast, [KeysNext]_keyVars PROVE AnswersLast'
  OBVIOUS
<1>0. KeysTypeOK /\ SendersAreDone /\ NoRequest \notin Requests
  BY IdempotencyAssumption DEF KeysInv
<1> USE <1>0 DEF KeysTypeOK, Go, AnswersLast
<1>1. ASSUME NEW r \in Requests, Arrive(r) \/ RedisMiss(r) \/ Rollback(r) \/ RequestDies(r)
      PROVE  AnswersLast'
  BY <1>1 DEF Arrive, RedisMiss, Rollback, RequestDies
<1>2. ASSUME NEW r \in Requests, RedisHit(r) PROVE AnswersLast'
  BY <1>2 DEF RedisHit, Answer, SendersAreDone
<1>3. ASSUME NEW r \in Requests, FindCompleted(r) PROVE AnswersLast'
  BY <1>3 DEF FindCompleted, Answer
<1>4. ASSUME NEW r \in Requests, Reserve(r) PROVE AnswersLast'
  BY <1>4 DEF Reserve
<1>5. ASSUME NEW r \in Requests, CommitOperation(r) PROVE AnswersLast'
  BY <1>5 DEF CommitOperation
<1>6. ASSUME NEW r \in Requests, CopyToRedis(r) \/ CopyFails(r) PROVE AnswersLast'
  BY <1>6 DEF CopyToRedis, CopyFails, Sent, Answer, SendersAreDone
<1>7. ASSUME NEW k \in Keys, RowExpires(k) \/ CleanUp(k) \/ CopyExpires(k) PROVE AnswersLast'
  BY <1>7 DEF RowExpires, CleanUp, CopyExpires
<1>8. CASE UNCHANGED keyVars
  BY <1>8 DEF keyVars
<1> QED BY <1>1, <1>2, <1>3, <1>4, <1>5, <1>6, <1>7, <1>8 DEF KeysNext, RequestStep

\* A step that answers r, and changes nothing else the contract sees, tells it.
LEMMA AnswerTells ==
  ASSUME KeysTypeOK, NEW r \in Requests, NEW x \in Requests,
         TrueFor(x, r), answer[r] \in {NoRequest, x}, Answer(r, x),
         UNCHANGED <<keyRow, keyExpired, executed>>
  PROVE  [Mutations!Next]_Mutations!contractVars
<1>1. Remembered' = Remembered /\ executed' = executed
  BY DEF Remembered, LiveRow
<1>2. answer' = [answer EXCEPT ![r] = x] /\ answer \in [Requests -> Responses]
  BY DEF Answer, KeysTypeOK
<1>3. CASE answer[r] = NoRequest
  BY <1>1, <1>2, <1>3 DEF Mutations!Next, Mutations!Tell, TrueFor
<1>4. CASE answer[r] = x
  <2>1. answer' = answer
    BY <1>2, <1>4
  <2> QED BY <1>1, <2>1 DEF Mutations!contractVars
<1> QED BY <1>3, <1>4

\* Every step executes, forgets or tells as the contract allows, or is
\* invisible in it.
LEMMA KeysStepKeepsContract ==
  KeysInv /\ AnswersLast /\ [KeysNext]_keyVars => [Mutations!Next]_Mutations!contractVars
<1> SUFFICES ASSUME KeysInv, AnswersLast, [KeysNext]_keyVars
             PROVE  [Mutations!Next]_Mutations!contractVars
  OBVIOUS
<1>0. /\ KeysTypeOK /\ SendersAreDone /\ KeyHolders /\ StoredAreTrue /\ UnsavedAreTrue
      /\ NoRequest \notin Requests /\ KeyOf \in [Requests -> Keys]
  BY IdempotencyAssumption DEF KeysInv
<1>q. ASSUME UNCHANGED <<keyRow, keyExpired, executed, answer>>
      PROVE  UNCHANGED Mutations!contractVars
  BY <1>q DEF Mutations!contractVars, Remembered, LiveRow
<1>1. ASSUME NEW r \in Requests,
             Arrive(r) \/ RedisMiss(r) \/ Reserve(r) \/ Rollback(r) \/ RequestDies(r)
      PROVE  UNCHANGED Mutations!contractVars
  BY <1>q, <1>1 DEF Arrive, RedisMiss, Reserve, Rollback, RequestDies
<1>2. ASSUME NEW r \in Requests, RedisHit(r)
      PROVE  [Mutations!Next]_Mutations!contractVars
  <2>1. UNCHANGED <<keyRow, keyExpired, executed>>
    BY <1>2 DEF RedisHit
  <2>2. CASE UNCHANGED answer
    BY <1>q, <2>1, <2>2
  <2>3. CASE Matches(copy[KeyOf[r]], r) /\ Answer(r, copy[KeyOf[r]])
    <3>1. TrueFor(copy[KeyOf[r]], r) /\ copy[KeyOf[r]] \in Requests
      BY <1>0, <2>3 DEF Matches, TrueFor, StoredAreTrue, KeysTypeOK
    <3>2. answer[r] = NoRequest
      BY <1>2 DEF RedisHit, AnswersLast
    <3> QED BY <1>0, <2>1, <2>3, <3>1, <3>2, AnswerTells
  <2> QED BY <1>2, <2>2, <2>3 DEF RedisHit
<1>3. ASSUME NEW r \in Requests, FindCompleted(r)
      PROVE  [Mutations!Next]_Mutations!contractVars
  <2>1. UNCHANGED <<keyRow, keyExpired, executed>>
    BY <1>3 DEF FindCompleted
  <2>2. CASE UNCHANGED answer
    BY <1>q, <2>1, <2>2
  <2>3. CASE Matches(keyRow[KeyOf[r]], r) /\ Answer(r, keyRow[KeyOf[r]])
    <3>1. TrueFor(keyRow[KeyOf[r]], r) /\ keyRow[KeyOf[r]] \in Requests
      BY <1>0, <2>3 DEF Matches, TrueFor, StoredAreTrue, KeysTypeOK
    <3>2. answer[r] = NoRequest
      BY <1>3 DEF FindCompleted, AnswersLast
    <3> QED BY <1>0, <2>1, <2>3, <3>1, <3>2, AnswerTells
  <2> QED BY <1>3, <2>2, <2>3 DEF FindCompleted
<1>4. ASSUME NEW r \in Requests, CommitOperation(r)
      PROVE  [Mutations!Next]_Mutations!contractVars
  <2>1. request[r] = "operating" /\ inserter[KeyOf[r]] = r /\ ~LiveRow(KeyOf[r])
    BY <1>0, <1>4 DEF CommitOperation, KeyHolders
  <2>2. r \notin executed /\ Remembered[KeyOf[r]] = NoRequest
    BY <1>0, <2>1 DEF AnswersLast, Remembered
  <2>3. Remembered' = [Remembered EXCEPT ![KeyOf[r]] = r]
    BY <1>0, <1>4 DEF CommitOperation, Remembered, LiveRow, KeysTypeOK
  <2>4. executed' = executed \cup {r} /\ UNCHANGED answer
    BY <1>4 DEF CommitOperation
  <2> QED BY <2>2, <2>3, <2>4 DEF Mutations!Next, Mutations!Execute
<1>5. ASSUME NEW r \in Requests, CopyToRedis(r) \/ CopyFails(r)
      PROVE  [Mutations!Next]_Mutations!contractVars
  <2>1. unsaved[r] # NoRequest /\ Answer(r, unsaved[r])
          /\ UNCHANGED <<keyRow, keyExpired, executed>>
    BY <1>5 DEF CopyToRedis, CopyFails, Sent
  <2>2. TrueFor(unsaved[r], r) /\ unsaved[r] \in Requests
    BY <1>0, <2>1 DEF UnsavedAreTrue, TrueFor, KeysTypeOK
  <2>3. answer[r] \in {NoRequest, unsaved[r]}
    BY <2>1 DEF AnswersLast
  <2> QED BY <1>0, <2>1, <2>2, <2>3, AnswerTells
<1>6. ASSUME NEW k \in Keys, RowExpires(k)
      PROVE  [Mutations!Next]_Mutations!contractVars
  <2>1. Remembered' = [Remembered EXCEPT ![k] = NoRequest]
    BY <1>0, <1>6 DEF RowExpires, Remembered, LiveRow, KeysTypeOK
  <2>2. UNCHANGED <<executed, answer>>
    BY <1>6 DEF RowExpires
  <2> QED BY <2>1, <2>2 DEF Mutations!Next, Mutations!Forget
<1>7. ASSUME NEW k \in Keys, CleanUp(k) \/ CopyExpires(k)
      PROVE  UNCHANGED Mutations!contractVars
  <2>1. Remembered' = Remembered
    BY <1>0, <1>7 DEF CleanUp, CopyExpires, Remembered, LiveRow, KeysTypeOK
  <2> QED BY <1>7, <2>1 DEF CleanUp, CopyExpires, Mutations!contractVars
<1>8. CASE UNCHANGED keyVars
  BY <1>q, <1>8 DEF keyVars
<1> QED BY <1>1, <1>2, <1>3, <1>4, <1>5, <1>6, <1>7, <1>8 DEF KeysNext, RequestStep

\* The race for the key, the copies, retries and rollbacks are invisible:
\* every behaviour is one of the contract.
THEOREM MutationsKeepContract == KeysSpec => MutationsKeepPromise
<1>1. KeysInit => Mutations!Init /\ AnswersLast
  BY DEF KeysInit, Mutations!Init, Remembered, LiveRow, AnswersLast
<1> QED
  BY <1>1, KeysStart, KeysStep, AnswersLastStep, KeysStepKeepsContract,
     MutationsAreIdempotent, PTL
  DEF KeysSpec, MutationsKeepPromise, Mutations!Spec

\* A request that waits for its key waits for one that is at its operation,
\* and so may commit or roll back: the safety half of RequestsEnd.
THEOREM KeyWaitsEnd ==
  KeysSpec => [](\A r \in Requests :
    request[r] = "reserve" /\ ~KeyFree(KeyOf[r]) =>
      inserter[KeyOf[r]] \in Requests \ {r} /\ request[inserter[KeyOf[r]]] = "operating")
<1>1. KeysInv => \A r \in Requests :
        request[r] = "reserve" /\ ~KeyFree(KeyOf[r]) =>
          inserter[KeyOf[r]] \in Requests \ {r} /\ request[inserter[KeyOf[r]]] = "operating"
  BY IdempotencyAssumption DEF KeysInv, KeyHolders, KeyFree, KeysTypeOK, Responses
<1> QED BY <1>1, KeysStart, KeysStep, PTL DEF KeysSpec

-----------------------------------------------------------------------------
(* Checkout sessions.                                                      *)

\* The row's lock is held by the fulfilment between claim and commit, and
\* while it is the session is open.
ClaimHolds ==
  /\ sessionLock # NoPayment => visit[sessionLock] = "creating" /\ session = Open
  /\ \A v \in Visits : visit[v] = "creating" => sessionLock = v

\* Whatever shows a payment, the row, a session read earlier or an answer,
\* shows the only one, and an open session has none.
Shown(p) == p # NoPayment => made = {p}

PaymentsShown ==
  /\ session.status = "OPEN" => made = {}
  /\ Shown(session.payment)
  /\ \A v \in Visits : Shown(seen[v].payment) /\ Shown(told[v])

CheckoutInv == CheckoutTypeOK /\ ClaimHolds /\ PaymentsShown /\ OnePaymentPerSession

\* No payment, no claim.
LEMMA CheckoutStart == CheckoutInit => CheckoutInv
<1> SUFFICES ASSUME CheckoutInit PROVE CheckoutInv
  OBVIOUS
<1> USE VisitAssumption DEF CheckoutInit, Open
<1>1. CheckoutTypeOK
  BY DEF CheckoutTypeOK, Sessions
<1>2. ClaimHolds
  <2>1. \A v \in Visits : visit[v] = "new"
    OBVIOUS
  <2> QED BY <2>1 DEF ClaimHolds
<1>3. session.payment = NoPayment /\ made = {}
  OBVIOUS
<1>4. \A v \in Visits : seen[v].payment = NoPayment /\ told[v] = NoPayment
  OBVIOUS
<1>5. PaymentsShown
  BY <1>3, <1>4 DEF PaymentsShown, Shown
<1>6. OnePaymentPerSession
  BY <1>3, <1>4 DEF OnePaymentPerSession
<1> QED BY <1>1, <1>2, <1>5, <1>6 DEF CheckoutInv

\* A step keeps the invariant; only the commit of a fulfilment makes a payment.
LEMMA CheckoutStep == CheckoutInv /\ [CheckoutNext]_sessionVars => CheckoutInv'
<1> SUFFICES ASSUME CheckoutInv, [CheckoutNext]_sessionVars PROVE CheckoutInv'
  OBVIOUS
<1> USE VisitAssumption DEF CheckoutInv, CheckoutTypeOK, Sessions, Open, MoveTo
<1>1. CASE SessionDeadline
  BY <1>1 DEF SessionDeadline, ClaimHolds, PaymentsShown, Shown, OnePaymentPerSession
<1>2. ASSUME NEW v \in Visits, BeginFulfil(v) PROVE CheckoutInv'
  BY <1>2 DEF BeginFulfil, ClaimHolds, PaymentsShown, Shown, OnePaymentPerSession
<1>3. ASSUME NEW v \in Visits, ClaimSession(v) PROVE CheckoutInv'
  <2>1. CheckoutTypeOK'
    BY <1>3 DEF ClaimSession
  <2>2. ClaimHolds'
    BY <1>3 DEF ClaimSession, RowFree, ClaimHolds
  <2> QED BY <2>1, <2>2, <1>3 DEF ClaimSession, PaymentsShown, Shown, OnePaymentPerSession
<1>4. ASSUME NEW v \in Visits, ReplayFulfil(v) PROVE CheckoutInv'
  <2>1. CheckoutTypeOK' /\ ClaimHolds'
    BY <1>4 DEF ReplayFulfil, ClaimHolds
  <2> QED BY <2>1, <1>4 DEF ReplayFulfil, PaymentsShown, Shown, OnePaymentPerSession
<1>5. ASSUME NEW v \in Visits, RefuseFulfil(v) PROVE CheckoutInv'
  <2>1. CheckoutTypeOK' /\ ClaimHolds'
    BY <1>5 DEF RefuseFulfil, ClaimHolds
  <2> QED BY <2>1, <1>5 DEF RefuseFulfil, PaymentsShown, Shown, OnePaymentPerSession
<1>6. ASSUME NEW v \in Visits, CommitFulfil(v) PROVE CheckoutInv'
  <2>1. made = {} /\ made' = {v}
    BY <1>6 DEF CommitFulfil, ClaimHolds, PaymentsShown
  <2>2. CheckoutTypeOK'
    BY <1>6 DEF CommitFulfil
  <2>3. ClaimHolds'
    BY <1>6 DEF CommitFulfil, ClaimHolds
  <2>4. \A u \in Visits : seen[u].payment = NoPayment /\ told[u] = NoPayment
    BY <2>1 DEF PaymentsShown, Shown
  <2> QED BY <2>1, <2>2, <2>3, <2>4, <1>6
          DEF CommitFulfil, PaymentsShown, Shown, OnePaymentPerSession
<1>7. ASSUME NEW v \in Visits, ReadSession(v) PROVE CheckoutInv'
  <2>1. CheckoutTypeOK' /\ ClaimHolds'
    BY <1>7 DEF ReadSession, ClaimHolds
  <2> QED BY <2>1, <1>7 DEF ReadSession, PaymentsShown, Shown, OnePaymentPerSession
<1>8. ASSUME NEW v \in Visits, ShowSession(v) PROVE CheckoutInv'
  <2>1. CheckoutTypeOK' /\ ClaimHolds'
    BY <1>8 DEF ShowSession, ClaimHolds
  <2> QED BY <2>1, <1>8 DEF ShowSession, PaymentsShown, Shown, OnePaymentPerSession
<1>9. ASSUME NEW v \in Visits, ExpireOnView(v) PROVE CheckoutInv'
  <2>1. CheckoutTypeOK' /\ ClaimHolds'
    BY <1>9 DEF ExpireOnView, RowFree, ClaimHolds
  <2> QED BY <2>1, <1>9 DEF ExpireOnView, PaymentsShown, Shown, OnePaymentPerSession
<1>10. CASE UNCHANGED sessionVars
  BY <1>10 DEF sessionVars, ClaimHolds, PaymentsShown, Shown, OnePaymentPerSession
<1> QED BY <1>1, <1>2, <1>3, <1>4, <1>5, <1>6, <1>7, <1>8, <1>9, <1>10 DEF CheckoutNext

\* However fulfilments race, fail or are repeated, the session has at most one
\* payment, and every answer with a payment is that one.
THEOREM SessionPaysOnce == CheckoutSpec => []OnePaymentPerSession
<1>1. CheckoutInv => OnePaymentPerSession
  BY DEF CheckoutInv
<1> QED BY <1>1, CheckoutStart, CheckoutStep, PTL DEF CheckoutSpec

-----------------------------------------------------------------------------
(* Receipts.                                                               *)

\* A number that is not committed yet is the next one of its day, and its
\* transaction holds the counter.
NumberIsNext ==
  \A p \in Sales : sale[p].at = "numbered" =>
    counterHolder[sale[p].day] = p /\ sale[p].n = counter[sale[p].day] + 1

ReceiptsInv == ReceiptsTypeOK /\ NumberIsNext /\ ReceiptsAreSound

\* No receipts.
LEMMA ReceiptsStart == ReceiptsInit => ReceiptsInv
<1> SUFFICES ASSUME ReceiptsInit PROVE ReceiptsInv
  OBVIOUS
<1> USE DEF ReceiptsInit
<1>1. ReceiptsTypeOK
  BY ReceiptAssumption DEF ReceiptsTypeOK, SaleRecords
<1>2. NumberIsNext /\ OneReceiptEach
  BY DEF NumberIsNext, OneReceiptEach
<1>3. ReceiptsAreNumbered
  BY DEF ReceiptsAreNumbered, NumbersOf
<1> QED BY <1>1, <1>2, <1>3 DEF ReceiptsInv, ReceiptsAreSound

\* Steps that issue no receipt and leave the counters alone.
LEMMA QuietSale ==
  ASSUME ReceiptsInv, ReceiptsTypeOK', UNCHANGED <<counter, receipts>>, NumberIsNext',
         \A p \in Sales : sale'[p].at = "done" <=> sale[p].at = "done"
  PROVE  ReceiptsInv'
<1>1. ReceiptsAreNumbered'
  BY DEF ReceiptsInv, ReceiptsAreSound, ReceiptsAreNumbered, NumbersOf
<1>2. OneReceiptEach'
  BY DEF ReceiptsInv, ReceiptsAreSound, OneReceiptEach
<1> QED BY <1>1, <1>2 DEF ReceiptsInv, ReceiptsAreSound

\* What ending a transaction does to the rows it held.
LEMMA EndedSale ==
  ASSUME ReceiptsTypeOK, NEW p \in Sales, NEW place \in {"none", "done"}, EndSale(p, place)
  PROVE  /\ purseHolder' \in [Purses -> Sales \cup {NoSale}]
         /\ counterHolder' \in [Days -> Sales \cup {NoSale}]
         /\ sale' \in [Sales -> SaleRecords]
         /\ sale'[p].at = place
         /\ \A q \in Sales \ {p} : sale'[q] = sale[q]
         /\ \A d \in Days : counterHolder[d] # p => counterHolder'[d] = counterHolder[d]
  BY DEF ReceiptsTypeOK, EndSale, Released, SaleRecords

\* A step keeps the invariant; only IssueReceipt numbers a receipt for good.
LEMMA ReceiptsStep == ReceiptsInv /\ [ReceiptsNext]_receiptVars => ReceiptsInv'
<1> SUFFICES ASSUME ReceiptsInv, [ReceiptsNext]_receiptVars PROVE ReceiptsInv'
  OBVIOUS
<1>0. ReceiptsTypeOK /\ NumberIsNext /\ NoSale \notin Sales /\ PurseOf \in [Sales -> Purses]
  BY ReceiptAssumption DEF ReceiptsInv
<1>1. CASE Dawn
  <2>1. ReceiptsTypeOK' /\ NumberIsNext'
    BY <1>0, <1>1 DEF Dawn, ReceiptsTypeOK, NumberIsNext
  <2> QED BY <1>1, <2>1, QuietSale DEF Dawn
<1>2. ASSUME NEW p \in Sales, LockPurse(p) PROVE ReceiptsInv'
  <2>1. ReceiptsTypeOK'
    BY <1>0, <1>2 DEF LockPurse, ReceiptsTypeOK, SaleRecords
  <2>2. NumberIsNext'
    BY <1>0, <1>2 DEF LockPurse, ReceiptsTypeOK, SaleRecords, NumberIsNext
  <2>3. \A q \in Sales : sale'[q].at = "done" <=> sale[q].at = "done"
    BY <1>0, <1>2 DEF LockPurse, ReceiptsTypeOK, SaleRecords
  <2> QED BY <1>2, <2>1, <2>2, <2>3, QuietSale DEF LockPurse
<1>3. ASSUME NEW p \in Sales, DateReceipt(p) PROVE ReceiptsInv'
  <2>1. ReceiptsTypeOK'
    BY <1>0, <1>3 DEF DateReceipt, ReceiptsTypeOK, SaleRecords
  <2>2. NumberIsNext'
    BY <1>0, <1>3 DEF DateReceipt, ReceiptsTypeOK, SaleRecords, NumberIsNext
  <2>3. \A q \in Sales : sale'[q].at = "done" <=> sale[q].at = "done"
    BY <1>0, <1>3 DEF DateReceipt, ReceiptsTypeOK, SaleRecords
  <2> QED BY <1>3, <2>1, <2>2, <2>3, QuietSale DEF DateReceipt
<1>4. ASSUME NEW p \in Sales, IncrementCounter(p) PROVE ReceiptsInv'
  <2> DEFINE d == sale[p].day
             n == counter[d] + 1
  <2>a. d \in Days /\ n \in Nat /\ sale[p].at = "dated" /\ counterHolder[d] = NoSale
    BY <1>0, <1>4 DEF IncrementCounter, ReceiptsTypeOK, SaleRecords
  <2>b. /\ counterHolder' = [counterHolder EXCEPT ![d] = p]
        /\ sale' = [sale EXCEPT ![p].at = "numbered", ![p].n = n]
        /\ UNCHANGED <<today, purseHolder, counter, receipts>>
    BY <1>4 DEF IncrementCounter
  <2> HIDE DEF d, n
  <2>c. /\ sale'[p] \in SaleRecords /\ sale'[p].at = "numbered"
        /\ sale'[p].day = sale[p].day /\ sale'[p].n = n
        /\ \A q \in Sales \ {p} : sale'[q] = sale[q]
        /\ sale' \in [Sales -> SaleRecords]
    BY <1>0, <2>a, <2>b DEF ReceiptsTypeOK, SaleRecords
  <2>1. ReceiptsTypeOK'
    BY <1>0, <2>a, <2>b, <2>c DEF ReceiptsTypeOK
  <2>2. NumberIsNext'
    BY <1>0, <2>a, <2>b, <2>c DEF ReceiptsTypeOK, NumberIsNext, d, n
  <2>3. \A q \in Sales : sale'[q].at = "done" <=> sale[q].at = "done"
    BY <2>a, <2>c
  <2> QED BY <1>4, <2>1, <2>2, <2>3, QuietSale DEF IncrementCounter
<1>5. ASSUME NEW p \in Sales, RollbackSale(p) PROVE ReceiptsInv'
  <2>1. ReceiptsTypeOK'
    BY <1>0, <1>5, EndedSale DEF RollbackSale, ReceiptsTypeOK
  <2>2. NumberIsNext'
    BY <1>0, <1>5, EndedSale DEF RollbackSale, NumberIsNext, ReceiptsTypeOK, SaleRecords
  <2>3. \A q \in Sales : sale'[q].at = "done" <=> sale[q].at = "done"
    BY <1>0, <1>5, EndedSale DEF RollbackSale
  <2> QED BY <1>5, <2>1, <2>2, <2>3, QuietSale DEF RollbackSale
<1>6. ASSUME NEW p \in Sales, IssueReceipt(p) PROVE ReceiptsInv'
  <2> DEFINE d == sale[p].day
             n == sale[p].n
             new == [sale |-> p, day |-> d, n |-> n]
  <2>1. d \in Days /\ n \in Nat /\ n = counter[d] + 1 /\ counter[d] \in Nat
    BY <1>0, <1>6 DEF IssueReceipt, ReceiptsTypeOK, SaleRecords, NumberIsNext
  <2>2. /\ receipts' = receipts \cup {new} /\ counter' = [counter EXCEPT ![d] = n]
        /\ \A r \in receipts : r.sale # p /\ ~(r.day = d /\ r.n = n)
    BY <1>6 DEF IssueReceipt
  <2>3. ReceiptsTypeOK'
    BY <1>0, <1>6, <2>1, <2>2, EndedSale DEF IssueReceipt, ReceiptsTypeOK
  <2>4. NumberIsNext'
    BY <1>0, <1>6, <2>1, <2>2, EndedSale
       DEF IssueReceipt, NumberIsNext, ReceiptsTypeOK, SaleRecords
  <2>n. new.sale = p /\ new.day = d /\ new.n = n
    OBVIOUS
  <2> HIDE DEF d, n, new
  <2>5. ReceiptsAreNumbered'
    <3> SUFFICES ASSUME NEW e \in Days PROVE NumbersOf(e)' = 1 .. counter'[e]
      BY DEF ReceiptsAreNumbered
    <3>1. NumbersOf(e) = 1 .. counter[e]
      BY DEF ReceiptsInv, ReceiptsAreSound, ReceiptsAreNumbered
    <3>2. CASE e = d
      <4>1. NumbersOf(e)' = NumbersOf(e) \cup {n}
        BY <2>2, <2>n, <3>2 DEF NumbersOf
      <4>2. counter'[e] = n
        BY <1>0, <2>1, <2>2, <3>2 DEF ReceiptsTypeOK
      <4> QED BY <2>1, <3>1, <3>2, <4>1, <4>2
    <3>3. CASE e # d
      <4>1. NumbersOf(e)' = NumbersOf(e)
        BY <2>2, <2>n, <3>3 DEF NumbersOf
      <4>2. counter'[e] = counter[e]
        BY <1>0, <2>1, <2>2, <3>3 DEF ReceiptsTypeOK
      <4> QED BY <3>1, <4>1, <4>2
    <3> QED BY <3>2, <3>3
  <2>6. OneReceiptEach'
    <3>1. \A q \in Sales : sale'[q].at = "done" <=> \E r \in receipts' : r.sale = q
      <4>1. \A q \in Sales : sale[q].at = "done" <=> \E r \in receipts : r.sale = q
        BY DEF ReceiptsInv, ReceiptsAreSound, OneReceiptEach
      <4>2. sale'[p].at = "done" /\ \A q \in Sales \ {p} : sale'[q] = sale[q]
        BY <1>0, <1>6, EndedSale DEF IssueReceipt
      <4> QED BY <2>2, <2>n, <4>1, <4>2
    <3>2. \A r, s \in receipts :
            r.sale = s.sale \/ (r.day = s.day /\ r.n = s.n) => r = s
      BY DEF ReceiptsInv, ReceiptsAreSound, OneReceiptEach
    <3>3. \A r, s \in receipts' :
            r.sale = s.sale \/ (r.day = s.day /\ r.n = s.n) => r = s
      BY <2>2, <2>n, <3>2
    <3> QED BY <3>1, <3>3 DEF OneReceiptEach
  <2> QED BY <2>3, <2>4, <2>5, <2>6 DEF ReceiptsInv, ReceiptsAreSound
<1>7. CASE UNCHANGED receiptVars
  <2>1. ReceiptsTypeOK' /\ NumberIsNext'
    BY <1>0, <1>7 DEF receiptVars, ReceiptsTypeOK, NumberIsNext
  <2> QED BY <1>7, <2>1, QuietSale DEF receiptVars
<1> QED BY <1>1, <1>2, <1>3, <1>4, <1>5, <1>6, <1>7 DEF ReceiptsNext

\* Every confirmed payment has one receipt, and the receipts of a day are
\* numbered from 1 without a gap.
THEOREM ReceiptsAreKept == ReceiptsSpec => []ReceiptsAreSound
<1>1. ReceiptsInv => ReceiptsAreSound
  BY DEF ReceiptsInv
<1> QED BY <1>1, ReceiptsStart, ReceiptsStep, PTL DEF ReceiptsSpec

\* Who holds an account or a counter is at a place from where it gives it up;
\* the counter is the last lock a transaction takes.
SalesHold ==
  /\ \A a \in Purses : purseHolder[a] # NoSale =>
       sale[purseHolder[a]].at \in {"locked", "dated", "numbered"}
  /\ \A d \in Days : counterHolder[d] # NoSale => sale[counterHolder[d]].at = "numbered"

\* A step keeps it: holders move on with their rows and let go of them at the end.
LEMMA SalesHoldStep ==
  ASSUME ReceiptsInv, SalesHold, [ReceiptsNext]_receiptVars
  PROVE  SalesHold'
<1>0. ReceiptsTypeOK /\ NumberIsNext /\ NoSale \notin Sales /\ PurseOf \in [Sales -> Purses]
  BY ReceiptAssumption DEF ReceiptsInv
<1>1. ASSUME UNCHANGED <<purseHolder, counterHolder, sale>> PROVE SalesHold'
  BY <1>1 DEF SalesHold
<1>2. CASE Dawn \/ UNCHANGED receiptVars
  BY <1>1, <1>2 DEF Dawn, receiptVars
<1>3. ASSUME NEW p \in Sales, LockPurse(p) PROVE SalesHold'
  <2>1. /\ sale[p].at = "none" /\ purseHolder' = [purseHolder EXCEPT ![PurseOf[p]] = p]
        /\ sale' = [sale EXCEPT ![p].at = "locked"] /\ UNCHANGED counterHolder
    BY <1>3 DEF LockPurse
  <2>2. sale'[p].at = "locked" /\ \A q \in Sales \ {p} : sale'[q] = sale[q]
    BY <1>0, <2>1 DEF ReceiptsTypeOK, SaleRecords
  <2> QED BY <1>0, <2>1, <2>2 DEF SalesHold, ReceiptsTypeOK
<1>4. ASSUME NEW p \in Sales, DateReceipt(p) PROVE SalesHold'
  <2>1. /\ sale[p].at = "locked" /\ UNCHANGED <<purseHolder, counterHolder>>
        /\ sale' = [sale EXCEPT ![p].at = "dated", ![p].day = today]
    BY <1>4 DEF DateReceipt
  <2>2. sale'[p].at = "dated" /\ \A q \in Sales \ {p} : sale'[q] = sale[q]
    BY <1>0, <2>1 DEF ReceiptsTypeOK, SaleRecords
  <2> QED BY <1>0, <2>1, <2>2 DEF SalesHold, ReceiptsTypeOK
<1>5. ASSUME NEW p \in Sales, IncrementCounter(p) PROVE SalesHold'
  <2> DEFINE d == sale[p].day
             n == counter[d] + 1
  <2>1. /\ sale[p].at = "dated" /\ UNCHANGED purseHolder
        /\ counterHolder' = [counterHolder EXCEPT ![d] = p]
        /\ sale' = [sale EXCEPT ![p].at = "numbered", ![p].n = n]
    BY <1>5 DEF IncrementCounter
  <2> HIDE DEF d, n
  <2>2. sale'[p].at = "numbered" /\ \A q \in Sales \ {p} : sale'[q] = sale[q]
    BY <1>0, <2>1 DEF ReceiptsTypeOK, SaleRecords
  <2> QED BY <1>0, <2>1, <2>2 DEF SalesHold, ReceiptsTypeOK
<1>6. ASSUME NEW p \in Sales, IssueReceipt(p) \/ RollbackSale(p) PROVE SalesHold'
  <2>1. PICK place \in {"none", "done"} : EndSale(p, place)
    BY <1>6 DEF IssueReceipt, RollbackSale
  <2>2. \A q \in Sales \ {p} : sale'[q] = sale[q]
    BY <1>0, <2>1, EndedSale
  <2>3. /\ \A a \in Purses : purseHolder'[a] # NoSale =>
             purseHolder'[a] = purseHolder[a] /\ purseHolder[a] \in Sales \ {p}
        /\ \A d \in Days : counterHolder'[d] # NoSale =>
             counterHolder'[d] = counterHolder[d] /\ counterHolder[d] \in Sales \ {p}
    BY <1>0, <2>1 DEF EndSale, Released, ReceiptsTypeOK
  <2> QED BY <2>2, <2>3 DEF SalesHold
<1> QED BY <1>2, <1>3, <1>4, <1>5, <1>6 DEF ReceiptsNext

\* Confirmations do not block one another for good, and no number clashes: who
\* waits for the account waits for a transaction under way, who waits for the
\* counter waits for one that only has its receipt left to write, and the unique
\* indexes on number and payment accept that receipt.
SalesAdvance ==
  \A p \in Sales :
    /\ sale[p].at = "none" /\ purseHolder[PurseOf[p]] # NoSale =>
         /\ purseHolder[PurseOf[p]] \in Sales \ {p}
         /\ sale[purseHolder[PurseOf[p]]].at \in {"locked", "dated", "numbered"}
    /\ sale[p].at = "dated" /\ counterHolder[sale[p].day] # NoSale =>
         /\ counterHolder[sale[p].day] \in Sales \ {p}
         /\ sale[counterHolder[sale[p].day]].at = "numbered"
    /\ sale[p].at = "numbered" =>
         \A r \in receipts : r.sale # p /\ ~(r.day = sale[p].day /\ r.n = sale[p].n)

\* No deadlock between the store's accounts and its counters, and no rollback
\* because of a number that is taken.
THEOREM SalesNeverBlock == ReceiptsSpec => []SalesAdvance
<1>1. ReceiptsInit => SalesHold
  BY DEF ReceiptsInit, SalesHold
<1>2. ReceiptsInv /\ SalesHold /\ [ReceiptsNext]_receiptVars => SalesHold'
  BY SalesHoldStep
<1>3. ReceiptsInv /\ SalesHold => SalesAdvance
  <2> SUFFICES ASSUME ReceiptsInv, SalesHold, NEW p \in Sales
               PROVE  /\ sale[p].at = "none" /\ purseHolder[PurseOf[p]] # NoSale =>
                           /\ purseHolder[PurseOf[p]] \in Sales \ {p}
                           /\ sale[purseHolder[PurseOf[p]]].at \in {"locked", "dated", "numbered"}
                      /\ sale[p].at = "dated" /\ counterHolder[sale[p].day] # NoSale =>
                           /\ counterHolder[sale[p].day] \in Sales \ {p}
                           /\ sale[counterHolder[sale[p].day]].at = "numbered"
                      /\ sale[p].at = "numbered" =>
                           \A r \in receipts :
                             r.sale # p /\ ~(r.day = sale[p].day /\ r.n = sale[p].n)
    BY DEF SalesAdvance
  <2>0. /\ ReceiptsTypeOK /\ NumberIsNext /\ ReceiptsAreNumbered /\ OneReceiptEach
        /\ PurseOf[p] \in Purses /\ sale[p].day \in Days
    BY ReceiptAssumption DEF ReceiptsInv, ReceiptsAreSound, ReceiptsTypeOK, SaleRecords
  <2>1. sale[p].at = "none" /\ purseHolder[PurseOf[p]] # NoSale =>
          /\ purseHolder[PurseOf[p]] \in Sales \ {p}
          /\ sale[purseHolder[PurseOf[p]]].at \in {"locked", "dated", "numbered"}
    BY <2>0 DEF SalesHold, ReceiptsTypeOK
  <2>2. sale[p].at = "dated" /\ counterHolder[sale[p].day] # NoSale =>
          /\ counterHolder[sale[p].day] \in Sales \ {p}
          /\ sale[counterHolder[sale[p].day]].at = "numbered"
    BY <2>0 DEF SalesHold, ReceiptsTypeOK
  <2>3. ASSUME sale[p].at = "numbered", NEW r \in receipts
        PROVE  r.sale # p /\ ~(r.day = sale[p].day /\ r.n = sale[p].n)
    <3>1. r.sale # p
      BY <2>0, <2>3 DEF OneReceiptEach
    <3>2. r.day = sale[p].day => r.n \in 1 .. counter[sale[p].day]
      BY <2>0, <2>3 DEF ReceiptsAreNumbered, NumbersOf
    <3>3. sale[p].n = counter[sale[p].day] + 1 /\ counter[sale[p].day] \in Nat
      BY <2>0, <2>3 DEF NumberIsNext, ReceiptsTypeOK
    <3> QED BY <3>1, <3>2, <3>3
  <2> QED BY <2>1, <2>2, <2>3
<1> QED BY <1>1, <1>2, <1>3, ReceiptsStart, ReceiptsStep, PTL DEF ReceiptsSpec

-----------------------------------------------------------------------------
(* Bank accounts.                                                          *)

\* A call under way is about an account, and one that names an account in a
\* withdrawal keeps it from being deleted.
CallsAreAbout ==
  \A c \in BankCalls :
    /\ bankCall[c].at # "idle" => bankCall[c].about \in BankAccounts
    /\ bankCall[c].at = "withdraw" => Exists(bankCall[c].about)

\* What is written to a row is an account, by a call that is still to commit.
WritesAreAccounts ==
  \A a \in BankAccounts : bankLock[a] # NoBank =>
    /\ written[a] \in {"plain", "default"}
    /\ bankCall[bankLock[a]].at \in {"clear", "commit"}

\* What is about to be committed has a default, or is one new row.
CommitsDefault ==
  \A c \in BankCalls : bankCall[c].at = "commit" =>
    LET a == bankCall[c].about IN
      /\ bankLock[a] = c
      /\ \/ written[a] = "default"
         \/ bank[a] = "none" /\ \A b \in BankAccounts : bankLock[b] = c => b = a

BankInv ==
  BankTypeOK /\ CallsAreAbout /\ WritesAreAccounts /\ CommitsDefault
    /\ WithdrawalsKeepAccount

\* No account, and no call under way.
LEMMA BankStart == BankInit => BankInv
<1> SUFFICES ASSUME BankInit PROVE BankInv
  OBVIOUS
<1> USE BankAssumption DEF BankInit
<1>1. bankCall \in [BankCalls -> BankCallRecords]
        /\ \A c \in BankCalls : bankCall[c].at = "idle"
  BY DEF NoBankCall, BankCallRecords
<1>2. BankTypeOK
  BY <1>1 DEF BankTypeOK, RowStates
<1>3. CallsAreAbout /\ CommitsDefault
  BY <1>1 DEF CallsAreAbout, CommitsDefault
<1>4. WritesAreAccounts /\ WithdrawalsKeepAccount
  BY DEF WritesAreAccounts, WithdrawalsKeepAccount
<1> QED BY <1>2, <1>3, <1>4 DEF BankInv

\* Where a call goes to is a record again, and the others stay.
LEMMA BankToRecords ==
  ASSUME BankTypeOK, NEW c \in BankCalls,
         NEW place \in {"idle", "clear", "save", "commit", "withdraw", "delete"},
         NEW a \in BankAccounts \cup {NoBank}, NEW others \in SUBSET BankAccounts,
         BankTo(c, place, a, others)
  PROVE  /\ bankCall' \in [BankCalls -> BankCallRecords]
         /\ bankCall'[c] = [at |-> place, about |-> a, todo |-> others]
         /\ \A d \in BankCalls \ {c} : bankCall'[d] = bankCall[d]
  BY DEF BankTypeOK, BankTo, BankCallRecords

\* The same of a call that ends.
LEMMA BankToIdle ==
  ASSUME BankTypeOK, NEW c \in BankCalls, BankTo(c, "idle", NoBank, {})
  PROVE  /\ bankCall' \in [BankCalls -> BankCallRecords] /\ bankCall'[c].at = "idle"
         /\ \A d \in BankCalls \ {c} : bankCall'[d] = bankCall[d]
  BY DEF BankTypeOK, BankTo, BankCallRecords

\* A call that does not write rows and that is not about to commit.
LEMMA QuietStep ==
  ASSUME BankInv, NEW c \in BankCalls, UNCHANGED <<bank, bankLock, written>>,
         \A a \in BankAccounts : bankLock[a] # c,
         bankCall' \in [BankCalls -> BankCallRecords],
         \A d \in BankCalls \ {c} : bankCall'[d] = bankCall[d],
         bankCall'[c].at # "commit",
         bankCall'[c].at # "idle" => bankCall'[c].about \in BankAccounts,
         bankCall'[c].at = "withdraw" => Exists(bankCall'[c].about),
         withdrawn' \subseteq BankAccounts, \A a \in withdrawn' : Exists(a)
  PROVE  BankInv'
<1>1. BankTypeOK'
  BY DEF BankInv, BankTypeOK
<1>2. CallsAreAbout'
  BY DEF BankInv, CallsAreAbout, Exists
<1>3. WritesAreAccounts'
  BY DEF BankInv, BankTypeOK, WritesAreAccounts
<1>4. CommitsDefault'
  BY DEF BankInv, CommitsDefault
<1>5. WithdrawalsKeepAccount'
  BY DEF WithdrawalsKeepAccount, Exists
<1> QED BY <1>1, <1>2, <1>3, <1>4, <1>5 DEF BankInv

\* A call that is idle, withdrawing or deleting holds no row.
LEMMA HoldsNothing ==
  ASSUME BankInv, NEW c \in BankCalls, bankCall[c].at \notin {"clear", "commit"}
  PROVE  \A a \in BankAccounts : bankLock[a] # c
  BY BankAssumption DEF BankInv, WritesAreAccounts

\* A call that writes a row: the row was free or its own.
LEMMA WritingStep ==
  ASSUME BankInv, NEW c \in BankCalls, NEW a \in BankAccounts, Writable(c, a),
         NEW state \in {"plain", "default"}, WriteRow(c, a, state),
         UNCHANGED <<bank, withdrawn>>,
         bankCall' \in [BankCalls -> BankCallRecords],
         \A d \in BankCalls \ {c} : bankCall'[d] = bankCall[d],
         bankCall'[c].at \in {"clear", "commit"},
         bankCall'[c].about \in BankAccounts,
         bankCall'[c].at = "commit" =>
           /\ bankCall'[c].about = a
           /\ \/ state = "default"
              \/ bank[a] = "none" /\ \A b \in BankAccounts : bankLock[b] # c
  PROVE  BankInv'
<1>0. /\ bankLock \in [BankAccounts -> BankCalls \cup {NoBank}]
      /\ written \in [BankAccounts -> RowStates] /\ NoBank \notin BankCalls
  BY BankAssumption DEF BankInv, BankTypeOK
<1>1. /\ bankLock'[a] = c /\ written'[a] = state
      /\ \A b \in BankAccounts \ {a} : bankLock'[b] = bankLock[b] /\ written'[b] = written[b]
  BY <1>0 DEF WriteRow
<1>2. bankLock' \in [BankAccounts -> BankCalls \cup {NoBank}]
        /\ written' \in [BankAccounts -> RowStates]
  BY <1>0 DEF WriteRow, RowStates
<1>3. BankTypeOK'
  BY <1>2 DEF BankInv, BankTypeOK
<1>4. CallsAreAbout'
  BY DEF BankInv, CallsAreAbout, Exists
<1>5. WritesAreAccounts'
  BY <1>0, <1>1 DEF BankInv, WritesAreAccounts
<1>6. CommitsDefault'
  <2>1. ASSUME NEW d \in BankCalls \ {c}, bankCall[d].at = "commit"
        PROVE  bankCall[d].about # a /\ bankCall[d].about \in BankAccounts
    BY <2>1, <1>0 DEF BankInv, CommitsDefault, CallsAreAbout, Writable
  <2>2. ASSUME NEW d \in BankCalls \ {c}, NEW b \in BankAccounts, bankLock'[b] = d
        PROVE  bankLock[b] = d
    BY <2>2, <1>1
  <2> QED BY <1>1, <2>1, <2>2 DEF BankInv, CommitsDefault
<1>7. WithdrawalsKeepAccount'
  BY DEF BankInv, WithdrawalsKeepAccount, Exists
<1> QED BY <1>3, <1>4, <1>5, <1>6, <1>7 DEF BankInv

\* A transaction that ends lets go of its rows; what it committed are accounts.
LEMMA EndingStep ==
  ASSUME BankInv, NEW c \in BankCalls,
         bankLock' = [a \in BankAccounts |-> IF bankLock[a] = c THEN NoBank ELSE bankLock[a]],
         BankTo(c, "idle", NoBank, {}), UNCHANGED <<written, withdrawn>>,
         \/ bank' = bank
         \/ bank' = [a \in BankAccounts |-> IF bankLock[a] = c THEN written[a] ELSE bank[a]]
  PROVE  BankInv'
<1>0. /\ bankLock \in [BankAccounts -> BankCalls \cup {NoBank}]
      /\ bank \in [BankAccounts -> RowStates]
      /\ written \in [BankAccounts -> RowStates] /\ NoBank \notin BankCalls
  BY BankAssumption DEF BankInv, BankTypeOK
<1>1. /\ bankCall' \in [BankCalls -> BankCallRecords] /\ bankCall'[c].at = "idle"
      /\ \A d \in BankCalls \ {c} : bankCall'[d] = bankCall[d]
  BY BankToIdle DEF BankInv
<1>2. \A a \in BankAccounts : bankLock[a] # c => bank'[a] = bank[a] /\ bankLock'[a] = bankLock[a]
  BY <1>0
<1>3. \A a \in BankAccounts : bankLock[a] = c =>
        /\ bankLock'[a] = NoBank
        /\ bank'[a] \in {bank[a], "plain", "default"}
  BY <1>0 DEF BankInv, WritesAreAccounts
<1>4. \A a \in BankAccounts : Exists(a) => Exists(a)'
  BY <1>2, <1>3 DEF Exists
<1>5. bank' \in [BankAccounts -> RowStates]
        /\ bankLock' \in [BankAccounts -> BankCalls \cup {NoBank}]
  BY <1>0
<1>6. BankTypeOK'
  BY <1>1, <1>5 DEF BankInv, BankTypeOK
<1>7. CallsAreAbout'
  BY <1>1, <1>4 DEF BankInv, CallsAreAbout
<1>8. WritesAreAccounts'
  BY <1>0, <1>1, <1>2, <1>3 DEF BankInv, WritesAreAccounts
<1>9. CommitsDefault'
  <2>1. ASSUME NEW d \in BankCalls \ {c}, bankCall[d].at = "commit"
        PROVE  /\ bankCall[d].about \in BankAccounts
               /\ bankLock[bankCall[d].about] = d
    BY <2>1 DEF BankInv, CommitsDefault, CallsAreAbout
  <2>2. ASSUME NEW d \in BankCalls \ {c}, NEW b \in BankAccounts, bankLock'[b] = d
        PROVE  bankLock[b] = d
    BY <2>2, <1>0, <1>2, <1>3
  <2> QED BY <1>1, <1>2, <2>1, <2>2 DEF BankInv, CommitsDefault
<1>10. WithdrawalsKeepAccount'
  BY <1>4 DEF BankInv, BankTypeOK, WithdrawalsKeepAccount
<1> QED BY <1>6, <1>7, <1>8, <1>9, <1>10 DEF BankInv

\* A step keeps the invariant.
LEMMA BankStep == BankInv /\ [BankNext]_bankVars => BankInv'
<1> SUFFICES ASSUME BankInv, [BankNext]_bankVars PROVE BankInv'
  OBVIOUS
<1>0. /\ BankTypeOK /\ bankCall \in [BankCalls -> BankCallRecords]
      /\ withdrawn \subseteq BankAccounts /\ \A a \in withdrawn : Exists(a)
      /\ bankLock \in [BankAccounts -> BankCalls \cup {NoBank}]
      /\ NoBank \notin BankAccounts /\ NoBank \notin BankCalls
  BY BankAssumption DEF BankInv, BankTypeOK, WithdrawalsKeepAccount
<1>1. ASSUME NEW c \in BankCalls, NEW a \in BankAccounts, CreateBankAccount(c, a)
      PROVE  BankInv'
  <2>1. /\ \A b \in BankAccounts : bankLock[b] # c
        /\ Writable(c, a) /\ bank[a] = "none" /\ UNCHANGED <<bank, withdrawn>>
    BY <1>1, HoldsNothing DEF CreateBankAccount, NoBankCall, Writable
  <2>2. CASE WriteRow(c, a, "plain") /\ BankTo(c, "commit", a, {})
    <3>1. /\ bankCall' \in [BankCalls -> BankCallRecords]
          /\ bankCall'[c] = [at |-> "commit", about |-> a, todo |-> {}]
          /\ \A d \in BankCalls \ {c} : bankCall'[d] = bankCall[d]
      BY <1>0, <2>2, BankTo(c, "commit", a, {}) DEF BankTo, BankCallRecords
    <3> QED BY <2>1, <2>2, <3>1, WritingStep
  <2>3. CASE WriteRow(c, a, "default") /\ BankTo(c, "clear", a, OtherDefaults(a))
    <3>1. /\ bankCall' \in [BankCalls -> BankCallRecords]
          /\ bankCall'[c] = [at |-> "clear", about |-> a, todo |-> OtherDefaults(a)]
          /\ \A d \in BankCalls \ {c} : bankCall'[d] = bankCall[d]
      BY <1>0, <2>3, OtherDefaults(a) \in SUBSET BankAccounts, BankToRecords DEF OtherDefaults
    <3> QED BY <2>1, <2>3, <3>1, WritingStep
  <2> QED BY <1>1, <2>2, <2>3 DEF CreateBankAccount
<1>2. ASSUME NEW c \in BankCalls, NEW a \in BankAccounts, SetDefault(c, a) PROVE BankInv'
  <2>1. /\ bankCall' \in [BankCalls -> BankCallRecords]
        /\ bankCall'[c] = [at |-> "clear", about |-> a, todo |-> OtherDefaults(a)]
        /\ \A d \in BankCalls \ {c} : bankCall'[d] = bankCall[d]
    <3>1. BankTo(c, "clear", a, OtherDefaults(a)) /\ OtherDefaults(a) \in SUBSET BankAccounts
      BY <1>2 DEF SetDefault, OtherDefaults
    <3> QED BY <1>0, <3>1, BankToRecords
  <2>2. \A b \in BankAccounts : bankLock[b] # c
    BY <1>2, HoldsNothing DEF SetDefault, NoBankCall
  <2> QED BY <1>0, <1>2, <2>1, <2>2, QuietStep DEF SetDefault
<1>3. ASSUME NEW c \in BankCalls, NEW b \in BankAccounts, ClearDefault(c, b) PROVE BankInv'
  <2>1. /\ bankCall[c].at = "clear" /\ bankCall[c].about \in BankAccounts
        /\ bankCall' \in [BankCalls -> BankCallRecords]
        /\ bankCall'[c].at = "clear" /\ bankCall'[c].about = bankCall[c].about
        /\ \A d \in BankCalls \ {c} : bankCall'[d] = bankCall[d]
    BY <1>0, <1>3 DEF ClearDefault, BankCallRecords, BankInv, CallsAreAbout
  <2>2. CASE Exists(b)
    BY <1>3, <2>1, <2>2, WritingStep DEF ClearDefault
  <2>3. CASE ~Exists(b)
    <3>1. UNCHANGED <<bank, bankLock, written, withdrawn>>
      BY <1>3, <2>3 DEF ClearDefault
    <3>2. BankTypeOK' /\ CallsAreAbout' /\ WithdrawalsKeepAccount'
      BY <2>1, <3>1
      DEF BankInv, BankTypeOK, CallsAreAbout, WithdrawalsKeepAccount, Exists
    <3>3. WritesAreAccounts' /\ CommitsDefault'
      BY <1>0, <2>1, <3>1 DEF BankInv, WritesAreAccounts, CommitsDefault
    <3> QED BY <3>2, <3>3 DEF BankInv
  <2> QED BY <2>2, <2>3
<1>4. ASSUME NEW c \in BankCalls, SaveDefault(c) PROVE BankInv'
  <2> DEFINE a == bankCall[c].about
  <2>1. a \in BankAccounts /\ Writable(c, a) /\ WriteRow(c, a, "default")
          /\ BankTo(c, "commit", a, {}) /\ UNCHANGED <<bank, withdrawn>>
    BY <1>4 DEF SaveDefault, BankInv, CallsAreAbout
  <2>2. /\ bankCall' \in [BankCalls -> BankCallRecords]
        /\ bankCall'[c] = [at |-> "commit", about |-> a, todo |-> {}]
        /\ \A d \in BankCalls \ {c} : bankCall'[d] = bankCall[d]
    BY <1>0, <2>1, BankToRecords
  <2> QED BY <2>1, <2>2, WritingStep
<1>5. ASSUME NEW c \in BankCalls, CommitBank(c) \/ RollbackBank(c) PROVE BankInv'
  BY <1>5, EndingStep DEF CommitBank, RollbackBank
<1>6. ASSUME NEW c \in BankCalls, NEW a \in BankAccounts,
             NameAccount(c, a) \/ FindUnused(c, a)
      PROVE  BankInv'
  <2>1. /\ bankCall' \in [BankCalls -> BankCallRecords]
        /\ bankCall'[c].at \in {"withdraw", "delete"} /\ bankCall'[c].about = a
        /\ \A d \in BankCalls \ {c} : bankCall'[d] = bankCall[d]
    <3>1. BankTo(c, "withdraw", a, {}) \/ BankTo(c, "delete", a, {})
      BY <1>6 DEF NameAccount, FindUnused
    <3>2. CASE BankTo(c, "withdraw", a, {})
      BY <1>0, <3>2 DEF BankTo, BankCallRecords
    <3>3. CASE BankTo(c, "delete", a, {})
      BY <1>0, <3>3 DEF BankTo, BankCallRecords
    <3> QED BY <3>1, <3>2, <3>3
  <2>2. \A b \in BankAccounts : bankLock[b] # c
    BY <1>6, HoldsNothing DEF NameAccount, FindUnused, NoBankCall
  <2>3. Exists(a) /\ UNCHANGED <<bank, bankLock, written, withdrawn>>
    BY <1>6 DEF NameAccount, FindUnused
  <2> QED BY <1>0, <2>1, <2>2, <2>3, QuietStep
<1>7. ASSUME NEW c \in BankCalls, EndWithdrawal(c) PROVE BankInv'
  <2>1. /\ bankCall' \in [BankCalls -> BankCallRecords] /\ bankCall'[c].at = "idle"
        /\ \A d \in BankCalls \ {c} : bankCall'[d] = bankCall[d]
    BY <1>0, <1>7, BankToIdle DEF EndWithdrawal
  <2>2. \A b \in BankAccounts : bankLock[b] # c
    BY <1>7, HoldsNothing DEF EndWithdrawal
  <2>3. bankCall[c].about \in BankAccounts /\ Exists(bankCall[c].about)
    BY <1>7 DEF EndWithdrawal, BankInv, CallsAreAbout
  <2>4. withdrawn' \subseteq BankAccounts /\ \A a \in withdrawn' : Exists(a)
    BY <1>0, <1>7, <2>3 DEF EndWithdrawal
  <2>5. UNCHANGED <<bank, bankLock, written>>
    BY <1>7 DEF EndWithdrawal
  <2> QED BY <2>1, <2>2, <2>4, <2>5, QuietStep
<1>8. ASSUME NEW c \in BankCalls, DeleteBankAccount(c) PROVE BankInv'
  <2> DEFINE a == bankCall[c].about
  <2>0. a \in BankAccounts /\ \A b \in BankAccounts : bankLock[b] # c
    BY <1>8, HoldsNothing DEF DeleteBankAccount, BankInv, CallsAreAbout
  <2>1. /\ bankCall' \in [BankCalls -> BankCallRecords] /\ bankCall'[c].at = "idle"
        /\ \A d \in BankCalls \ {c} : bankCall'[d] = bankCall[d]
        /\ UNCHANGED <<bankLock, written, withdrawn>>
    BY <1>0, <1>8, BankToIdle DEF DeleteBankAccount
  <2>2. CASE UNCHANGED bank
    BY <1>0, <2>0, <2>1, <2>2, QuietStep
  <2>3. CASE Unreferenced(a) /\ bank' = [bank EXCEPT ![a] = "deleted"]
    <3>1. bankLock[a] = NoBank
      BY <1>8, <2>0 DEF DeleteBankAccount, Writable
    <3>2. bank' \in [BankAccounts -> RowStates]
            /\ \A b \in BankAccounts \ {a} : bank'[b] = bank[b]
      BY <2>3 DEF BankInv, BankTypeOK, RowStates
    <3>3. BankTypeOK' /\ WritesAreAccounts'
      BY <1>0, <2>0, <2>1, <3>2 DEF BankInv, BankTypeOK, WritesAreAccounts
    <3>4. CallsAreAbout' /\ WithdrawalsKeepAccount'
      BY <2>1, <2>3, <3>2
      DEF BankInv, BankTypeOK, CallsAreAbout, WithdrawalsKeepAccount, Exists, Unreferenced
    <3>5. CommitsDefault'
      <4>1. \A d \in BankCalls : bankCall[d].at = "commit" =>
              bankCall[d].about # a /\ bankCall[d].about \in BankAccounts
        BY <1>0, <3>1 DEF BankInv, CommitsDefault, CallsAreAbout
      <4> QED BY <2>1, <3>2, <4>1 DEF BankInv, CommitsDefault
    <3> QED BY <3>3, <3>4, <3>5 DEF BankInv
  <2> QED BY <1>8, <2>2, <2>3 DEF DeleteBankAccount
<1>9. CASE UNCHANGED bankVars
  BY <1>9
  DEF bankVars, BankInv, BankTypeOK, CallsAreAbout, WritesAreAccounts, CommitsDefault,
      WithdrawalsKeepAccount, Exists
<1> QED BY <1>1, <1>2, <1>3, <1>4, <1>5, <1>6, <1>7, <1>8, <1>9 DEF BankNext

\* A withdrawal always has the account it is paid to.
THEOREM AccountsAreKept == BankSpec => []WithdrawalsKeepAccount
<1>1. BankInv => WithdrawalsKeepAccount
  BY DEF BankInv
<1> QED BY <1>1, BankStart, BankStep, PTL DEF BankSpec

\* A store loses its default account only by deleting it: no commit takes a
\* default away without having set another one.
THEOREM DefaultIsKept == BankSpec => DefaultSurvives
<1> DEFINE Lost ==
      HasDefault /\ ~HasDefault' =>
        \E a \in BankAccounts : bank[a] = "default" /\ bank'[a] = "deleted"
<1>1. BankInv /\ [BankNext]_bankVars => [Lost]_bankVars
  <2> SUFFICES ASSUME BankInv, BankNext, HasDefault, ~HasDefault'
               PROVE  \E a \in BankAccounts : bank[a] = "default" /\ bank'[a] = "deleted"
    OBVIOUS
  <2>0. bank \in [BankAccounts -> RowStates]
    BY DEF BankInv, BankTypeOK
  <2>1. ASSUME NEW c \in BankCalls, CommitBank(c) PROVE FALSE
    <3> DEFINE a == bankCall[c].about
    <3>1. /\ a \in BankAccounts /\ bankLock[a] = c
          /\ \/ written[a] = "default"
             \/ bank[a] = "none" /\ \A b \in BankAccounts : bankLock[b] = c => b = a
      BY <2>1 DEF CommitBank, BankInv, CallsAreAbout, CommitsDefault
    <3>2. \A b \in BankAccounts : bank'[b] = IF bankLock[b] = c THEN written[b] ELSE bank[b]
      BY <2>1 DEF CommitBank
    <3> QED BY <3>1, <3>2 DEF HasDefault
  <2>2. ASSUME NEW c \in BankCalls, DeleteBankAccount(c)
        PROVE  \E a \in BankAccounts : bank[a] = "default" /\ bank'[a] = "deleted"
    <3> DEFINE a == bankCall[c].about
    <3>1. bank' # bank
      BY DEF HasDefault
    <3>2. bank' = [bank EXCEPT ![a] = "deleted"] /\ a \in BankAccounts
      BY <2>2, <3>1 DEF DeleteBankAccount, BankInv, CallsAreAbout
    <3> QED BY <2>0, <3>2 DEF HasDefault
  <2>3. ASSUME UNCHANGED bank PROVE FALSE
    BY <2>3 DEF HasDefault
  <2> QED BY <2>1, <2>2, <2>3
          DEF BankNext, CreateBankAccount, SetDefault, ClearDefault, SaveDefault, RollbackBank,
              NameAccount, FindUnused, EndWithdrawal
<1> QED BY <1>1, BankStart, BankStep, PTL DEF BankSpec, DefaultSurvives

\* Both: races cost a store neither an account it needs nor its default.
COROLLARY BankIsSound == BankSpec => BankAccountsHold
BY AccountsAreKept, DefaultIsKept DEF BankAccountsHold
=============================================================================
