-------------------------- MODULE WithdrawalProofs --------------------------
(***************************************************************************)
(* Proofs about WithdrawalProcessing, for any number of workers,           *)
(* withdrawals, faults and claims.                                         *)
(*                                                                         *)
(* RecordWithdrawalProcessingError writes back a row it read without a     *)
(* lock, and can so undo an outcome committed in between.  The account is  *)
(* not overdrawn by that (ProcessingIsCovered); the rest holds where it    *)
(* cannot happen (RecordsAreSafe): no payout fails, or every run ends      *)
(* before its lock does and the TEST endpoints are not called on a         *)
(* withdrawal whose payout may fail.                                       *)
(***************************************************************************)
EXTENDS WithdrawalProcessing, SumTheorems

\* Runs end before the cron lock does, and nobody settles by hand what may fail.
OneRunAtATime == ~RunsOutliveLock /\ Failing \cap Called = {}

\* Nothing commits between the read and the write of a retry.
RecordsAreSafe == Failing = {} \/ OneRunAtATime

OpenWithdrawals == {w \in Withdrawals : ~Terminal(w)}

Busy == {"paid", "failed", "recording"}

\* The types of what the runs carry, domains included.
RunTypes ==
  /\ batch \in [Workers -> SUBSET Claims]
  /\ job \in [Workers -> Claims \cup {NoJob}]

\* A worker holds claims of different withdrawals, and only during a run.
BatchesAreSound ==
  \A k \in Workers :
    /\ at[k] \in {"idle", "claiming"} => batch[k] = {}
    /\ \A c, d \in batch[k] : c.w = d.w => c = d

\* A run that cannot outlive its lock holds it.
RunsHoldLock == ~RunsOutliveLock => \A k \in Workers : at[k] # "idle" => lock = k

\* A run gets to its error handler by a payout that failed or because the
\* withdrawal was settled meanwhile; what it is about to write back as PENDING
\* is still as it read it.
HandlersAreSound ==
  \A k \in Workers :
    /\ at[k] = "failed" => job[k].w \in Failing \/ Terminal(job[k].w)
    /\ at[k] = "recording" => job[k].w \in Failing /\ status[job[k].w] = "PROCESSING"

BlockedSum == blocked = SumOver(Amount, OpenWithdrawals)

\* Inductive whatever is overwritten.
RunInv == TypeOK /\ RunTypes /\ BatchesAreSound /\ RunsHoldLock

\* Inductive where RecordsAreSafe.
SafetyInv ==
  /\ TypeOK /\ RunTypes /\ BatchesAreSound /\ RunsHoldLock /\ HandlersAreSound
  /\ BlockedSum

InHand(k) == batch[k] \cup IF at[k] \in Busy THEN {job[k]} ELSE {}

Held(w) == \E k \in Workers : \E c \in InHand(k) : c.w = w

\* Inductive where OneRunAtATime: a claim in hand is the latest of its
\* withdrawal, and a withdrawal that may be claimed again has one more claim in
\* its budget.
BudgetInv ==
  /\ \A k \in Workers : \A c \in InHand(k) :
       c.attempts = attempts[c.w] /\ status[c.w] # "PENDING"
  /\ \A k \in Workers : at[k] = "recording" => ~LastAttempt(job[k])
  /\ \A w \in Withdrawals :
       /\ attempts[w] <= MaxAttempts + faults
       /\ \/ status[w] = "PENDING"
          \/ status[w] = "PROCESSING" /\ ~Held(w)
         => attempts[w] < MaxAttempts + faults
       /\ status[w] = "FAILED" /\ w \notin Called => attempts[w] >= MaxAttempts

-----------------------------------------------------------------------------
(* Rows and money.                                                         *)

RowTypes ==
  /\ status \in [Withdrawals -> {"PENDING", "PROCESSING", "COMPLETED", "FAILED"}]
  /\ attempts \in [Withdrawals -> Nat]
  /\ due \in [Withdrawals -> BOOLEAN] /\ stale \in [Withdrawals -> BOOLEAN]
  /\ blocked \in Nat /\ returned \in Nat
  /\ outbox \subseteq {"withdrawal.processing", "withdrawal.completed",
                       "withdrawal.failed"} \X Withdrawals

\* The part of the type invariant that is about the rows.
LEMMA RowTypesOf == TypeOK => RowTypes
BY DEF TypeOK, RowTypes

\* The two transactions that settle an open withdrawal.
Settles(w) == IsOpen(w) /\ (Sent(w) \/ Reversed(w))

\* The other ways in which a step changes rows.
Rewrites(k) == Claim(k) \/ RecordWrite(k)
Ages(w) == BecomeDue(w) \/ BecomeStale(w)

\* What the assumptions say of the constants.
LEMMA AmountTypes ==
  /\ \A w \in Withdrawals : Amount[w] \in Nat /\ Amount[w] > 0
  /\ IsFiniteSet(Withdrawals)
  /\ NoWorker \notin Workers
  /\ MaxAttempts \in Nat /\ MaxAttempts > 0 /\ MaxFaults \in Nat
<1>1. IsFiniteSet(1 .. N)
  BY ProcessingAssumption, FS_Interval
<1>2. \A w \in Withdrawals : Amount[w] \in Nat \ {0}
  BY ProcessingAssumption
<1> QED BY <1>1, <1>2, ProcessingAssumption DEF Withdrawals

\* The open withdrawals' amounts, as a sum that can be taken apart.
LEMMA OpenSum ==
  /\ IsFiniteSet(OpenWithdrawals) /\ SumOver(Amount, OpenWithdrawals) \in Nat
  /\ \A w \in OpenWithdrawals :
       /\ SumOver(Amount, OpenWithdrawals) =
            Amount[w] + SumOver(Amount, OpenWithdrawals \ {w})
       /\ SumOver(Amount, OpenWithdrawals \ {w}) \in Nat
<1>1. IsFiniteSet(OpenWithdrawals) /\ \A w \in OpenWithdrawals : Amount[w] \in Nat
  BY AmountTypes, FS_Subset DEF OpenWithdrawals
<1>2. \A w \in OpenWithdrawals : IsFiniteSet(OpenWithdrawals \ {w})
  BY <1>1, FS_RemoveElement
<1>3. \A w \in OpenWithdrawals :
        SumOver(Amount, OpenWithdrawals) = Amount[w] + SumOver(Amount, OpenWithdrawals \ {w})
  BY <1>1, SumRemove
<1> QED BY <1>1, <1>2, <1>3, SumType

\* BlockedIsReserved, with its sum as the sum lemmas know it.
LEMMA BlockedSumIsReserved == BlockedSum <=> BlockedIsReserved
BY DEF BlockedSum, BlockedIsReserved, OpenWithdrawals, SumOver, MapThenSumSet, MapThenFoldSet

\* A withdrawal that is not settled can always be: its amount is blocked.
LEMMA OpenIsCovered ==
  ASSUME RowTypes, BlockedSum, NEW w \in Withdrawals
  PROVE  IsOpen(w) <=> ~Terminal(w)
<1>1. CASE ~Terminal(w)
  <2>1. w \in OpenWithdrawals
    BY <1>1 DEF OpenWithdrawals
  <2>2. blocked >= Amount[w]
    <3> DEFINE rest == SumOver(Amount, OpenWithdrawals \ {w})
    <3>1. blocked = Amount[w] + rest /\ rest \in Nat
      BY <2>1, OpenSum DEF BlockedSum
    <3>2. Amount[w] \in Nat
      BY AmountTypes
    <3> HIDE DEF rest
    <3> QED BY <3>1, <3>2
  <2> QED BY <1>1, <2>2 DEF IsOpen, Terminal, RowTypes
<1>2. CASE Terminal(w)
  BY <1>2 DEF IsOpen, Terminal
<1> QED BY <1>1, <1>2

\* Every step changes rows and money in one of these ways, if at all.
LEMMA RowSteps ==
  ASSUME RowTypes, RunTypes, TypeOK, [Next]_vars
  PROVE  \/ UNCHANGED <<rows, money>>
         \/ \E w \in Withdrawals : Settles(w) \/ Ages(w)
         \/ \E k \in Workers : Rewrites(k)
<1> USE DEF Settles, Rewrites, Ages
<1>1. ASSUME NEW k \in Workers, Run(k)
      PROVE  \/ UNCHANGED <<rows, money>> \/ \E w \in Withdrawals : Settles(w) \/ Rewrites(k)
             \/ Rewrites(k)
  <2>1. CASE Acquire(k) \/ EndRun(k) \/ RecordRead(k) \/ \E c \in batch[k] : PayOut(k, c)
    BY <2>1 DEF Acquire, EndRun, RecordRead, PayOut
  <2>2. CASE Complete(k) \/ Fail(k)
    <3>1. job[k].w \in Withdrawals
      BY <2>2 DEF Complete, Fail, TypeOK, Claims
    <3> QED BY <2>2, <3>1 DEF Complete, Fail
  <2>3. CASE Claim(k) \/ RecordWrite(k)
    BY <2>3
  <2> QED BY <1>1, <2>1, <2>2, <2>3 DEF Run
<1>2. ASSUME NEW k \in Workers, Crash(k) \/ HandlerFails(k)
      PROVE  UNCHANGED <<rows, money>>
  BY <1>2 DEF Crash, HandlerFails
<1>3. ASSUME NEW w \in Withdrawals, DevComplete(w) \/ DevFail(w)
      PROVE  Settles(w)
  BY <1>3 DEF DevComplete, DevFail
<1>4. CASE LockExpires \/ UNCHANGED vars
  BY <1>4 DEF LockExpires, vars
<1> QED BY <1>1, <1>2, <1>3, <1>4 DEF Next

\* Every step keeps the types of the rows and the account: an amount leaves the
\* blocked balance only while it is there, even if the retry of a withdrawal
\* was recorded over its outcome.
LEMMA RowTypesKept ==
  ASSUME RunInv, [Next]_vars
  PROVE  RowTypes'
<1>0. RowTypes /\ RunTypes /\ TypeOK
  BY RowTypesOf DEF RunInv
<1>1. CASE UNCHANGED <<rows, money>>
  BY <1>0, <1>1 DEF rows, money, RowTypes
<1>2. ASSUME NEW w \in Withdrawals, Settles(w)
      PROVE  RowTypes'
  <2>1. PICK s \in {"COMPLETED", "FAILED"} : status' = [status EXCEPT ![w] = s]
    BY <1>2 DEF Settles, Sent, Reversed
  <2>2. blocked' \in Nat /\ returned + Amount[w] \in Nat
    BY <1>0, <1>2, AmountTypes DEF RowTypes, Settles, IsOpen, Sent, Reversed
  <2>3. CASE Sent(w)
    BY <1>0, <2>1, <2>2, <2>3 DEF RowTypes, Sent
  <2>4. CASE Reversed(w)
    BY <1>0, <2>1, <2>2, <2>4 DEF RowTypes, Reversed
  <2> QED BY <1>2, <2>3, <2>4 DEF Settles
<1>3. ASSUME NEW w \in Withdrawals, Ages(w)
      PROVE  RowTypes'
  BY <1>0, <1>3 DEF Ages, BecomeDue, BecomeStale, money, RowTypes
<1>4. ASSUME NEW k \in Workers, Claim(k)
      PROVE  RowTypes'
  <2> DEFINE S == Oldest(Claimable)
  <2>1. S \subseteq Withdrawals
    BY DEF Oldest, Claimable
  <2>2. /\ status' = [w \in Withdrawals |-> IF w \in S THEN "PROCESSING" ELSE status[w]]
        /\ attempts' = [w \in Withdrawals |-> IF w \in S THEN attempts[w] + 1 ELSE attempts[w]]
        /\ due' = [w \in Withdrawals |-> w \in S \/ due[w]]
        /\ stale' = [w \in Withdrawals |-> w \notin S /\ stale[w]]
        /\ outbox' = outbox \cup {<<"withdrawal.processing", w>> : w \in S}
        /\ UNCHANGED <<blocked, returned>>
    BY <1>4 DEF Claim
  <2> HIDE DEF S
  <2>3. /\ status' \in [Withdrawals -> {"PENDING", "PROCESSING", "COMPLETED", "FAILED"}]
        /\ attempts' \in [Withdrawals -> Nat]
    BY <1>0, <2>2 DEF RowTypes
  <2>4. due' \in [Withdrawals -> BOOLEAN] /\ stale' \in [Withdrawals -> BOOLEAN]
    BY <1>0, <2>2, Zenon DEF RowTypes
  <2>5. outbox' \subseteq {"withdrawal.processing", "withdrawal.completed",
                          "withdrawal.failed"} \X Withdrawals
    BY <1>0, <2>1, <2>2 DEF RowTypes
  <2> QED BY <1>0, <2>2, <2>3, <2>4, <2>5 DEF RowTypes
<1>5. ASSUME NEW k \in Workers, RecordWrite(k)
      PROVE  RowTypes'
  <2>1. job[k].w \in Withdrawals /\ job[k].attempts \in Nat
    BY <1>5 DEF RecordWrite, RunInv, TypeOK, Claims
  <2> QED BY <1>0, <1>5, <2>1 DEF RowTypes, RecordWrite, money
<1> QED BY <1>0, <1>1, <1>2, <1>3, <1>4, <1>5, RowSteps DEF Rewrites

\* What RecordWrite overwrites is still as it was read, so no step changes an
\* outcome, and the sum loses a withdrawal only when that is settled.
LEMMA RowsKept ==
  ASSUME SafetyInv, [Next]_vars
  PROVE  /\ BlockedSum'
         /\ \A w \in Withdrawals : Terminal(w) => status'[w] = status[w]
<1>0. RowTypes /\ RunTypes /\ BlockedSum /\ TypeOK
  BY DEF SafetyInv, TypeOK, RowTypes
<1> DEFINE Stands == \A w \in Withdrawals : Terminal(w) => status'[w] = status[w]
<1>1. ASSUME blocked' = blocked, \A w \in Withdrawals : Terminal(w)' = Terminal(w)
      PROVE  BlockedSum'
  BY <1>0, <1>1 DEF BlockedSum, OpenWithdrawals
<1>2. CASE UNCHANGED <<rows, money>>
  BY <1>0, <1>1, <1>2 DEF rows, money, Terminal
<1>3. ASSUME NEW w \in Withdrawals, Settles(w)
      PROVE  BlockedSum' /\ Stands
  <2>1. PICK s \in {"COMPLETED", "FAILED"} : status' = [status EXCEPT ![w] = s]
    BY <1>3 DEF Settles, Sent, Reversed
  <2>2. blocked' = blocked - Amount[w] /\ blocked >= Amount[w] /\ ~Terminal(w)
    BY <1>3 DEF Settles, IsOpen, Sent, Reversed, Terminal
  <2>3. OpenWithdrawals' = OpenWithdrawals \ {w} /\ w \in OpenWithdrawals
    BY <1>0, <2>1, <2>2 DEF OpenWithdrawals, Terminal, RowTypes
  <2>4. BlockedSum'
    <3>1. /\ SumOver(Amount, OpenWithdrawals) =
               Amount[w] + SumOver(Amount, OpenWithdrawals \ {w})
          /\ SumOver(Amount, OpenWithdrawals \ {w}) \in Nat
      BY <2>3, OpenSum
    <3>2. blocked = SumOver(Amount, OpenWithdrawals)
      BY <1>0 DEF BlockedSum
    <3>3. blocked' = SumOver(Amount, OpenWithdrawals \ {w})
      BY <2>2, <3>1, <3>2, AmountTypes
    <3> QED BY <2>3, <3>3 DEF BlockedSum
  <2>5. Stands
    BY <1>0, <2>1, <2>2 DEF RowTypes
  <2> QED BY <2>4, <2>5
<1>4. ASSUME NEW w \in Withdrawals, Ages(w)
      PROVE  BlockedSum' /\ Stands
  <2>1. UNCHANGED <<status, attempts, money>>
    BY <1>4 DEF Ages, BecomeDue, BecomeStale, money
  <2> QED BY <1>1, <2>1 DEF money, Terminal
<1>5. ASSUME NEW k \in Workers, Claim(k)
      PROVE  BlockedSum' /\ Stands
  <2> DEFINE S == Oldest(Claimable)
  <2>1. S \subseteq Withdrawals /\ \A w \in S : ~Terminal(w)
    BY DEF Oldest, Claimable, Terminal
  <2>2. status' = [w \in Withdrawals |-> IF w \in S THEN "PROCESSING" ELSE status[w]]
    BY <1>5 DEF Claim
  <2>4. Stands /\ \A w \in Withdrawals : Terminal(w)' = Terminal(w)
    BY <1>0, <2>1, <2>2 DEF RowTypes, Terminal
  <2>5. blocked' = blocked
    BY <1>5 DEF Claim
  <2> QED BY <1>1, <2>4, <2>5
<1>6. ASSUME NEW k \in Workers, RecordWrite(k)
      PROVE  BlockedSum' /\ Stands
  <2>1. job[k] \in Claims /\ status[job[k].w] = "PROCESSING"
    BY <1>6 DEF RecordWrite, SafetyInv, TypeOK, HandlersAreSound
  <2>2. job[k].w \in Withdrawals /\ job[k].attempts \in Nat
    BY <2>1 DEF Claims
  <2>3. status' = [status EXCEPT ![job[k].w] = "PENDING"] /\ blocked' = blocked
    BY <1>6 DEF RecordWrite, money
  <2>4. Stands /\ \A w \in Withdrawals : Terminal(w)' = Terminal(w)
    BY <1>0, <2>1, <2>2, <2>3 DEF RowTypes, Terminal
  <2> QED BY <1>1, <2>3, <2>4
<1> QED BY <1>0, <1>2, <1>3, <1>4, <1>5, <1>6, RowSteps DEF Rewrites

-----------------------------------------------------------------------------
(* Runs.                                                                   *)

\* What TypeOK and the invariants above say of one worker's run.
RunIsSound(k) ==
  /\ at[k] \in {"idle", "claiming", "looping", "paid", "failed", "recording"}
  /\ batch[k] \subseteq Claims
  /\ \A c, d \in batch[k] : c.w = d.w => c = d
  /\ at[k] \in {"idle", "claiming"} => batch[k] = {}
  /\ IF at[k] \in Busy
     THEN job[k] \in Claims /\ \A c \in batch[k] : c.w # job[k].w
     ELSE job[k] = NoJob

RunMaps ==
  /\ at \in [Workers -> {"idle", "claiming", "looping", "paid", "failed", "recording"}]
  /\ RunTypes

SoundRuns == RunMaps /\ \A k \in Workers : RunIsSound(k)

\* What a sound run is: claims in hand, one of them worked on.
LEMMA RunsAreSound ==
  SoundRuns <=> /\ RunTypes /\ BatchesAreSound
                /\ at \in [Workers -> {"idle", "claiming", "looping", "paid", "failed",
                                       "recording"}]
                /\ \A k \in Workers :
                     /\ batch[k] \subseteq Claims
                     /\ IF at[k] \in {"paid", "failed", "recording"}
                        THEN job[k] \in Claims /\ \A c \in batch[k] : c.w # job[k].w
                        ELSE job[k] = NoJob
BY DEF SoundRuns, RunMaps, RunIsSound, RunTypes, BatchesAreSound, Busy

\* A step of worker k keeps the other workers' runs, and its own sound.
LEMMA StepKeepsRuns ==
  ASSUME SoundRuns, RowTypes, NEW k \in Workers, Run(k) \/ Crash(k) \/ HandlerFails(k)
  PROVE  /\ SoundRuns'
         /\ \A j \in Workers \ {k} :
              at'[j] = at[j] /\ batch'[j] = batch[j] /\ job'[j] = job[j]
<1> DEFINE Others == \A j \in Workers \ {k} :
             at'[j] = at[j] /\ batch'[j] = batch[j] /\ job'[j] = job[j]
<1>0. RunMaps /\ RunIsSound(k)
  BY DEF SoundRuns
<1>1. SUFFICES RunMaps' /\ Others /\ RunIsSound(k)'
  BY DEF SoundRuns, RunIsSound
<1> USE DEF RunMaps, RunTypes, RunIsSound, Busy, GoTo
<1>2. CASE Acquire(k) \/ EndRun(k)
  BY <1>0, <1>2 DEF Acquire, EndRun
<1>3. CASE Claim(k)
  <2> DEFINE S == Oldest(Claimable)
             B == {[w |-> w, attempts |-> attempts'[w]] : w \in S}
  <2>1. B \subseteq Claims /\ \A c, d \in B : c.w = d.w => c = d
    <3>1. S \subseteq Withdrawals
      BY DEF Oldest, Claimable
    <3>2. attempts' = [w \in Withdrawals |-> IF w \in S THEN attempts[w] + 1 ELSE attempts[w]]
      BY <1>3 DEF Claim
    <3> HIDE DEF S
    <3>3. \A w \in S : attempts'[w] \in Nat
      BY <3>1, <3>2 DEF RowTypes
    <3> QED BY <3>1, <3>3 DEF Claims
  <2>2. /\ batch' = [batch EXCEPT ![k] = B] /\ at[k] = "claiming"
        /\ at' = [at EXCEPT ![k] = "looping"] /\ job' = job
    BY <1>3 DEF Claim
  <2> HIDE DEF B
  <2> QED BY <1>0, <2>1, <2>2
<1>4. ASSUME NEW c \in batch[k], PayOut(k, c)
      PROVE  RunMaps' /\ Others /\ RunIsSound(k)'
  <2>1. PICK p \in {"paid", "failed"} : at' = [at EXCEPT ![k] = p]
    BY <1>4 DEF PayOut
  <2>2. /\ job' = [job EXCEPT ![k] = c] /\ batch' = [batch EXCEPT ![k] = @ \ {c}]
        /\ c \in Claims
    BY <1>0, <1>4 DEF PayOut
  <2> QED BY <1>0, <2>1, <2>2
<1>5. CASE NextClaim(k) /\ at[k] \in Busy
  BY <1>0, <1>5 DEF NextClaim
<1>6. CASE Complete(k)
  <2>1. CASE NextClaim(k)
    BY <1>5, <1>6, <2>1 DEF Complete
  <2>2. CASE GoTo(k, "failed") /\ UNCHANGED <<batch, job>>
    BY <1>0, <1>6, <2>2 DEF Complete
  <2> QED BY <1>6, <2>1, <2>2 DEF Complete
<1>7. CASE Fail(k) \/ RecordWrite(k) \/ HandlerFails(k)
  BY <1>5, <1>7 DEF Fail, RecordWrite, HandlerFails
<1>8. CASE RecordRead(k)
  <2>1. CASE NextClaim(k)
    BY <1>5, <1>8, <2>1 DEF RecordRead
  <2>2. CASE ~NextClaim(k)
    <3>1. /\ at[k] = "failed" /\ at' = [at EXCEPT ![k] = "recording"] /\ batch' = batch
          /\ job' = [job EXCEPT ![k].attempts = attempts[job[k].w]]
      BY <1>8, <2>2 DEF RecordRead
    <3>2. attempts[job[k].w] \in Nat /\ job[k] \in Claims
      BY <1>0, <3>1 DEF Claims, RowTypes
    <3>3. job'[k] \in Claims /\ job'[k].w = job[k].w
      BY <1>0, <3>1, <3>2 DEF Claims
    <3> QED BY <1>0, <3>1, <3>3
  <2> QED BY <2>1, <2>2
<1>9. CASE Crash(k)
  BY <1>0, <1>9 DEF Crash
<1> QED BY <1>2, <1>3, <1>4, <1>6, <1>7, <1>8, <1>9 DEF Run

\* Only the workers' own steps move a run, hand over the lock or count a fault.
LEMMA OthersKeepRuns ==
  ASSUME [Next]_vars, ~ \E k \in Workers : Run(k) \/ Crash(k) \/ HandlerFails(k)
  PROVE  /\ UNCHANGED <<runs, faults>>
         /\ \/ lock' = lock
            \/ lock # NoWorker /\ (RunsOutliveLock \/ at[lock] = "idle") /\ lock' = NoWorker
BY DEF Next, DevComplete, DevFail, BecomeDue, BecomeStale, LockExpires, vars

\* The cron lock names a worker or nobody, and faults stay within their bound.
LEMMA LockAndFaults ==
  ASSUME TypeOK, [Next]_vars
  PROVE  lock' \in Workers \cup {NoWorker} /\ faults' \in 0 .. MaxFaults
<1>1. ASSUME NEW k \in Workers, Run(k) \/ Crash(k) \/ HandlerFails(k)
      PROVE  /\ lock' \in {lock, k, NoWorker}
             /\ faults' = faults \/ (faults < MaxFaults /\ faults' = faults + 1)
  BY <1>1 DEF Run, Acquire, Claim, EndRun, PayOut, Complete, Fail, RecordRead, RecordWrite,
              Crash, HandlerFails
<1>2. CASE \E k \in Workers : Run(k) \/ Crash(k) \/ HandlerFails(k)
  BY <1>1, <1>2, AmountTypes DEF TypeOK
<1>3. CASE ~ \E k \in Workers : Run(k) \/ Crash(k) \/ HandlerFails(k)
  BY <1>3, OthersKeepRuns DEF TypeOK
<1> QED BY <1>2, <1>3

\* The lock changes hands only while it is free, or its holder's run is over.
LEMMA LockIsHeld ==
  ASSUME RunInv, SoundRuns, [Next]_vars
  PROVE  RunsHoldLock'
<1> SUFFICES ASSUME ~RunsOutliveLock, NEW j \in Workers, at'[j] # "idle"
             PROVE  lock' = j
  BY DEF RunsHoldLock
<1>0. /\ \A i \in Workers : at[i] # "idle" => lock = i
      /\ NoWorker \notin Workers
      /\ at \in [Workers -> {"idle", "claiming", "looping", "paid", "failed", "recording"}]
  BY AmountTypes DEF RunInv, RunsHoldLock, TypeOK
<1>1. ASSUME NEW k \in Workers, Run(k) \/ Crash(k) \/ HandlerFails(k)
      PROVE  lock' = j
  <2>1. CASE Acquire(k)
    BY <1>0, <2>1 DEF Acquire, GoTo
  <2>2. CASE EndRun(k)
    BY <1>0, <2>2 DEF EndRun, GoTo
  <2>3. CASE ~Acquire(k) /\ ~EndRun(k)
    <3>1. lock' = lock /\ at[k] # "idle"
      BY <1>1, <2>3 DEF Run, Claim, PayOut, Complete, Fail, RecordRead, RecordWrite, Crash,
                        HandlerFails
    <3>2. j # k => at'[j] = at[j]
      BY <1>1, RowTypesOf, StepKeepsRuns DEF RunInv
    <3> QED BY <1>0, <3>1, <3>2
  <2> QED BY <2>1, <2>2, <2>3
<1>2. CASE ~ \E k \in Workers : Run(k) \/ Crash(k) \/ HandlerFails(k)
  BY <1>0, <1>2, OthersKeepRuns DEF runs
<1> QED BY <1>1, <1>2

\* Every step keeps runs, lock and types.
LEMMA RunStep == RunInv /\ [Next]_vars => RunInv'
<1> SUFFICES ASSUME RunInv, [Next]_vars PROVE RunInv'
  OBVIOUS
<1>1. SoundRuns /\ TypeOK /\ RowTypes
  BY RunsAreSound, RowTypesOf DEF RunInv, TypeOK
<1>2. SoundRuns'
  <2>1. CASE UNCHANGED runs
    BY <1>1, <2>1 DEF runs, SoundRuns, RunMaps, RunTypes, RunIsSound
  <2> QED BY <1>1, <2>1, StepKeepsRuns, OthersKeepRuns
<1>3. TypeOK' /\ RunTypes' /\ BatchesAreSound'
  <2>1. RowTypes' /\ lock' \in Workers \cup {NoWorker} /\ faults' \in 0 .. MaxFaults
    BY <1>1, RowTypesKept, LockAndFaults
  <2> QED BY <1>2, <2>1
      DEF SoundRuns, RunMaps, RunIsSound, RunTypes, BatchesAreSound, Busy, TypeOK, RowTypes
<1> QED BY <1>1, <1>3, LockIsHeld DEF RunInv

\* A withdrawal a run is about to write back is changed by nobody else: no
\* payout fails, or the run holds the lock and no TEST endpoint is called.
LEMMA RecordingIsAlone ==
  ASSUME RecordsAreSafe, SafetyInv, SoundRuns, [Next]_vars,
         NEW j \in Workers, at[j] = "recording", ~Run(j)
  PROVE  status'[job[j].w] = status[job[j].w] /\ attempts'[job[j].w] = attempts[job[j].w]
<1> DEFINE w == job[j].w
<1>0. /\ w \in Failing /\ w \in Withdrawals /\ ~RunsOutliveLock /\ w \notin Called
      /\ RowTypes /\ lock = j
  BY RowTypesOf DEF SafetyInv, HandlersAreSound, SoundRuns, RunIsSound, Busy, Claims,
                    RecordsAreSafe, OneRunAtATime, RunsHoldLock
<1>1. ASSUME NEW k \in Workers, Run(k)
      PROVE  UNCHANGED <<status, attempts>>
  <2>1. k # j /\ at[k] = "idle"
    BY <1>0, <1>1 DEF SafetyInv, RunsHoldLock
  <2> QED
    BY <1>1, <2>1 DEF Run, Acquire, Claim, EndRun, PayOut, Complete, Fail, RecordRead,
                      RecordWrite, rows
<1>2. ASSUME NEW v \in Withdrawals, DevComplete(v) \/ DevFail(v)
      PROVE  status'[w] = status[w] /\ attempts'[w] = attempts[w]
  BY <1>0, <1>2 DEF DevComplete, DevFail, Sent, Reversed, RowTypes
<1>3. CASE \/ \E k \in Workers : Crash(k) \/ HandlerFails(k)
           \/ \E v \in Withdrawals : BecomeDue(v) \/ BecomeStale(v)
           \/ LockExpires \/ UNCHANGED vars
  BY <1>3 DEF Crash, HandlerFails, BecomeDue, BecomeStale, LockExpires, vars, rows
<1> QED BY <1>1, <1>2, <1>3 DEF Next

\* An error handler is reached only by a claim that failed or was settled by another.
LEMMA HandlersKept ==
  ASSUME RecordsAreSafe, SafetyInv, SoundRuns, [Next]_vars
  PROVE  HandlersAreSound'
<1> SUFFICES ASSUME NEW j \in Workers
             PROVE  /\ at'[j] = "failed" =>
                         job'[j].w \in Failing \/ status'[job'[j].w] \in {"COMPLETED", "FAILED"}
                    /\ at'[j] = "recording" =>
                         job'[j].w \in Failing /\ status'[job'[j].w] = "PROCESSING"
  BY DEF HandlersAreSound, Terminal
<1> DEFINE G == /\ at'[j] = "failed" =>
                     job'[j].w \in Failing \/ status'[job'[j].w] \in {"COMPLETED", "FAILED"}
                /\ at'[j] = "recording" =>
                     job'[j].w \in Failing /\ status'[job'[j].w] = "PROCESSING"
<1>0. /\ RowTypes /\ BlockedSum /\ RunMaps /\ RunIsSound(j)
      /\ at[j] = "failed" => job[j].w \in Failing \/ Terminal(job[j].w)
      /\ at[j] = "recording" => job[j].w \in Failing /\ status[job[j].w] = "PROCESSING"
      /\ at[j] \in Busy => job[j].w \in Withdrawals
  BY RowTypesOf DEF SafetyInv, HandlersAreSound, SoundRuns, RunIsSound, Claims
<1>1. \A w \in Withdrawals : Terminal(w) => Terminal(w)'
  BY RowsKept DEF Terminal
<1>2. ASSUME at'[j] = at[j], job'[j] = job[j], ~Run(j)
      PROVE  G
  BY <1>0, <1>1, <1>2, RecordingIsAlone DEF Busy, Terminal
<1>3. CASE Run(j)
  <2> USE DEF RunMaps, RunTypes, GoTo
  <2>1. CASE Acquire(j) \/ Claim(j) \/ EndRun(j) \/ RecordWrite(j) \/ Fail(j)
    BY <1>0, <2>1 DEF Acquire, Claim, EndRun, RecordWrite, Fail, NextClaim
  <2>2. ASSUME NEW c \in batch[j], PayOut(j, c)
        PROVE  G
    BY <1>0, <2>2 DEF PayOut
  <2>3. CASE Complete(j)
    <3>1. CASE NextClaim(j)
      BY <1>0, <3>1 DEF NextClaim
    <3>2. CASE ~NextClaim(j)
      <4>1. /\ ~IsOpen(job[j].w) /\ at' = [at EXCEPT ![j] = "failed"] /\ job' = job
            /\ status' = status /\ at[j] \in Busy
        BY <2>3, <3>2 DEF Complete, rows, Busy
      <4>2. Terminal(job[j].w)'
        BY <1>0, <1>1, <4>1, OpenIsCovered
      <4> QED BY <1>0, <4>1, <4>2 DEF Terminal
    <3> QED BY <3>1, <3>2
  <2>4. CASE RecordRead(j)
    <3>1. CASE NextClaim(j)
      BY <1>0, <3>1 DEF NextClaim
    <3>2. CASE ~NextClaim(j)
      <4>1. /\ at[j] = "failed" /\ status[job[j].w] = "PROCESSING" /\ status' = status
            /\ at' = [at EXCEPT ![j] = "recording"]
            /\ job' = [job EXCEPT ![j].attempts = attempts[job[j].w]]
        BY <2>4, <3>2 DEF RecordRead, rows
      <4>2. job'[j].w = job[j].w
        BY <1>0, <4>1 DEF RunIsSound, Claims, Busy
      <4> QED BY <1>0, <4>1, <4>2 DEF Terminal
    <3> QED BY <3>1, <3>2
  <2> QED BY <1>3, <2>1, <2>2, <2>3, <2>4 DEF Run
<1>4. CASE ~Run(j) /\ (Crash(j) \/ HandlerFails(j))
  BY <1>0, <1>4 DEF Crash, HandlerFails, NextClaim, GoTo, RunMaps
<1>5. CASE ~Run(j) /\ \E k \in Workers \ {j} : Run(k) \/ Crash(k) \/ HandlerFails(k)
  <2>1. at'[j] = at[j] /\ job'[j] = job[j]
    BY <1>0, <1>5, StepKeepsRuns
  <2> QED BY <1>2, <1>5, <2>1
<1>6. CASE ~ \E k \in Workers : Run(k) \/ Crash(k) \/ HandlerFails(k)
  BY <1>2, <1>6, OthersKeepRuns DEF runs
<1> QED BY <1>3, <1>4, <1>5, <1>6

\* A run starts with nothing in hand, and everything is blocked.
LEMMA ProcessingStart == Init => RunInv /\ BlockedSum /\ HandlersAreSound
<1> SUFFICES ASSUME Init PROVE RunInv /\ BlockedSum /\ HandlersAreSound
  OBVIOUS
<1>1. OpenWithdrawals = Withdrawals
  BY DEF Init, OpenWithdrawals, Terminal
<1>2. BlockedSum
  BY <1>1 DEF Init, BlockedSum, SumOver, MapThenSumSet, MapThenFoldSet
<1>3. blocked \in Nat
  BY <1>2, OpenSum DEF BlockedSum
<1>4. TypeOK
  BY <1>3, AmountTypes DEF Init, TypeOK, NoJob
<1>5. RunTypes /\ BatchesAreSound /\ RunsHoldLock /\ HandlersAreSound
  BY DEF Init, RunTypes, BatchesAreSound, RunsHoldLock, HandlersAreSound
<1> QED BY <1>2, <1>4, <1>5 DEF RunInv

\* Where no retry is recorded over an outcome, the safety invariant holds.
LEMMA SafetyInvariant == RecordsAreSafe => (Spec => []SafetyInv)
<1> SUFFICES ASSUME RecordsAreSafe PROVE Spec => []SafetyInv
  OBVIOUS
<1>0. SafetyInv <=> RunInv /\ HandlersAreSound /\ BlockedSum
  BY DEF SafetyInv, RunInv
<1>1. Init => SafetyInv
  BY <1>0, ProcessingStart
<1>2. SafetyInv /\ [Next]_vars => SafetyInv'
  <2> SUFFICES ASSUME SafetyInv, [Next]_vars PROVE SafetyInv'
    OBVIOUS
  <2>1. SoundRuns
    BY RunsAreSound DEF SafetyInv, TypeOK
  <2>2. RunInv'
    BY <1>0, RunStep
  <2> QED BY <2>1, <2>2, RowsKept, HandlersKept DEF SafetyInv, RunInv
<1> QED BY <1>1, <1>2, PTL DEF Spec

-----------------------------------------------------------------------------
(* What the account and its subscribers see.                               *)

\* No interleaving of workers, TEST calls, crashes and retries overdraws the
\* account or hands a worker two claims of one withdrawal: this much holds even
\* where a retry undoes an outcome.
THEOREM ProcessingIsCovered == Spec => []TypeOK
<1>1. RunInv => TypeOK
  BY DEF RunInv
<1> QED BY <1>1, ProcessingStart, RunStep, PTL DEF Spec

\* Where nothing stale is written back an outcome is final ("Withdrawal is
\* already terminal"), however runs overlap and crash.
THEOREM OutcomesStand == RecordsAreSafe => (Spec => TerminalIsFinal)
<1> SUFFICES ASSUME RecordsAreSafe PROVE Spec => TerminalIsFinal
  OBVIOUS
<1> DEFINE Stands == \A w \in Withdrawals : Terminal(w) => status'[w] = status[w]
<1>1. SafetyInv /\ [Next]_vars => Stands
  BY RowsKept
<1>2. Spec => []SafetyInv
  BY SafetyInvariant
<1> QED BY <1>1, <1>2, PTL DEF Spec, TerminalIsFinal

\* No reservation is lost, freed twice or taken from another withdrawal.
THEOREM ReservationsAreKept == RecordsAreSafe => (Spec => []BlockedIsReserved)
<1> SUFFICES ASSUME RecordsAreSafe PROVE Spec => []BlockedIsReserved
  OBVIOUS
<1>1. SafetyInv => BlockedIsReserved
  BY BlockedSumIsReserved DEF SafetyInv
<1>2. Spec => []SafetyInv
  BY SafetyInvariant
<1> QED BY <1>1, <1>2, PTL

\* A withdrawal without an outcome can be settled, either way, whatever the
\* others have taken: the account never answers that too little is blocked.
THEOREM SettlingIsNeverRefused ==
  RecordsAreSafe => (Spec => [](\A w \in Withdrawals : ~Terminal(w) => IsOpen(w)))
<1> SUFFICES ASSUME RecordsAreSafe
             PROVE  Spec => [](\A w \in Withdrawals : ~Terminal(w) => IsOpen(w))
  OBVIOUS
<1>1. SafetyInv => \A w \in Withdrawals : ~Terminal(w) => IsOpen(w)
  BY OpenIsCovered, RowTypesOf DEF SafetyInv
<1>2. Spec => []SafetyInv
  BY SafetyInvariant
<1> QED BY <1>1, <1>2, PTL

\* Every step announces exactly the outcome it writes.
LEMMA OutcomeStep ==
  ASSUME SafetyInv, [Next]_vars, OneOutcomeAnnounced
  PROVE  OneOutcomeAnnounced'
<1> SUFFICES ASSUME NEW v \in Withdrawals
             PROVE  /\ <<"withdrawal.completed", v>> \in outbox' <=> status'[v] = "COMPLETED"
                    /\ <<"withdrawal.failed", v>> \in outbox' <=> status'[v] = "FAILED"
  BY DEF OneOutcomeAnnounced
<1> DEFINE G == /\ <<"withdrawal.completed", v>> \in outbox' <=> status'[v] = "COMPLETED"
                /\ <<"withdrawal.failed", v>> \in outbox' <=> status'[v] = "FAILED"
<1>0. /\ RowTypes /\ TypeOK /\ RunTypes
      /\ <<"withdrawal.completed", v>> \in outbox <=> status[v] = "COMPLETED"
      /\ <<"withdrawal.failed", v>> \in outbox <=> status[v] = "FAILED"
  BY RowTypesOf DEF SafetyInv, OneOutcomeAnnounced
<1>1. CASE UNCHANGED <<status, outbox>>
  BY <1>0, <1>1
<1>2. ASSUME NEW w \in Withdrawals, Settles(w)
      PROVE  G
  BY <1>0, <1>2 DEF Settles, IsOpen, Sent, Reversed, RowTypes
<1>3. ASSUME NEW k \in Workers, Claim(k)
      PROVE  G
  <2> DEFINE S == Oldest(Claimable)
  <2>1. v \in S => ~Terminal(v)
    BY DEF Oldest, Claimable, Terminal
  <2>2. /\ status'[v] = IF v \in S THEN "PROCESSING" ELSE status[v]
        /\ outbox' = outbox \cup {<<"withdrawal.processing", w>> : w \in S}
    BY <1>3 DEF Claim
  <2> HIDE DEF S
  <2>3. /\ <<"withdrawal.completed", v>> \in outbox' <=> <<"withdrawal.completed", v>> \in outbox
        /\ <<"withdrawal.failed", v>> \in outbox' <=> <<"withdrawal.failed", v>> \in outbox
    BY <2>2
  <2> QED BY <1>0, <2>1, <2>2, <2>3 DEF Terminal
<1>4. ASSUME NEW k \in Workers, RecordWrite(k)
      PROVE  G
  <2>1. job[k].w \in Withdrawals /\ status[job[k].w] = "PROCESSING"
    BY <1>4 DEF RecordWrite, SafetyInv, TypeOK, HandlersAreSound, Claims
  <2> QED BY <1>0, <1>4, <2>1 DEF RecordWrite, money, RowTypes
<1> QED
  BY <1>0, <1>1, <1>2, <1>3, <1>4, RowSteps
  DEF rows, money, Rewrites, Ages, BecomeDue, BecomeStale

\* A merchant's subscribers hear of exactly the outcome the row holds.
THEOREM OneOutcomeIsAnnounced == RecordsAreSafe => (Spec => []OneOutcomeAnnounced)
<1> SUFFICES ASSUME RecordsAreSafe PROVE Spec => []OneOutcomeAnnounced
  OBVIOUS
<1>1. Init => OneOutcomeAnnounced
  BY DEF Init, OneOutcomeAnnounced
<1>2. SafetyInv /\ OneOutcomeAnnounced /\ [Next]_vars => OneOutcomeAnnounced'
  BY OutcomeStep
<1>3. Spec => []SafetyInv
  BY SafetyInvariant
<1> QED BY <1>1, <1>2, <1>3, PTL DEF Spec

\* Retries, crashes, stale claims and overlapping runs are invisible in the
\* outcome: each withdrawal is sent or reversed at most once, and leaves the
\* blocked balance once.
THEOREM ProcessingKeepsContract == RecordsAreSafe => (Spec => ImplementsContract)
<1> SUFFICES ASSUME RecordsAreSafe PROVE Spec => ImplementsContract
  OBVIOUS
<1>1. Spec => []SafetyInv
  BY SafetyInvariant
<1>2. Init /\ SafetyInv => Contract!Init
  BY DEF Init, SafetyInv, TypeOK, Contract!Init, Outcome, Terminal
<1>3. SafetyInv /\ [Next]_vars => [Contract!Next]_Contract!contractVars
  <2> SUFFICES ASSUME SafetyInv, [Next]_vars
               PROVE  [Contract!Next]_Contract!contractVars
    OBVIOUS
  <2>0. RowTypes /\ TypeOK /\ RunTypes
    BY RowTypesOf DEF SafetyInv
  <2>1. ASSUME NEW w \in Withdrawals, Settles(w)
        PROVE  Contract!Next
    <3>1. Outcome[w] = "OPEN" /\ ~Terminal(w)
      BY <2>1 DEF Settles, IsOpen, Outcome, Terminal
    <3>2. CASE Sent(w)
      <4>1. Outcome' = [Outcome EXCEPT ![w] = "COMPLETED"]
        BY <2>0, <3>1, <3>2 DEF Sent, Outcome, Terminal, RowTypes
      <4> QED BY <3>1, <3>2, <4>1 DEF Sent, Contract!Next, Contract!Send
    <3>3. CASE Reversed(w)
      <4>1. Outcome' = [Outcome EXCEPT ![w] = "FAILED"]
        BY <2>0, <3>1, <3>3 DEF Reversed, Outcome, Terminal, RowTypes
      <4> QED BY <3>1, <3>3, <4>1 DEF Reversed, Contract!Next, Contract!Reverse
    <3> QED BY <2>1, <3>2, <3>3 DEF Settles
  <2>2. ASSUME \A v \in Withdrawals : status'[v] = status[v] \/ (~Terminal(v) /\ ~Terminal(v)'),
               UNCHANGED <<blocked, returned>>
        PROVE  UNCHANGED Contract!contractVars
    BY <2>2 DEF Contract!contractVars, Outcome, Terminal
  <2>3. ASSUME UNCHANGED <<rows, money>> \/ \E w \in Withdrawals : Ages(w)
        PROVE  UNCHANGED Contract!contractVars
    BY <2>2, <2>3 DEF rows, money, Ages, BecomeDue, BecomeStale
  <2>4. ASSUME NEW k \in Workers, Claim(k)
        PROVE  UNCHANGED Contract!contractVars
    <3> DEFINE S == Oldest(Claimable)
    <3>1. \A v \in S : ~Terminal(v)
      BY DEF Oldest, Claimable, Terminal
    <3>2. /\ status' = [v \in Withdrawals |-> IF v \in S THEN "PROCESSING" ELSE status[v]]
          /\ UNCHANGED <<blocked, returned>>
      BY <2>4 DEF Claim
    <3> HIDE DEF S
    <3> QED BY <2>2, <3>1, <3>2 DEF Terminal
  <2>5. ASSUME NEW k \in Workers, RecordWrite(k)
        PROVE  UNCHANGED Contract!contractVars
    <3>1. job[k].w \in Withdrawals /\ status[job[k].w] = "PROCESSING"
      BY <2>5 DEF RecordWrite, SafetyInv, TypeOK, HandlersAreSound, Claims
    <3>2. /\ status' = [status EXCEPT ![job[k].w] = "PENDING"]
          /\ UNCHANGED <<blocked, returned>>
      BY <2>5 DEF RecordWrite, money
    <3> QED BY <2>0, <2>2, <3>1, <3>2 DEF Terminal, RowTypes
  <2> QED BY <2>0, <2>1, <2>3, <2>4, <2>5, RowSteps DEF Rewrites
<1> QED BY <1>1, <1>2, <1>3, PTL DEF Spec, ImplementsContract, Contract!Spec

-----------------------------------------------------------------------------
(* The retry budget.                                                       *)

\* Two ways for a step to keep the budget: it settles nothing and loses no
\* claim in hand without a fault, or it settles one withdrawal.
LEMMA SameRowsKeepBudget ==
  ASSUME SafetyInv, BudgetInv, UNCHANGED <<status, attempts>>,
         faults' \in {faults, faults + 1},
         \A j \in Workers : InHand(j)' \subseteq InHand(j),
         \A j \in Workers : at'[j] = "recording" => ~LastAttempt(job'[j]),
         \A w \in Withdrawals :
           status[w] = "PROCESSING" /\ Held(w) /\ ~Held(w)' => faults' = faults + 1
  PROVE  BudgetInv'
<1>0. /\ faults \in Nat /\ MaxAttempts \in Nat
      /\ attempts \in [Withdrawals -> Nat]
  BY AmountTypes DEF SafetyInv, TypeOK
<1>1. ASSUME NEW j \in Workers, NEW c \in InHand(j)'
      PROVE  c.attempts = attempts'[c.w] /\ status'[c.w] # "PENDING"
  BY DEF BudgetInv
<1>2. ASSUME NEW w \in Withdrawals
      PROVE  /\ attempts'[w] <= MaxAttempts + faults'
             /\ \/ status'[w] = "PENDING"
                \/ status'[w] = "PROCESSING" /\ ~Held(w)'
               => attempts'[w] < MaxAttempts + faults'
             /\ status'[w] = "FAILED" /\ w \notin Called => attempts'[w] >= MaxAttempts
  BY <1>0 DEF BudgetInv
<1>3. \A j \in Workers : at'[j] = "recording" => ~LastAttempt(job'[j])
  OBVIOUS
<1> QED BY <1>1, <1>2, <1>3, Zenon DEF BudgetInv, LastAttempt

\* Settling a withdrawal that ran out of attempts, or by hand, stays within the budget.
LEMMA SettlingKeepsBudget ==
  ASSUME SafetyInv, BudgetInv, NEW v \in Withdrawals, NEW s \in {"COMPLETED", "FAILED"},
         status' = [status EXCEPT ![v] = s], UNCHANGED <<attempts, faults>>,
         s = "FAILED" => v \in Called \/ attempts[v] >= MaxAttempts,
         \A j \in Workers : InHand(j)' \subseteq InHand(j),
         \A j \in Workers : at'[j] = "recording" => ~LastAttempt(job'[j]),
         \A w \in Withdrawals : Held(w) /\ ~Held(w)' => w = v
  PROVE  BudgetInv'
<1>0. /\ faults \in Nat /\ MaxAttempts \in Nat
      /\ attempts \in [Withdrawals -> Nat] /\ RowTypes
  BY AmountTypes, RowTypesOf DEF SafetyInv, TypeOK
<1>1. ASSUME NEW j \in Workers, NEW c \in InHand(j)'
      PROVE  c.attempts = attempts'[c.w] /\ status'[c.w] # "PENDING"
  <2>1. c.attempts = attempts[c.w] /\ status[c.w] # "PENDING"
    BY DEF BudgetInv
  <2> QED BY <1>0, <2>1 DEF RowTypes
<1>2. ASSUME NEW w \in Withdrawals
      PROVE  /\ attempts'[w] <= MaxAttempts + faults'
             /\ \/ status'[w] = "PENDING"
                \/ status'[w] = "PROCESSING" /\ ~Held(w)'
               => attempts'[w] < MaxAttempts + faults'
             /\ status'[w] = "FAILED" /\ w \notin Called => attempts'[w] >= MaxAttempts
  BY <1>0 DEF BudgetInv, RowTypes
<1>3. \A j \in Workers : at'[j] = "recording" => ~LastAttempt(job'[j])
  OBVIOUS
<1> QED BY <1>1, <1>2, <1>3, Zenon DEF BudgetInv, LastAttempt

\* Who is not in a run has nothing in hand, and only one worker is in a run.
LEMMA OneHolder ==
  ASSUME OneRunAtATime, SafetyInv, NEW k \in Workers
  PROVE  /\ InHand(k) \subseteq Claims
         /\ at[k] \in {"idle", "claiming"} => InHand(k) = {}
         /\ at[k] # "idle" => \A j \in Workers \ {k} : InHand(j) = {}
<1>1. \A j \in Workers : at[j] \in {"idle", "claiming"} => InHand(j) = {}
  BY DEF SafetyInv, BatchesAreSound, InHand, Busy
<1>2. at[k] # "idle" => \A j \in Workers \ {k} : at[j] = "idle"
  BY DEF OneRunAtATime, SafetyInv, RunsHoldLock
<1>3. InHand(k) \subseteq Claims
  BY DEF SafetyInv, TypeOK, InHand, Busy
<1> QED BY <1>1, <1>2, <1>3

\* Letting go of the claim in hand: the others are kept, and only its
\* withdrawal is let go.
LEMMA LetGo ==
  ASSUME SafetyInv, SoundRuns, NEW k \in Workers, at[k] \in Busy, NextClaim(k)
  PROVE  /\ \A j \in Workers : InHand(j)' \subseteq InHand(j)
         /\ \A j \in Workers : at'[j] = "recording" => at[j] = "recording" /\ job'[j] = job[j]
         /\ \A w \in Withdrawals : Held(w) /\ ~Held(w)' => w = job[k].w
<1>1. /\ \A j \in Workers \ {k} : at'[j] = at[j] /\ job'[j] = job[j]
      /\ batch' = batch /\ at'[k] = "looping"
  BY DEF NextClaim, GoTo, SoundRuns, RunMaps, RunTypes
<1>2. /\ \A j \in Workers \ {k} : InHand(j)' = InHand(j)
      /\ InHand(k) = InHand(k)' \cup {job[k]}
  BY <1>1 DEF InHand, Busy
<1> QED BY <1>1, <1>2 DEF Held

\* A claim counts an attempt that the budget has left.
LEMMA ClaimKeepsBudget ==
  ASSUME OneRunAtATime, SafetyInv, SoundRuns, BudgetInv, NEW k \in Workers, Claim(k)
  PROVE  BudgetInv'
<1> DEFINE S == Oldest(Claimable)
           B == {[w |-> w, attempts |-> attempts'[w]] : w \in S}
<1>0. /\ RowTypes /\ MaxAttempts \in Nat /\ faults \in Nat /\ RunMaps
  BY AmountTypes, RowTypesOf DEF SafetyInv, TypeOK, SoundRuns
<1>1. /\ at[k] = "claiming" /\ faults' = faults
      /\ status' = [w \in Withdrawals |-> IF w \in S THEN "PROCESSING" ELSE status[w]]
      /\ attempts' = [w \in Withdrawals |-> IF w \in S THEN attempts[w] + 1 ELSE attempts[w]]
      /\ batch' = [batch EXCEPT ![k] = B] /\ at' = [at EXCEPT ![k] = "looping"]
      /\ job' = job
  BY DEF Claim, GoTo
<1>2. \A j \in Workers : InHand(j) = {} /\ (j # k => InHand(j)' = {})
  <2>1. \A j \in Workers : InHand(j) = {}
    BY <1>1, OneHolder
  <2>2. \A j \in Workers \ {k} : at'[j] = at[j] /\ batch'[j] = batch[j] /\ job'[j] = job[j]
    BY <1>0, <1>1 DEF RunMaps, RunTypes
  <2> QED BY <2>1, <2>2 DEF InHand
<1>3. InHand(k)' = B
  BY <1>0, <1>1 DEF InHand, Busy, RunMaps, RunTypes
<1>4. S \subseteq Withdrawals /\ \A w \in S : status[w] \in {"PENDING", "PROCESSING"}
  BY DEF Oldest, Claimable
<1> HIDE DEF S
<1>5. \A w \in S : attempts[w] < MaxAttempts + faults
  BY <1>2, <1>4 DEF BudgetInv, Held
<1>6. ASSUME NEW j \in Workers, NEW c \in InHand(j)'
      PROVE  c.attempts = attempts'[c.w] /\ status'[c.w] # "PENDING"
  <2>1. c \in B
    BY <1>2, <1>3
  <2> QED BY <1>1, <1>4, <2>1
<1>7. ASSUME NEW j \in Workers, at'[j] = "recording"
      PROVE  ~LastAttempt(job'[j])
  <2>1. at[j] = "recording"
    BY <1>0, <1>1, <1>7 DEF RunMaps
  <2> QED BY <1>1, <2>1 DEF BudgetInv
<1>8. ASSUME NEW w \in Withdrawals
      PROVE  /\ attempts'[w] <= MaxAttempts + faults'
             /\ \/ status'[w] = "PENDING"
                \/ status'[w] = "PROCESSING" /\ ~Held(w)'
               => attempts'[w] < MaxAttempts + faults'
             /\ status'[w] = "FAILED" /\ w \notin Called => attempts'[w] >= MaxAttempts
  <2>1. CASE w \in S
    <3>1. attempts'[w] = attempts[w] + 1 /\ status'[w] = "PROCESSING"
      BY <1>1, <2>1
    <3>2. Held(w)'
      <4>1. [w |-> w, attempts |-> attempts'[w]] \in InHand(k)'
        BY <1>3, <2>1
      <4> QED BY <4>1 DEF Held
    <3> QED BY <1>0, <1>1, <1>5, <2>1, <3>1, <3>2 DEF RowTypes
  <2>2. CASE w \notin S
    <3>1. attempts'[w] = attempts[w] /\ status'[w] = status[w] /\ ~Held(w)
      BY <1>1, <1>2, <2>2 DEF Held
    <3> QED BY <1>0, <1>1, <3>1 DEF BudgetInv, RowTypes
  <2> QED BY <2>1, <2>2
<1> QED BY <1>6, <1>7, <1>8, Zenon DEF BudgetInv, LastAttempt

\* A retry that is recorded leaves its withdrawal an attempt of the budget.
LEMMA RecordKeepsBudget ==
  ASSUME OneRunAtATime, SafetyInv, SoundRuns, BudgetInv, NEW k \in Workers, RecordWrite(k)
  PROVE  BudgetInv'
<1> DEFINE v == job[k].w
<1>0. /\ RowTypes /\ MaxAttempts \in Nat /\ faults \in Nat
      /\ v \in Withdrawals /\ job[k] \in InHand(k) /\ at[k] \in Busy
      /\ \A c \in batch[k] : c.w # v
      /\ at[k] = "recording"
  BY AmountTypes, RowTypesOf
  DEF RecordWrite, SafetyInv, TypeOK, SoundRuns, RunIsSound, InHand, Busy, Claims
<1>1. /\ status' = [status EXCEPT ![v] = "PENDING"]
      /\ attempts' = [attempts EXCEPT ![v] = job[k].attempts]
      /\ faults' = faults /\ NextClaim(k)
  BY DEF RecordWrite
<1>2. job[k].attempts = attempts[v] /\ attempts[v] < MaxAttempts
  BY <1>0 DEF BudgetInv, LastAttempt, RowTypes
<1>3. attempts' = attempts
  BY <1>0, <1>1, <1>2 DEF RowTypes
<1>4. /\ \A j \in Workers : InHand(j)' \subseteq InHand(j)
      /\ \A j \in Workers : at'[j] = "recording" => at[j] = "recording" /\ job'[j] = job[j]
      /\ \A w \in Withdrawals : Held(w) /\ ~Held(w)' => w = v
  BY <1>0, <1>1, LetGo
<1>5. \A j \in Workers : \A c \in InHand(j)' : c.w # v
  <2>1. \A j \in Workers \ {k} : InHand(j)' = {}
    BY <1>0, <1>4, OneHolder DEF Busy
  <2>2. InHand(k)' = batch[k]
    BY <1>1 DEF NextClaim, GoTo, InHand, Busy, SoundRuns, RunMaps
  <2> QED BY <1>0, <2>1, <2>2
<1>6. ASSUME NEW j \in Workers, NEW c \in InHand(j)'
      PROVE  c.attempts = attempts'[c.w] /\ status'[c.w] # "PENDING"
  <2>1. c.attempts = attempts[c.w] /\ status[c.w] # "PENDING" /\ c.w # v
    BY <1>4, <1>5 DEF BudgetInv
  <2> QED BY <1>0, <1>1, <1>3, <2>1 DEF RowTypes
<1>7. \A j \in Workers : at'[j] = "recording" => ~LastAttempt(job'[j])
  BY <1>4 DEF BudgetInv
<1>8. ASSUME NEW w \in Withdrawals
      PROVE  /\ attempts'[w] <= MaxAttempts + faults'
             /\ \/ status'[w] = "PENDING"
                \/ status'[w] = "PROCESSING" /\ ~Held(w)'
               => attempts'[w] < MaxAttempts + faults'
             /\ status'[w] = "FAILED" /\ w \notin Called => attempts'[w] >= MaxAttempts
  <2>1. CASE w = v
    BY <1>0, <1>1, <1>2, <1>3, <2>1 DEF RowTypes
  <2>2. CASE w # v
    <3>1. status'[w] = status[w] /\ (Held(w) => Held(w)')
      BY <1>0, <1>1, <1>4, <2>2 DEF RowTypes
    <3> QED BY <1>0, <1>1, <1>3, <3>1 DEF BudgetInv, RowTypes
  <2> QED BY <2>1, <2>2
<1> QED BY <1>6, <1>7, <1>8, Zenon DEF BudgetInv, LastAttempt

\* A worker's step, other than those two.
LEMMA RunKeepsBudget ==
  ASSUME OneRunAtATime, SafetyInv, SoundRuns, BudgetInv, NEW k \in Workers,
         Run(k) \/ Crash(k) \/ HandlerFails(k)
  PROVE  BudgetInv'
<1>0. /\ RowTypes /\ RunMaps /\ RunIsSound(k) /\ BlockedSum /\ faults \in Nat
      /\ at[k] \in Busy => job[k].w \in Withdrawals /\ job[k] \in InHand(k)
      /\ \A j \in Workers : at[j] = "recording" => ~LastAttempt(job[j])
  BY RowTypesOf DEF SafetyInv, TypeOK, SoundRuns, RunIsSound, BudgetInv, Claims, InHand
<1>1. \A j \in Workers \ {k} :
        at'[j] = at[j] /\ batch'[j] = batch[j] /\ job'[j] = job[j] /\ InHand(j)' = InHand(j)
  BY <1>0, StepKeepsRuns DEF InHand
<1>2. ASSUME UNCHANGED <<status, attempts, faults>>, InHand(k)' = InHand(k),
             at'[k] = "recording" => ~LastAttempt(job'[k])
      PROVE  BudgetInv'
  <2>1. \A j \in Workers : InHand(j)' = InHand(j)
    BY <1>1, <1>2
  <2>2. \A w \in Withdrawals : Held(w)' <=> Held(w)
    BY <2>1 DEF Held
  <2>3. \A j \in Workers : at'[j] = "recording" => ~LastAttempt(job'[j])
    BY <1>0, <1>1, <1>2
  <2> QED BY <1>2, <2>1, <2>2, <2>3, SameRowsKeepBudget
<1>3. ASSUME at[k] \in Busy, NextClaim(k), UNCHANGED <<status, attempts>>,
             \/ status[job[k].w] # "PROCESSING" /\ faults' = faults
             \/ faults' = faults + 1
      PROVE  BudgetInv'
  <2>1. /\ \A j \in Workers : InHand(j)' \subseteq InHand(j)
        /\ \A j \in Workers : at'[j] = "recording" => at[j] = "recording" /\ job'[j] = job[j]
        /\ \A w \in Withdrawals : Held(w) /\ ~Held(w)' => w = job[k].w
    BY <1>3, LetGo
  <2>2. \A j \in Workers : at'[j] = "recording" => ~LastAttempt(job'[j])
    BY <1>0, <2>1
  <2> QED BY <1>3, <2>1, <2>2, SameRowsKeepBudget
<1>4. ASSUME at[k] \in Busy, NextClaim(k), UNCHANGED <<attempts, faults>>,
             NEW s \in {"COMPLETED", "FAILED"}, status' = [status EXCEPT ![job[k].w] = s],
             s = "FAILED" => LastAttempt(job[k])
      PROVE  BudgetInv'
  <2>1. /\ \A j \in Workers : InHand(j)' \subseteq InHand(j)
        /\ \A j \in Workers : at'[j] = "recording" => at[j] = "recording" /\ job'[j] = job[j]
        /\ \A w \in Withdrawals : Held(w) /\ ~Held(w)' => w = job[k].w
    BY <1>4, LetGo
  <2>2. \A j \in Workers : at'[j] = "recording" => ~LastAttempt(job'[j])
    BY <1>0, <2>1
  <2>3. s = "FAILED" => attempts[job[k].w] >= MaxAttempts
    BY <1>0, <1>4 DEF BudgetInv, LastAttempt
  <2> QED BY <1>0, <1>4, <2>1, <2>2, <2>3, SettlingKeepsBudget
<1> USE DEF RunMaps, RunTypes, RunIsSound, GoTo
<1>5. CASE Acquire(k) \/ EndRun(k)
  BY <1>0, <1>2, <1>5 DEF Acquire, EndRun, rows, InHand, Busy
<1>6. CASE Claim(k)
  BY <1>6, ClaimKeepsBudget
<1>7. ASSUME NEW c \in batch[k], PayOut(k, c)
      PROVE  BudgetInv'
  <2>1. PICK p \in {"paid", "failed"} : at' = [at EXCEPT ![k] = p]
    BY <1>7 DEF PayOut
  <2>2. /\ job' = [job EXCEPT ![k] = c] /\ batch' = [batch EXCEPT ![k] = @ \ {c}]
        /\ at[k] = "looping" /\ UNCHANGED <<status, attempts, faults>>
    BY <1>7 DEF PayOut, rows
  <2>3. InHand(k)' = InHand(k)
    BY <1>0, <2>1, <2>2 DEF InHand, Busy
  <2> QED BY <1>0, <1>2, <2>1, <2>2, <2>3
<1>8. CASE Complete(k)
  <2>1. CASE Sent(job[k].w) /\ NextClaim(k)
    BY <1>4, <1>8, <2>1 DEF Complete, Sent, Busy
  <2>2. CASE GoTo(k, "failed") /\ UNCHANGED <<rows, money, batch, job>>
    <3>1. InHand(k)' = InHand(k) /\ at'[k] = "failed"
      BY <1>0, <1>8, <2>2 DEF Complete, InHand, Busy
    <3> QED BY <1>2, <1>8, <2>2, <3>1 DEF Complete, rows
  <2> QED BY <1>8, <2>1, <2>2 DEF Complete
<1>9. CASE Fail(k)
  <2>1. CASE Reversed(job[k].w)
    BY <1>4, <1>9, <2>1 DEF Fail, Reversed, Busy
  <2>2. CASE ~IsOpen(job[k].w) /\ UNCHANGED <<rows, money>>
    <3>1. status[job[k].w] # "PROCESSING"
      BY <1>0, <1>9, <2>2, OpenIsCovered DEF Fail, Busy, Terminal
    <3> QED BY <1>3, <1>9, <2>2, <3>1 DEF Fail, Busy, rows
  <2> QED BY <1>9, <2>1, <2>2 DEF Fail
<1>10. CASE RecordRead(k)
  <2>1. CASE status[job[k].w] # "PROCESSING" /\ NextClaim(k)
    BY <1>3, <1>10, <2>1 DEF RecordRead, Busy, rows
  <2>2. CASE /\ GoTo(k, "recording") /\ batch' = batch
             /\ job' = [job EXCEPT ![k].attempts = attempts[job[k].w]]
    <3>1. /\ at[k] = "failed" /\ ~LastAttempt(job[k])
          /\ UNCHANGED <<status, attempts, faults>>
      BY <1>10 DEF RecordRead, rows
    <3>2. job[k] \in Claims /\ job[k].attempts = attempts[job[k].w]
      BY <1>0, <3>1 DEF BudgetInv, Busy
    <3>3. job'[k] = job[k]
      BY <1>0, <2>2, <3>2 DEF Claims
    <3>4. InHand(k)' = InHand(k)
      BY <1>0, <2>2, <3>1, <3>3 DEF InHand, Busy
    <3> QED BY <1>2, <3>1, <3>3, <3>4
  <2> QED BY <1>10, <2>1, <2>2 DEF RecordRead
<1>11. CASE RecordWrite(k)
  BY <1>11, RecordKeepsBudget
<1>12. CASE HandlerFails(k)
  BY <1>3, <1>12 DEF HandlerFails, Busy, rows
<1>13. CASE Crash(k)
  <2>1. at'[k] = "idle" /\ InHand(k)' = {} /\ faults' = faults + 1
        /\ UNCHANGED <<status, attempts>>
    BY <1>0, <1>13 DEF Crash, InHand, Busy, rows
  <2>2. \A j \in Workers : InHand(j)' \subseteq InHand(j)
    BY <1>1, <2>1
  <2>3. \A j \in Workers : at'[j] = "recording" => ~LastAttempt(job'[j])
    BY <1>0, <1>1, <2>1
  <2> QED BY <2>1, <2>2, <2>3, SameRowsKeepBudget
<1> QED
  BY <1>5, <1>6, <1>7, <1>8, <1>9, <1>10, <1>11, <1>12, <1>13 DEF Run

\* The TEST endpoints, the clock and the TTL of the lock.
LEMMA OthersKeepBudget ==
  ASSUME SafetyInv, BudgetInv, [Next]_vars,
         ~ \E k \in Workers : Run(k) \/ Crash(k) \/ HandlerFails(k)
  PROVE  BudgetInv'
<1>1. UNCHANGED <<runs, faults>>
  BY OthersKeepRuns
<1>2. /\ \A j \in Workers : InHand(j)' = InHand(j)
      /\ \A j \in Workers : at'[j] = "recording" => ~LastAttempt(job'[j])
      /\ faults \in Nat
  BY <1>1 DEF runs, InHand, BudgetInv, SafetyInv, TypeOK
<1>3. \A w \in Withdrawals : Held(w)' <=> Held(w)
  BY <1>2 DEF Held
<1>4. ASSUME NEW w \in Withdrawals, DevComplete(w) \/ DevFail(w)
      PROVE  BudgetInv'
  <2>1. PICK s \in {"COMPLETED", "FAILED"} : status' = [status EXCEPT ![w] = s]
    BY <1>4 DEF DevComplete, DevFail, Sent, Reversed
  <2>2. w \in Called /\ attempts' = attempts
    BY <1>4 DEF DevComplete, DevFail, Sent, Reversed
  <2> QED BY <1>1, <1>2, <1>3, <2>1, <2>2, SettlingKeepsBudget
<1>5. ASSUME UNCHANGED <<status, attempts>>
      PROVE  BudgetInv'
  BY <1>1, <1>2, <1>3, <1>5, SameRowsKeepBudget
<1>6. CASE \/ \E w \in Withdrawals : BecomeDue(w) \/ BecomeStale(w)
           \/ LockExpires \/ UNCHANGED vars
  BY <1>5, <1>6 DEF BecomeDue, BecomeStale, LockExpires, vars, rows
<1> QED BY <1>4, <1>6 DEF Next

\* Where one run at a time holds the lock, the rows, the account and the runs
\* agree in every state: nothing reserved is lost, and a withdrawal is tried
\* MaxAttempts times and once more for each fault, but never given up before.
THEOREM ProcessingIsSound == OneRunAtATime => (Spec => []ProcessingInv)
<1> SUFFICES ASSUME OneRunAtATime PROVE Spec => []ProcessingInv
  OBVIOUS
<1>1. Spec => []SafetyInv
  BY SafetyInvariant DEF RecordsAreSafe
<1>2. Init => BudgetInv
  BY AmountTypes DEF Init, BudgetInv, InHand, Busy
<1>3. SafetyInv /\ BudgetInv /\ [Next]_vars => BudgetInv'
  <2>1. SafetyInv => SoundRuns
    BY RunsAreSound DEF SafetyInv, TypeOK
  <2> QED BY <2>1, RunKeepsBudget, OthersKeepBudget
<1>4. SafetyInv /\ BudgetInv => ProcessingInv
  BY BlockedSumIsReserved DEF SafetyInv, BudgetInv, ProcessingInv, RetryBudget
<1> QED BY <1>1, <1>2, <1>3, <1>4, PTL DEF Spec
=============================================================================
