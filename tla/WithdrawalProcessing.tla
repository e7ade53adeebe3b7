------------------------ MODULE WithdrawalProcessing ------------------------
(***************************************************************************)
(* The processing of withdrawals: the worker's periodic job, which claims  *)
(* due withdrawals in batches under a Redis lock, tries the payout and     *)
(* completes, retries or fails each, beside the TEST endpoints that        *)
(* complete or fail one on demand.  Ledger has these as single steps on an *)
(* open withdrawal; here are the writers that take no row lock, so a       *)
(* transaction that reads before it writes is two steps.                   *)
(*                                                                         *)
(* The withdrawals are those of one account, already requested: their      *)
(* amounts are reserved in its blocked balance.                            *)
(***************************************************************************)
EXTENDS Integers, FiniteSets, FiniteSetsExt

CONSTANTS
  Workers,       \* worker processes
  N,             \* withdrawals, numbered in the order of createdAt
  Amount,        \* their amounts, in cents
  MaxAttempts,   \* WithdrawalProcessingJob.maxAttempts
  BatchLimit,    \* how many withdrawals one run claims
  Failing,         \* withdrawals whose payout, or completion, may fail
  RunsOutliveLock, \* a run may last longer than the TTL of its lock
  Called,          \* withdrawals the TEST endpoints are called on
  MaxFaults,     \* bound: crashes and failed error handlers
  ClaimBound     \* bound: claims of one withdrawal

Withdrawals == 1 .. N

NoWorker == "none"

ASSUME ProcessingAssumption ==
  /\ N \in Nat /\ Amount \in [Withdrawals -> Nat \ {0}]
  /\ MaxAttempts \in Nat \ {0} /\ BatchLimit \in Nat \ {0}
  /\ RunsOutliveLock \in BOOLEAN
  /\ Failing \subseteq Withdrawals /\ Called \subseteq Withdrawals
  /\ MaxFaults \in Nat /\ ClaimBound \in Nat
  /\ NoWorker \notin Workers

VARIABLES
  status, attempts, \* withdrawals: status, processingAttempts
  due,       \* withdrawals: nextProcessAt is not set or has passed
  stale,     \* withdrawals: unchanged for the five minutes of a stale claim
  blocked, returned, \* the account's blocked balance; what was unblocked
  outbox,    \* <<event type, withdrawal>> written so far
  lock,      \* the worker whose token the job's Redis key holds
  at,        \* workers: where the run is
  batch,     \* workers: claims returned to the run and not yet processed
  job,       \* workers: the claim being processed
  faults

rows == <<status, attempts, due, stale>>
money == <<blocked, returned, outbox>>
runs == <<at, batch, job>>
vars == <<rows, money, lock, runs, faults>>

NoJob == [w |-> 0, attempts |-> 0]
Claims == [w : Withdrawals, attempts : Nat]

Init ==
  /\ status = [w \in Withdrawals |-> "PENDING"]
  /\ attempts = [w \in Withdrawals |-> 0]
  /\ due = [w \in Withdrawals |-> TRUE]
  /\ stale = [w \in Withdrawals |-> FALSE]
  /\ blocked = MapThenSumSet(LAMBDA w : Amount[w], Withdrawals)
  /\ returned = 0
  /\ outbox = {}
  /\ lock = NoWorker
  /\ at = [k \in Workers |-> "idle"]
  /\ batch = [k \in Workers |-> {}]
  /\ job = [k \in Workers |-> NoJob]
  /\ faults = 0

-----------------------------------------------------------------------------
(* Transactions that lock the withdrawal and then the account.             *)

\* Mutant: only the balance is checked, not the status.
IsOpenUnchecked(w) == blocked >= Amount[w]

\* Not terminal, and the account has the amount blocked.
IsOpen(w) ==
  status[w] \in {"PENDING", "PROCESSING"} /\ blocked >= Amount[w]

Sent(w) ==
  /\ status' = [status EXCEPT ![w] = "COMPLETED"]
  /\ blocked' = blocked - Amount[w]
  /\ outbox' = outbox \cup {<<"withdrawal.completed", w>>}
  /\ due' = [due EXCEPT ![w] = TRUE]
  /\ stale' = [stale EXCEPT ![w] = FALSE]
  /\ UNCHANGED <<attempts, returned>>

Reversed(w) ==
  /\ status' = [status EXCEPT ![w] = "FAILED"]
  /\ blocked' = blocked - Amount[w]
  /\ returned' = returned + Amount[w]
  /\ outbox' = outbox \cup {<<"withdrawal.failed", w>>}
  /\ due' = [due EXCEPT ![w] = TRUE]
  /\ stale' = [stale EXCEPT ![w] = FALSE]
  /\ UNCHANGED attempts

DevComplete(w) ==
  /\ w \in Called /\ IsOpen(w) /\ Sent(w)
  /\ UNCHANGED <<lock, runs, faults>>

DevFail(w) ==
  /\ w \in Called /\ IsOpen(w) /\ Reversed(w)
  /\ UNCHANGED <<lock, runs, faults>>

-----------------------------------------------------------------------------
(* A run of the job.                                                       *)

GoTo(k, place) == at' = [at EXCEPT ![k] = place]

\* Done with the claim in hand, back to the loop.
NextClaim(k) ==
  /\ GoTo(k, "looping")
  /\ job' = [job EXCEPT ![k] = NoJob]
  /\ UNCHANGED batch

\* Mutant: the tick runs although another worker holds the lock.
AcquireUnlocked(k) ==
  /\ at[k] = "idle"
  /\ lock' = k
  /\ GoTo(k, "claiming")
  /\ UNCHANGED <<rows, money, batch, job, faults>>

\* A tick of the scheduler: SET NX on the job's key. A tick during a run of
\* the same process is skipped by the guard inside the process.
Acquire(k) ==
  /\ at[k] = "idle" /\ lock = NoWorker
  /\ lock' = k
  /\ GoTo(k, "claiming")
  /\ UNCHANGED <<rows, money, batch, job, faults>>

\* Mutant: a claim that was lost in a crash is never taken up again.
ClaimableWhilePending == {w \in Withdrawals :
  /\ attempts[w] < ClaimBound
  /\ status[w] = "PENDING" /\ due[w]}

Claimable == {w \in Withdrawals :
  /\ attempts[w] < ClaimBound
  /\ \/ status[w] = "PENDING" /\ due[w]
     \/ status[w] = "PROCESSING" /\ stale[w]}

Oldest(S) == {w \in S : Cardinality({v \in S : v < w}) < BatchLimit}

\* One UPDATE ... RETURNING: what the run gets is the attempts it just wrote.
Claim(k) ==
  LET S == Oldest(Claimable) IN
  /\ at[k] = "claiming"
  /\ status' = [w \in Withdrawals |-> IF w \in S THEN "PROCESSING" ELSE status[w]]
  /\ attempts' = [w \in Withdrawals |-> IF w \in S THEN attempts[w] + 1 ELSE attempts[w]]
  /\ due' = [w \in Withdrawals |-> w \in S \/ due[w]]
  /\ stale' = [w \in Withdrawals |-> w \notin S /\ stale[w]]
  /\ outbox' = outbox \cup {<<"withdrawal.processing", w>> : w \in S}
  /\ batch' = [batch EXCEPT ![k] = {[w |-> w, attempts |-> attempts'[w]] : w \in S}]
  /\ GoTo(k, "looping")
  /\ UNCHANGED <<blocked, returned, lock, job, faults>>

\* The payout of the next claim; its failure and that of the completing
\* transaction (a timeout, a lost connection) end in the same catch.
PayOut(k, c) ==
  /\ at[k] = "looping" /\ c \in batch[k]
  /\ \/ GoTo(k, "paid")
     \/ c.w \in Failing /\ GoTo(k, "failed")
  /\ job' = [job EXCEPT ![k] = c]
  /\ batch' = [batch EXCEPT ![k] = @ \ {c}]
  /\ UNCHANGED <<rows, money, lock, faults>>

Complete(k) ==
  /\ at[k] = "paid"
  /\ \/ IsOpen(job[k].w) /\ Sent(job[k].w) /\ NextClaim(k)
     \/ /\ ~IsOpen(job[k].w) /\ GoTo(k, "failed")
        /\ UNCHANGED <<rows, money, batch, job>>
  /\ UNCHANGED <<lock, faults>>

\* Mutant: one attempt too many.
LastAttemptLate(c) == c.attempts > MaxAttempts

LastAttempt(c) == c.attempts >= MaxAttempts

\* The last attempt failed. A withdrawal that has become terminal is left
\* alone: the exception ends in the loop's catch.
Fail(k) ==
  /\ at[k] = "failed" /\ LastAttempt(job[k])
  /\ \/ IsOpen(job[k].w) /\ Reversed(job[k].w)
     \/ ~IsOpen(job[k].w) /\ UNCHANGED <<rows, money>>
  /\ NextClaim(k)
  /\ UNCHANGED <<lock, faults>>

\* RecordWithdrawalProcessingError reads the row without locking it ...
RecordRead(k) ==
  LET w == job[k].w IN
  /\ at[k] = "failed" /\ ~LastAttempt(job[k])
  /\ \/ /\ status[w] = "PROCESSING"
        /\ GoTo(k, "recording")
        /\ job' = [job EXCEPT ![k].attempts = attempts[w]]
        /\ UNCHANGED batch
     \/ status[w] # "PROCESSING" /\ NextClaim(k)
  /\ UNCHANGED <<rows, money, lock, faults>>

\* ... and writes back what it read, as PENDING with a later nextProcessAt.
RecordWrite(k) ==
  LET w == job[k].w IN
  /\ at[k] = "recording"
  /\ status' = [status EXCEPT ![w] = "PENDING"]
  /\ attempts' = [attempts EXCEPT ![w] = job[k].attempts]
  /\ due' = [due EXCEPT ![w] = FALSE]
  /\ stale' = [stale EXCEPT ![w] = FALSE]
  /\ NextClaim(k)
  /\ UNCHANGED <<money, lock, faults>>

\* The script that releases the lock deletes the key only if its token is ours.
EndRun(k) ==
  /\ at[k] = "looping" /\ batch[k] = {}
  /\ GoTo(k, "idle")
  /\ lock' = IF lock = k THEN NoWorker ELSE lock
  /\ UNCHANGED <<rows, money, batch, job, faults>>

-----------------------------------------------------------------------------
(* Faults and the clock.                                                   *)

\* The process dies and comes back; its key stays until the TTL.
Crash(k) ==
  /\ at[k] # "idle" /\ faults < MaxFaults
  /\ faults' = faults + 1
  /\ GoTo(k, "idle")
  /\ batch' = [batch EXCEPT ![k] = {}]
  /\ job' = [job EXCEPT ![k] = NoJob]
  /\ UNCHANGED <<rows, money, lock>>

\* The transaction that handles a failure fails itself; the loop goes on.
HandlerFails(k) ==
  /\ at[k] \in {"failed", "recording"} /\ faults < MaxFaults
  /\ faults' = faults + 1
  /\ NextClaim(k)
  /\ UNCHANGED <<rows, money, lock>>

LockExpires ==
  /\ lock # NoWorker
  /\ RunsOutliveLock \/ at[lock] = "idle"
  /\ lock' = NoWorker
  /\ UNCHANGED <<rows, money, runs, faults>>

BecomeDue(w) ==
  /\ status[w] = "PENDING" /\ ~due[w]
  /\ due' = [due EXCEPT ![w] = TRUE]
  /\ UNCHANGED <<status, attempts, stale, money, lock, runs, faults>>

BecomeStale(w) ==
  /\ status[w] = "PROCESSING" /\ ~stale[w]
  /\ stale' = [stale EXCEPT ![w] = TRUE]
  /\ UNCHANGED <<status, attempts, due, money, lock, runs, faults>>

Run(k) ==
  \/ Acquire(k) \/ Claim(k) \/ EndRun(k)
  \/ \E c \in batch[k] : PayOut(k, c)
  \/ Complete(k) \/ Fail(k) \/ RecordRead(k) \/ RecordWrite(k)

Next ==
  \/ \E k \in Workers : Run(k) \/ Crash(k) \/ HandlerFails(k)
  \/ \E w \in Withdrawals :
       DevComplete(w) \/ DevFail(w) \/ BecomeDue(w) \/ BecomeStale(w)
  \/ LockExpires

Spec == Init /\ [][Next]_vars

\* The cron ticks in every process, a run goes on unless the process dies,
\* and time passes; nothing forces a call, a crash or a failing payout.
FairSpec ==
  /\ Spec
  /\ \A k \in Workers : WF_vars(Run(k))
  /\ \A w \in Withdrawals : WF_vars(BecomeDue(w)) /\ WF_vars(BecomeStale(w))
  /\ WF_vars(LockExpires)

-----------------------------------------------------------------------------
(* Properties.                                                             *)

\* Types, and what a run carries: one claim in hand exactly between its payout
\* and its outcome, no longer in the batch.
TypeOK ==
  /\ status \in [Withdrawals -> {"PENDING", "PROCESSING", "COMPLETED", "FAILED"}]
  /\ attempts \in [Withdrawals -> Nat]
  /\ due \in [Withdrawals -> BOOLEAN] /\ stale \in [Withdrawals -> BOOLEAN]
  /\ blocked \in Nat /\ returned \in Nat
  /\ outbox \subseteq {"withdrawal.processing", "withdrawal.completed",
                       "withdrawal.failed"} \X Withdrawals
  /\ lock \in Workers \cup {NoWorker}
  /\ at \in [Workers -> {"idle", "claiming", "looping", "paid", "failed", "recording"}]
  /\ \A k \in Workers :
       /\ batch[k] \subseteq Claims
       /\ IF at[k] \in {"paid", "failed", "recording"}
          THEN job[k] \in Claims /\ \A c \in batch[k] : c.w # job[k].w
          ELSE job[k] = NoJob
  /\ faults \in 0 .. MaxFaults

Terminal(w) == status[w] \in {"COMPLETED", "FAILED"}

\* The blocked balance is the amounts of the withdrawals without an outcome:
\* no reservation is lost, freed twice or taken from another withdrawal.
BlockedIsReserved ==
  blocked = MapThenSumSet(LAMBDA w : Amount[w], {w \in Withdrawals : ~Terminal(w)})

\* Retries are bounded and used: without faults no withdrawal is claimed more
\* than MaxAttempts times, each fault costs at most one more claim, and the
\* job gives up on none before MaxAttempts (a TEST endpoint may).
RetryBudget ==
  \A w \in Withdrawals :
    /\ attempts[w] <= MaxAttempts + faults
    /\ status[w] = "FAILED" /\ w \notin Called => attempts[w] >= MaxAttempts

\* What the rows, the account and the runs say of each other in every state.
ProcessingInv == TypeOK /\ BlockedIsReserved /\ RetryBudget

\* Webhook subscribers hear of one outcome, and it is the one in the database,
\* also when it is reached by a worker whose claim another one has taken over.
OneOutcomeAnnounced ==
  \A w \in Withdrawals :
    /\ <<"withdrawal.completed", w>> \in outbox <=> status[w] = "COMPLETED"
    /\ <<"withdrawal.failed", w>> \in outbox <=> status[w] = "FAILED"

Outcome == [w \in Withdrawals |-> IF Terminal(w) THEN status[w] ELSE "OPEN"]

Contract == INSTANCE WithdrawalContract WITH outcome <- Outcome

\* Retries, crashes, stale claims and overlapping runs are invisible in the
\* outcome: each withdrawal is sent or reversed at most once.
ImplementsContract == Contract!Spec

\* No withdrawal is stuck: whatever is lost in a crash is claimed again, and
\* every withdrawal is completed or failed in the end.
EveryWithdrawalEnds == \A w \in Withdrawals : <>Terminal(w)

\* An outcome is final ("Withdrawal is already terminal").
TerminalIsFinal ==
  [][\A w \in Withdrawals : Terminal(w) => status'[w] = status[w]]_vars
=============================================================================
