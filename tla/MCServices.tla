----------------------------- MODULE MCServices -----------------------------
(***************************************************************************)
(* Components of the API and the worker, model-checked side by side.       *)
(* Sessions reads the stores of LiveEnablement; otherwise they share no    *)
(* state, so a behaviour exercises one of them, chosen at its start, and   *)
(* the states of the run are the sum of theirs and not the product.        *)
(***************************************************************************)
EXTENDS Idempotency, CheckoutSession, Sessions, CircuitBreaker, SettlementBatch,
        BankAccounts, AlertDelivery, OperatorDesk, ApiKeys, Receipts

CONSTANTS key, first, again, changed, shop, branch, lone, due, test, live, s3

MCKeyOf == [r \in Requests |-> key]
MCFingerprint == [r \in Requests |-> IF r = changed THEN "changed" ELSE "same"]
MCEditorStore == [e \in Editors |-> shop]
MCMoneyStore == [o \in Operations |-> shop]
MCPurseOf == [p \in Sales |-> IF p = s3 THEN live ELSE test]
MCShopOf == [p \in DuePayments |-> IF p = lone THEN branch ELSE shop]

VARIABLES
  part,
  payStatus, payAttempts, payDue, payStale, payBlocked, payReturned,
  payOutbox, payLock, payAt, payBatch, payJob, payFaults

\* Payouts again, apart from MCWithdrawalProcessing: two workers whose runs
\* outlive the lock and the TEST endpoints; payouts succeed.
Payouts == INSTANCE WithdrawalProcessing WITH
  Workers <- {"a", "b"}, N <- 2, Amount <- <<1, 2>>,
  MaxAttempts <- 3, BatchLimit <- 1, Failing <- {},
  RunsOutliveLock <- TRUE, Called <- {1, 2}, MaxFaults <- 1, ClaimBound <- 3,
  status <- payStatus, attempts <- payAttempts, due <- payDue, stale <- payStale,
  blocked <- payBlocked, returned <- payReturned, outbox <- payOutbox, lock <- payLock,
  at <- payAt, batch <- payBatch, job <- payJob, faults <- payFaults

payVars ==
  <<payStatus, payAttempts, payDue, payStale, payBlocked, payReturned,
    payOutbox, payLock, payAt, payBatch, payJob, payFaults>>

allVars ==
  <<part, keyVars, sessionVars, liveVars, sessVars, breakerVars, settlementVars,
    bankVars, alertVars, deskVars, apiKeyVars, receiptVars, payVars>>

Parts == {"keys", "checkout", "live", "sessions", "breaker", "settlement",
          "bank", "alert", "desk", "apikeys", "receipts", "payouts"}

ServicesInit ==
  /\ part \in Parts
  /\ KeysInit /\ CheckoutInit /\ LiveInit /\ SessionsInit /\ BreakerInit
  /\ SettlementInit /\ BankInit /\ AlertInit /\ DeskInit /\ ApiKeysInit
  /\ ReceiptsInit /\ Payouts!Init
  /\ part # "sessions" => merchant.store = shop
  /\ part # "breaker" => reachable
  /\ part # "desk" => funds = 0
  /\ part # "receipts" => today = 1

ServicesNext ==
  /\ UNCHANGED part
  /\ \/ /\ part = "keys" /\ KeysNext
        /\ UNCHANGED <<sessionVars, liveVars, sessVars, breakerVars, settlementVars, bankVars,
                        alertVars, deskVars, apiKeyVars, receiptVars, payVars>>
     \/ /\ part = "checkout" /\ CheckoutNext
        /\ UNCHANGED <<keyVars, liveVars, sessVars, breakerVars, settlementVars, bankVars,
                        alertVars, deskVars, apiKeyVars, receiptVars, payVars>>
     \/ /\ part = "live" /\ LiveNext
        /\ UNCHANGED <<keyVars, sessionVars, sessVars, breakerVars, settlementVars, bankVars,
                        alertVars, deskVars, apiKeyVars, receiptVars, payVars>>
     \/ /\ part = "sessions" /\ SessionsNext
        /\ UNCHANGED <<keyVars, sessionVars, breakerVars, settlementVars, bankVars, alertVars,
                        deskVars, apiKeyVars, receiptVars, payVars>>
     \/ /\ part = "breaker" /\ BreakerNext
        /\ UNCHANGED <<keyVars, sessionVars, liveVars, sessVars, settlementVars, bankVars,
                        alertVars, deskVars, apiKeyVars, receiptVars, payVars>>
     \/ /\ part = "settlement" /\ SettlementNext
        /\ UNCHANGED <<keyVars, sessionVars, liveVars, sessVars, breakerVars, bankVars,
                        alertVars, deskVars, apiKeyVars, receiptVars, payVars>>
     \/ /\ part = "bank" /\ BankNext
        /\ UNCHANGED <<keyVars, sessionVars, liveVars, sessVars, breakerVars, settlementVars,
                        alertVars, deskVars, apiKeyVars, receiptVars, payVars>>
     \/ /\ part = "alert" /\ AlertNext
        /\ UNCHANGED <<keyVars, sessionVars, liveVars, sessVars, breakerVars, settlementVars,
                        bankVars, deskVars, apiKeyVars, receiptVars, payVars>>
     \/ /\ part = "desk" /\ DeskNext
        /\ UNCHANGED <<keyVars, sessionVars, liveVars, sessVars, breakerVars, settlementVars,
                        bankVars, alertVars, apiKeyVars, receiptVars, payVars>>
     \/ /\ part = "apikeys" /\ ApiKeysNext
        /\ UNCHANGED <<keyVars, sessionVars, liveVars, sessVars, breakerVars, settlementVars,
                        bankVars, alertVars, deskVars, receiptVars, payVars>>
     \/ /\ part = "receipts" /\ ReceiptsNext
        /\ UNCHANGED <<keyVars, sessionVars, liveVars, sessVars, breakerVars, settlementVars,
                        bankVars, alertVars, deskVars, apiKeyVars, payVars>>
     \/ /\ part = "payouts" /\ Payouts!Next
        /\ UNCHANGED <<keyVars, sessionVars, liveVars, sessVars, breakerVars, settlementVars,
                        bankVars, alertVars, deskVars, apiKeyVars, receiptVars>>

\* The fairness of each component, while it is the one that runs.
ServicesSpec ==
  /\ ServicesInit /\ [][ServicesNext]_allVars
  /\ \A r \in Requests : WF_keyVars(part = "keys" /\ RequestStep(r))
  /\ \A c \in Calls : SF_sessVars(part = "sessions" /\ CallStep(c))
  /\ \A s \in Stores : WF_sessVars(part = "sessions" /\ AccessTokenExpires(s))
  /\ \A d \in Deliveries : SF_breakerVars(part = "breaker" /\ DeliveryStep(d))
  /\ WF_breakerVars(part = "breaker" /\ WindowPasses)
  /\ WF_settlementVars(part = "settlement" /\ RunStep)
  /\ WF_alertVars(part = "alert" /\ AlertStep)

\* No request, and no call of a merchant, waits for a row lock for ever.
NobodyWaitsForEver == RequestsEnd /\ CallsEnd

\* OneOutcomeAnnounced of WithdrawalProcessing, where runs overlap.
OneOutcomeAnnounced == Payouts!OneOutcomeAnnounced
=============================================================================
