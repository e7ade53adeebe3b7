---------------------------- MODULE LedgerAudit ----------------------------
(***************************************************************************)
(* What an auditor of the ledger would recompute: each balance against the *)
(* rows that explain it, row by row rather than by transaction totals.     *)
(***************************************************************************)
EXTENDS Ledger

\* The blocked balance of an account is exactly what its open withdrawals
\* reserve: none is sent or given back twice, or from another one's share.
BlockedIsReserved ==
  \A a \in Accounts :
    blocked[a] = MapThenSumSet(LAMBDA w : amountOf[w],
      {w \in Withdrawals : WithdrawalAccount[w] = a /\ withdrawal[w] = "OPEN"})

\* What an account has reserved is what its open withdrawals ask for, and one
\* day's requests stay within the policy's limits.
WithdrawalsAreCovered == BlockedIsReserved /\ DailyLimits

\* What is left of each payment's net amount.
Remaining == [p \in Payments |-> RemainingNet(p)]

\* The payments of an account that were credited and never released.
Unreleased(a) ==
  {p \in Payments : AccountOf(p) = a /\ Paid(p) /\ ~Announced("payment.released", p)}

\* The pending balance of an account is what is left, after refunds, of the
\* payments credited to it and not released: a refund taken before settlement
\* is taken from the payment it refunds, and release moves only its rest.
PendingIsUnreleased ==
  \A a \in Accounts :
    pending[a] = MapThenSumSet(LAMBDA p : Remaining[p], Unreleased(a))

Held == [a \in Accounts |-> available[a] + pending[a] + blocked[a]]
Received == [a \in Accounts |-> posted[a]["PAYMENT_RECEIVED"]]
Returned == [a \in Accounts |-> posted[a]["REFUND_DEDUCTED"]]
Sent == [a \in Accounts |-> posted[a]["WITHDRAWAL_SENT"]]

Funds == INSTANCE MerchantFunds WITH
  held <- Held,
  received <- Received,
  returned <- Returned,
  sent <- Sent

\* The ledger keeps the promise made to the merchant: the three balances
\* together are what the account holds, and every use case either receives,
\* returns or pays out on one account, or shifts money between its balances.
ImplementsFunds == Funds!Spec
=============================================================================
