------------------------------- MODULE Ledger -------------------------------
(***************************************************************************)
(* The money core of HockPay: pix charges, payment attempts, payment       *)
(* links, refunds, settlement and withdrawals, and the three balances of   *)
(* the account each of them moves.                                         *)
(*                                                                         *)
(* Grain: one action is one committed database transaction.  Every use     *)
(* case below runs inside UnitOfWork.execute and takes FOR UPDATE locks    *)
(* on the rows it reads before it decides (payment, charge, account;       *)
(* link, charge, account; withdrawal, account), so transactions that       *)
(* touch the same rows are serialized.  A use case that throws rolls back  *)
(* and is therefore no step at all; among those are the lazy expiries of   *)
(* ConfirmPayment and PayPaymentLink, which write EXPIRED and then throw.  *)
(* The writers of withdrawals that take no lock, and the claim and retry   *)
(* of withdrawals, are refined in a module of their own: here a            *)
(* withdrawal that is PENDING or PROCESSING is simply "OPEN".              *)
(*                                                                         *)
(* Whether the caller passes the LIVE gate is not decided here: an action  *)
(* is possible for every account, and a refused call is no step.           *)
(***************************************************************************)
EXTENDS Integers, FiniteSets, FiniteSetsExt

CONSTANTS
  Accounts,          \* one per store and environment
  Charges,           \* pix charges that may be created
  LinkCharges,       \* those of them that belong to a payment link
  Payments,          \* payment attempts that may be created
  Withdrawals,       \* withdrawals that may be created
  ChargeOf,          \* the charge an attempt pays
  ChargeAccount,     \* the account a charge is collected for
  ChargeAmount,      \* the amount of a charge, in cents
  Fees,              \* the fees the store's pricing can yield, in cents
  WithdrawalAccount, \* the account a withdrawal draws on
  PayoutAmounts,     \* the amounts WithdrawalPolicy accepts, in cents
  DailyAmountLimit,  \* WithdrawalPolicy.dailyAmountLimitInCents
  DailyCountLimit    \* WithdrawalPolicy.dailyCountLimit

ASSUME LinkChargesAssumption == LinkCharges \subseteq Charges

ASSUME ChargesAssumption ==
  /\ ChargeOf \in [Payments -> Charges]
  /\ ChargeAccount \in [Charges -> Accounts]
  /\ ChargeAmount \in [Charges -> Nat \ {0}]

\* CreatePayment makes the charge and its only attempt together; a payment
\* link's charge is the only one that can have several attempts.
ASSUME DirectChargeAssumption ==
  \A p, q \in Payments :
    ChargeOf[p] = ChargeOf[q] /\ ChargeOf[p] \notin LinkCharges => p = q

ASSUME FeesAssumption == Fees \subseteq Nat

ASSUME WithdrawalsAssumption ==
  /\ WithdrawalAccount \in [Withdrawals -> Accounts]
  /\ PayoutAmounts \subseteq Nat \ {0}
  /\ DailyAmountLimit \in Nat
  /\ DailyCountLimit \in Nat

VARIABLES
  available, pending, blocked, \* accounts: the three balances
  posted,       \* accounts: total posted so far, by transaction type
  charge,       \* charges: status, or "NONE" before creation
  overdue,      \* charges: the clock has passed expiresAt
  linkClosed,   \* link charges: the link's cancelledAt is set
  payment,      \* payments: status, or "NONE" before creation
  fee,          \* payments: the fee fixed at creation
  refunded,     \* payments: totalRefunded
  feeRefunded,  \* payments: sum of feeRefunded over its refunds
  refundCount,  \* payments: number of processed refunds
  withdrawal,   \* withdrawals: status, or "NONE" before creation
  amountOf,     \* withdrawals: the amount fixed at creation
  today,        \* withdrawals created since the last midnight
  outbox        \* <<event type, aggregate>> written so far

balances    == <<available, pending, blocked>>
chargeVars  == <<charge, overdue, linkClosed>>
paymentVars == <<payment, fee, refunded, feeRefunded, refundCount>>
payoutVars  == <<withdrawal, amountOf, today>>
vars == <<balances, posted, chargeVars, paymentVars, payoutVars, outbox>>

TransactionType == {"PAYMENT_RECEIVED", "PAYMENT_RELEASED", "REFUND_DEDUCTED",
                    "WITHDRAWAL_RESERVED", "WITHDRAWAL_SENT", "WITHDRAWAL_REVERSED"}
PaymentStatus == {"PENDING", "CONFIRMED", "RELEASED", "EXPIRED", "FAILED", "REFUNDED"}
PixChargeStatus == {"OPEN", "PAID", "EXPIRED", "CANCELLED"}
PaymentEvent == {"payment.created", "payment.confirmed", "payment.released",
                 "payment.expired", "payment.failed", "payment.refunded"}
LinkEvent == {"payment_link.created", "payment_link.paid",
              "payment_link.expired", "payment_link.cancelled"}
WithdrawalEvent == {"withdrawal.created", "withdrawal.completed", "withdrawal.failed"}

AccountOf(p) == ChargeAccount[ChargeOf[p]]
AmountOf(p)  == ChargeAmount[ChargeOf[p]]
NetOf(p)     == AmountOf(p) - fee[p]
IsLink(p)    == ChargeOf[p] \in LinkCharges

\* What is left of the payment's net amount once its refunds are taken out.
RemainingNet(p) == (AmountOf(p) - refunded[p]) - (fee[p] - feeRefunded[p])

\* Mutant: the fee share is truncated.
FeeSharesTruncated(p, x) == {(fee[p] * x) \div AmountOf(p)}

\* Math.round(fee * (x / amount)) for a refund of x: a nearest integer. Both
\* neighbours of a tie are possible, since x / amount is a rounded double
\* (11 * (15 / 22) is 7.499999999999999).
FeeShares(p, x) ==
  {f \in 0 .. x : LET drift == 2 * AmountOf(p) * f - 2 * fee[p] * x
                  IN  -AmountOf(p) <= drift /\ drift <= AmountOf(p)}

-----------------------------------------------------------------------------
(* The methods of the Account entity, with the balance checks that throw.  *)

\* Mutant: the update is keyed by store, so it reaches both environments.
AddToPendingByStore(a, n) ==
  /\ pending' = [b \in Accounts |-> pending[b] + n]
  /\ UNCHANGED <<available, blocked>>

AddToPending(a, n) ==
  /\ pending' = [pending EXCEPT ![a] = @ + n]
  /\ UNCHANGED <<available, blocked>>

\* Mutant: the balance check refuses to move the last cent.
ReleaseFromPendingStrict(a, n) ==
  /\ n >= 0 /\ n < pending[a]
  /\ pending' = [pending EXCEPT ![a] = @ - n]
  /\ available' = [available EXCEPT ![a] = @ + n]
  /\ UNCHANGED blocked

ReleaseFromPending(a, n) ==
  /\ n >= 0 /\ n <= pending[a]
  /\ pending' = [pending EXCEPT ![a] = @ - n]
  /\ available' = [available EXCEPT ![a] = @ + n]
  /\ UNCHANGED blocked

DeductFromPending(a, n) ==
  /\ n >= 0 /\ n <= pending[a]
  /\ pending' = [pending EXCEPT ![a] = @ - n]
  /\ UNCHANGED <<available, blocked>>

\* Mutant: the balance check is missing.
DeductFromAvailableUnchecked(a, n) ==
  /\ available' = [available EXCEPT ![a] = @ - n]
  /\ UNCHANGED <<pending, blocked>>

DeductFromAvailable(a, n) ==
  /\ n >= 0 /\ n <= available[a]
  /\ available' = [available EXCEPT ![a] = @ - n]
  /\ UNCHANGED <<pending, blocked>>

Block(a, n) ==
  /\ n <= available[a]
  /\ available' = [available EXCEPT ![a] = @ - n]
  /\ blocked' = [blocked EXCEPT ![a] = @ + n]
  /\ UNCHANGED pending

\* Mutant: the blocked balance is not reduced.
UnblockKeepingBlocked(a, n) ==
  /\ n <= blocked[a]
  /\ available' = [available EXCEPT ![a] = @ + n]
  /\ UNCHANGED <<pending, blocked>>

Unblock(a, n) ==
  /\ n <= blocked[a]
  /\ blocked' = [blocked EXCEPT ![a] = @ - n]
  /\ available' = [available EXCEPT ![a] = @ + n]
  /\ UNCHANGED pending

DeductFromBlocked(a, n) ==
  /\ n <= blocked[a]
  /\ blocked' = [blocked EXCEPT ![a] = @ - n]
  /\ UNCHANGED <<available, pending>>

\* A row of the transactions table, kept as the running total of its type.
Post(a, type, n) == posted' = [posted EXCEPT ![a][type] = @ + n]

Emit(events) == outbox' = outbox \cup events

-----------------------------------------------------------------------------
Init ==
  /\ available = [a \in Accounts |-> 0]
  /\ pending = [a \in Accounts |-> 0]
  /\ blocked = [a \in Accounts |-> 0]
  /\ posted = [a \in Accounts |-> [t \in TransactionType |-> 0]]
  /\ charge = [c \in Charges |-> "NONE"]
  /\ overdue = [c \in Charges |-> FALSE]
  /\ linkClosed = [c \in Charges |-> FALSE]
  /\ payment = [p \in Payments |-> "NONE"]
  /\ fee = [p \in Payments |-> 0]
  /\ refunded = [p \in Payments |-> 0]
  /\ feeRefunded = [p \in Payments |-> 0]
  /\ refundCount = [p \in Payments |-> 0]
  /\ withdrawal = [w \in Withdrawals |-> "NONE"]
  /\ amountOf = [w \in Withdrawals |-> 0]
  /\ today = {}
  /\ outbox = {}

\* FeePolicy refuses a fee that is not below the amount.
NewAttempt(p, status) ==
  /\ payment[p] = "NONE"
  /\ payment' = [payment EXCEPT ![p] = status]
  /\ \E f \in Fees : f < AmountOf(p) /\ fee' = [fee EXCEPT ![p] = f]
  /\ UNCHANGED <<refunded, feeRefunded, refundCount>>

CreatePayment(p) ==
  /\ ~IsLink(p)
  /\ NewAttempt(p, "PENDING")
  /\ charge' = [charge EXCEPT ![ChargeOf[p]] = "OPEN"]
  /\ Emit({<<"payment.created", p>>})
  /\ UNCHANGED <<balances, posted, overdue, linkClosed, payoutVars>>

CreatePaymentLink(c) ==
  /\ c \in LinkCharges /\ charge[c] = "NONE"
  /\ charge' = [charge EXCEPT ![c] = "OPEN"]
  /\ Emit({<<"payment_link.created", c>>})
  /\ UNCHANGED <<balances, posted, overdue, linkClosed, paymentVars, payoutVars>>

\* settleConfirmedPayment: credits the net amount and closes the charge.
Settle(p, net, events) ==
  /\ AddToPending(AccountOf(p), net)
  /\ Post(AccountOf(p), "PAYMENT_RECEIVED", net)
  /\ charge' = [charge EXCEPT ![ChargeOf[p]] = "PAID"]
  /\ Emit(events \cup {<<"payment.confirmed", p>>}
            \cup IF IsLink(p) THEN {<<"payment_link.paid", ChargeOf[p]>>} ELSE {})
  /\ UNCHANGED <<overdue, linkClosed, payoutVars>>

ConfirmPayment(p) ==
  /\ payment[p] = "PENDING" /\ charge[ChargeOf[p]] = "OPEN"
  /\ ~overdue[ChargeOf[p]]
  /\ payment' = [payment EXCEPT ![p] = "CONFIRMED"]
  /\ Settle(p, NetOf(p), {})
  /\ UNCHANGED <<fee, refunded, feeRefunded, refundCount>>

\* Mutant: the charge is not checked again after its row is locked.
LinkPayableStale(c) ==
  c \in LinkCharges /\ charge[c] \in {"OPEN", "PAID"} /\ ~linkClosed[c] /\ ~overdue[c]

\* computePaymentLinkStatus yields ACTIVE or OPENED.
LinkPayable(c) ==
  c \in LinkCharges /\ charge[c] = "OPEN" /\ ~linkClosed[c] /\ ~overdue[c]

\* The attempt is created and confirmed in the same transaction, so no
\* attempt of a link is ever committed as PENDING.
PayPaymentLink(p) ==
  /\ LinkPayable(ChargeOf[p])
  /\ NewAttempt(p, "CONFIRMED")
  /\ Settle(p, AmountOf(p) - fee'[p], {<<"payment.created", p>>})

FailPaymentLink(p) ==
  /\ LinkPayable(ChargeOf[p])
  /\ NewAttempt(p, "FAILED")
  /\ Emit({<<"payment.failed", p>>})
  /\ UNCHANGED <<balances, posted, chargeVars, payoutVars>>

\* Mutant: a paid charge does not stop the cancellation.
CancelPaidPaymentLink(c) ==
  /\ c \in LinkCharges /\ charge[c] # "NONE"
  /\ linkClosed' = [linkClosed EXCEPT ![c] = TRUE]
  /\ charge' = [charge EXCEPT ![c] = IF @ = "OPEN" THEN "CANCELLED" ELSE @]
  /\ Emit({<<"payment_link.cancelled", c>>})
  /\ UNCHANGED <<balances, posted, overdue, paymentVars, payoutVars>>

\* A second cancellation finds cancelledAt set and only repeats the event.
CancelPaymentLink(c) ==
  /\ c \in LinkCharges /\ charge[c] \notin {"NONE", "PAID"}
  /\ linkClosed' = [linkClosed EXCEPT ![c] = TRUE]
  /\ charge' = [charge EXCEPT ![c] = IF @ = "OPEN" THEN "CANCELLED" ELSE @]
  /\ Emit({<<"payment_link.cancelled", c>>})
  /\ UNCHANGED <<balances, posted, overdue, paymentVars, payoutVars>>

\* Mutant: the transition table lets a confirmed payment expire or fail.
EndConfirmed(p, status, chargeEnd, events) ==
  /\ payment[p] \in {"PENDING", "CONFIRMED"}
  /\ payment' = [payment EXCEPT ![p] = status]
  /\ charge' = [charge EXCEPT ![ChargeOf[p]] = IF @ = "OPEN" THEN chargeEnd ELSE @]
  /\ Emit(events)
  /\ UNCHANGED <<balances, posted, overdue, linkClosed, payoutVars>>
  /\ UNCHANGED <<fee, refunded, feeRefunded, refundCount>>

\* A pending payment ends without being paid; its charge, if still open,
\* takes the status chargeEnd.
EndUnpaid(p, status, chargeEnd, events) ==
  /\ payment[p] = "PENDING"
  /\ payment' = [payment EXCEPT ![p] = status]
  /\ charge' = [charge EXCEPT ![ChargeOf[p]] = IF @ = "OPEN" THEN chargeEnd ELSE @]
  /\ Emit(events)
  /\ UNCHANGED <<balances, posted, overdue, linkClosed, payoutVars>>
  /\ UNCHANGED <<fee, refunded, feeRefunded, refundCount>>

FailPayment(p) ==
  EndUnpaid(p, "FAILED", "CANCELLED", {<<"payment.failed", p>>})

\* ExpirePayment itself never looks at expiresAt: the delayed job and the
\* periodic job do, the TEST simulation does not.
ExpirePayment(p) ==
  EndUnpaid(p, "EXPIRED", "EXPIRED",
    {<<"payment.expired", p>>} \cup
    IF IsLink(p) /\ charge[ChargeOf[p]] = "OPEN"
    THEN {<<"payment_link.expired", ChargeOf[p]>>} ELSE {})

\* Mutant: the charge is saved as expired and the payment is not saved.
GetPaymentUnsaved(p) ==
  /\ overdue[ChargeOf[p]] /\ payment[p] = "PENDING"
  /\ charge' = [charge EXCEPT ![ChargeOf[p]] = "EXPIRED"]
  /\ UNCHANGED <<balances, posted, overdue, linkClosed, paymentVars, payoutVars, outbox>>

\* Reading an overdue pending payment expires it, and this one commits.
GetPayment(p) ==
  /\ overdue[ChargeOf[p]]
  /\ EndUnpaid(p, "EXPIRED", "EXPIRED", {<<"payment.expired", p>>})

\* Mutant: refunds taken before settlement are not subtracted.
ReleasePaymentInFull(p) ==
  /\ payment[p] = "CONFIRMED"
  /\ payment' = [payment EXCEPT ![p] = "RELEASED"]
  /\ ReleaseFromPending(AccountOf(p), NetOf(p))
  /\ Post(AccountOf(p), "PAYMENT_RELEASED", NetOf(p))
  /\ Emit({<<"payment.released", p>>})
  /\ UNCHANGED <<chargeVars, fee, refunded, feeRefunded, refundCount, payoutVars>>

\* The payment is settled into the available balance.
ReleasePayment(p) ==
  /\ payment[p] = "CONFIRMED"
  /\ payment' = [payment EXCEPT ![p] = "RELEASED"]
  /\ ReleaseFromPending(AccountOf(p), RemainingNet(p))
  /\ Post(AccountOf(p), "PAYMENT_RELEASED", RemainingNet(p))
  /\ Emit({<<"payment.released", p>>})
  /\ UNCHANGED <<chargeVars, fee, refunded, feeRefunded, refundCount, payoutVars>>

CreateRefund(p, x) ==
  /\ payment[p] \in {"CONFIRMED", "RELEASED"}
  /\ x \in 1 .. (AmountOf(p) - refunded[p])
  /\ \E f \in FeeShares(p, x) :
       /\ \/ payment[p] = "CONFIRMED" /\ DeductFromPending(AccountOf(p), x - f)
          \/ payment[p] = "RELEASED" /\ DeductFromAvailable(AccountOf(p), x - f)
       /\ feeRefunded' = [feeRefunded EXCEPT ![p] = @ + f]
       /\ Post(AccountOf(p), "REFUND_DEDUCTED", x - f)
  /\ refunded' = [refunded EXCEPT ![p] = @ + x]
  /\ refundCount' = [refundCount EXCEPT ![p] = @ + 1]
  /\ payment' = [payment EXCEPT ![p] =
                   IF refunded[p] + x = AmountOf(p) THEN "REFUNDED" ELSE @]
  /\ Emit({<<"payment.refunded", p>>})
  /\ UNCHANGED <<chargeVars, fee, payoutVars>>

-----------------------------------------------------------------------------
\* Every withdrawal created since midnight counts, failed ones included.
RequestedToday(a) == {w \in today : WithdrawalAccount[w] = a}
AmountToday(a) == MapThenSumSet(LAMBDA w : amountOf[w], RequestedToday(a))

WithinDailyLimits(a, n) ==
  /\ AmountToday(a) + n <= DailyAmountLimit
  /\ Cardinality(RequestedToday(a)) + 1 <= DailyCountLimit

CreateWithdrawal(w, n) ==
  LET a == WithdrawalAccount[w] IN
  /\ withdrawal[w] = "NONE" /\ n \in PayoutAmounts
  /\ WithinDailyLimits(a, n)
  /\ Block(a, n)
  /\ Post(a, "WITHDRAWAL_RESERVED", n)
  /\ withdrawal' = [withdrawal EXCEPT ![w] = "OPEN"]
  /\ amountOf' = [amountOf EXCEPT ![w] = n]
  /\ today' = today \cup {w}
  /\ Emit({<<"withdrawal.created", w>>})
  /\ UNCHANGED <<chargeVars, paymentVars>>

\* Mutant: a completed withdrawal is not recognised as terminal.
CompleteWithdrawalAgain(w) ==
  /\ withdrawal[w] \in {"OPEN", "COMPLETED"}
  /\ withdrawal' = [withdrawal EXCEPT ![w] = "COMPLETED"]
  /\ DeductFromBlocked(WithdrawalAccount[w], amountOf[w])
  /\ Post(WithdrawalAccount[w], "WITHDRAWAL_SENT", amountOf[w])
  /\ Emit({<<"withdrawal.completed", w>>})
  /\ UNCHANGED <<chargeVars, paymentVars, amountOf, today>>

CompleteWithdrawal(w) ==
  /\ withdrawal[w] = "OPEN"
  /\ withdrawal' = [withdrawal EXCEPT ![w] = "COMPLETED"]
  /\ DeductFromBlocked(WithdrawalAccount[w], amountOf[w])
  /\ Post(WithdrawalAccount[w], "WITHDRAWAL_SENT", amountOf[w])
  /\ Emit({<<"withdrawal.completed", w>>})
  /\ UNCHANGED <<chargeVars, paymentVars, amountOf, today>>

\* Mutant: the reservation is dropped instead of returned.
FailWithdrawalLosingFunds(w) ==
  /\ withdrawal[w] = "OPEN"
  /\ withdrawal' = [withdrawal EXCEPT ![w] = "FAILED"]
  /\ DeductFromBlocked(WithdrawalAccount[w], amountOf[w])
  /\ Post(WithdrawalAccount[w], "WITHDRAWAL_REVERSED", amountOf[w])
  /\ Emit({<<"withdrawal.failed", w>>})
  /\ UNCHANGED <<chargeVars, paymentVars, amountOf, today>>

FailWithdrawal(w) ==
  /\ withdrawal[w] = "OPEN"
  /\ withdrawal' = [withdrawal EXCEPT ![w] = "FAILED"]
  /\ Unblock(WithdrawalAccount[w], amountOf[w])
  /\ Post(WithdrawalAccount[w], "WITHDRAWAL_REVERSED", amountOf[w])
  /\ Emit({<<"withdrawal.failed", w>>})
  /\ UNCHANGED <<chargeVars, paymentVars, amountOf, today>>

-----------------------------------------------------------------------------
(* The clock.                                                              *)

PassDeadline(c) ==
  /\ charge[c] = "OPEN" /\ ~overdue[c]
  /\ overdue' = [overdue EXCEPT ![c] = TRUE]
  /\ UNCHANGED <<balances, posted, charge, linkClosed, paymentVars, payoutVars, outbox>>

NewDay ==
  /\ today # {}
  /\ today' = {}
  /\ UNCHANGED <<balances, posted, chargeVars, paymentVars, withdrawal, amountOf, outbox>>

PaymentNext(p) ==
  \/ CreatePayment(p) \/ ConfirmPayment(p)
  \/ PayPaymentLink(p) \/ FailPaymentLink(p)
  \/ FailPayment(p) \/ ExpirePayment(p) \/ GetPayment(p)
  \/ ReleasePayment(p)
  \/ \E x \in 1 .. AmountOf(p) : CreateRefund(p, x)

ChargeNext(c) == CreatePaymentLink(c) \/ CancelPaymentLink(c) \/ PassDeadline(c)

WithdrawalNext(w) ==
  \/ \E n \in PayoutAmounts : CreateWithdrawal(w, n)
  \/ CompleteWithdrawal(w) \/ FailWithdrawal(w)

Next ==
  \/ \E p \in Payments : PaymentNext(p)
  \/ \E c \in Charges : ChargeNext(c)
  \/ \E w \in Withdrawals : WithdrawalNext(w)
  \/ NewDay

Spec == Init /\ [][Next]_vars
-----------------------------------------------------------------------------
(* Fairness: the worker's periodic jobs.  payment-expiration.job selects   *)
(* overdue pending payments, settlement.job confirmed ones, and both come  *)
(* back to whatever is still selected on their next run.                   *)

ExpirationJob(p) == overdue[ChargeOf[p]] /\ ExpirePayment(p)
SettlementJob(p) == ReleasePayment(p)

FairSpec ==
  /\ Spec
  /\ \A p \in Payments : WF_vars(ExpirationJob(p)) /\ WF_vars(SettlementJob(p))

-----------------------------------------------------------------------------
(* Properties.                                                             *)

\* The type of every variable. That the balances are naturals is a claim
\* about the checks of the Account entity: no step overdraws a balance; that
\* fees stay below amounts is FeePolicy's (every payment has a net amount).
TypeOK ==
  /\ available \in [Accounts -> Nat]
  /\ pending \in [Accounts -> Nat]
  /\ blocked \in [Accounts -> Nat]
  /\ posted \in [Accounts -> [TransactionType -> Nat]]
  /\ charge \in [Charges -> PixChargeStatus \cup {"NONE"}]
  /\ overdue \in [Charges -> BOOLEAN]
  /\ linkClosed \in [Charges -> BOOLEAN]
  /\ payment \in [Payments -> PaymentStatus \cup {"NONE"}]
  /\ fee \in [Payments -> Nat] /\ \A p \in Payments : fee[p] < AmountOf(p)
  /\ refunded \in [Payments -> Nat]
  /\ feeRefunded \in [Payments -> Nat]
  /\ refundCount \in [Payments -> Nat]
  /\ withdrawal \in [Withdrawals -> {"NONE", "OPEN", "COMPLETED", "FAILED"}]
  /\ amountOf \in [Withdrawals -> Nat]
  /\ today \subseteq Withdrawals
  /\ outbox \subseteq (PaymentEvent \X Payments) \cup (LinkEvent \X Charges)
                        \cup (WithdrawalEvent \X Withdrawals)

\* The balances an account row carries are exactly what its rows of the
\* transactions table add up to: whatever the order of confirmations,
\* refunds, releases and withdrawals, no use case moves money it does not
\* post, posts money it does not move, or does either on the wrong account.
BooksBalance ==
  \A a \in Accounts :
    /\ available[a] + pending[a] + blocked[a] =
         posted[a]["PAYMENT_RECEIVED"] - posted[a]["REFUND_DEDUCTED"]
           - posted[a]["WITHDRAWAL_SENT"]
    /\ blocked[a] =
         posted[a]["WITHDRAWAL_RESERVED"] - posted[a]["WITHDRAWAL_SENT"]
           - posted[a]["WITHDRAWAL_REVERSED"]

Paid(p) == payment[p] \in {"CONFIRMED", "RELEASED", "REFUNDED"}

\* A charge is collected once: attempts of one payment link that race to pay
\* it, fail, or race its cancellation leave at most one attempt that was ever
\* credited, and a charge is PAID exactly when there is one.
SingleSettlement ==
  /\ \A p, q \in Payments :
       Paid(p) /\ Paid(q) /\ ChargeOf[p] = ChargeOf[q] => p = q
  /\ \A c \in Charges :
       charge[c] = "PAID" <=> \E p \in Payments : ChargeOf[p] = c /\ Paid(p)

\* Refunds of a payment never exceed it, REFUNDED means refunded in full, only
\* a payment that was credited has any, and the part of the fee returned over
\* n refunds is within n/2 cents of the proportional share (the bound on how
\* far per-refund rounding can drift).
RefundProration ==
  \A p \in Payments :
    LET drift == 2 * AmountOf(p) * feeRefunded[p] - 2 * fee[p] * refunded[p]
        slack == refundCount[p] * AmountOf(p)
    IN  /\ refunded[p] <= AmountOf(p)
        /\ payment[p] = "REFUNDED" <=> refunded[p] = AmountOf(p)
        /\ ~Paid(p) => refundCount[p] = 0 /\ refunded[p] = 0 /\ feeRefunded[p] = 0
        /\ -slack <= drift /\ drift <= slack

Announced(event, id) == <<event, id>> \in outbox

\* A webhook subscriber is told one outcome per payment and per link, the one
\* the database holds: confirmed, expired and failed exclude one another, and
\* a link is announced paid exactly when its charge is, never also as
\* cancelled or expired.
OutboxTellsOutcome ==
  /\ \A p \in Payments :
       /\ Announced("payment.confirmed", p) <=> Paid(p)
       /\ Announced("payment.expired", p) <=> payment[p] = "EXPIRED"
       /\ Announced("payment.failed", p) <=> payment[p] = "FAILED"
       /\ Announced("payment.refunded", p) <=> refunded[p] > 0
       /\ payment[p] = "RELEASED" => Announced("payment.released", p)
  /\ \A c \in LinkCharges :
       /\ Announced("payment_link.paid", c) <=> charge[c] = "PAID"
       /\ Announced("payment_link.cancelled", c) <=> charge[c] = "CANCELLED"
       /\ charge[c] = "PAID" => ~Announced("payment_link.expired", c)

\* A payment that is still PENDING can always be closed by its payer or by the
\* expiration job: its charge is open and nothing else settled it.
PendingIsPayable ==
  \A p \in Payments : payment[p] = "PENDING" => charge[ChargeOf[p]] = "OPEN"

\* The withdrawals an account requests in one day stay within the policy's
\* amount and count, whichever of them failed in the meantime.
DailyLimits ==
  \A a \in Accounts :
    /\ AmountToday(a) <= DailyAmountLimit
    /\ Cardinality(RequestedToday(a)) <= DailyCountLimit

Holdings(a) == <<available[a], pending[a], blocked[a], posted[a]>>

\* TEST and LIVE money, and the money of two stores, never mix: one
\* transaction moves or posts on at most one account.
OneAccountPerStep ==
  [][\A a, b \in Accounts :
       Holdings(a)' # Holdings(a) /\ Holdings(b)' # Holdings(b) => a = b]_vars

\* A payment reaches the available balance once, and what has left PENDING
\* unpaid or been refunded in full is final.
PaymentsAreFinal ==
  [][\A p \in Payments :
       /\ payment[p] \in {"EXPIRED", "FAILED", "REFUNDED"} => payment'[p] = payment[p]
       /\ payment[p] = "RELEASED" => payment'[p] \in {"RELEASED", "REFUNDED"}
       /\ Paid(p) => Paid(p)']_vars

\* An overdue pending payment does not stay pending.
OverdueCloses ==
  \A p \in Payments :
    payment[p] = "PENDING" /\ overdue[ChargeOf[p]] ~> payment[p] # "PENDING"

\* A confirmed payment is eventually released or refunded in full.
ConfirmedSettles ==
  \A p \in Payments :
    payment[p] = "CONFIRMED" ~> payment[p] \in {"RELEASED", "REFUNDED"}

\* The periodic jobs leave no payment behind.
JobsFinish == OverdueCloses /\ ConfirmedSettles

\* The pending balance covers the release of any confirmed payment ("Pagamento
\* confirmado aumenta saldo pending; release move para available").
ConfirmedIsReleasable ==
  \A p \in Payments :
    payment[p] = "CONFIRMED" => RemainingNet(p) \in 0 .. pending[AccountOf(p)]

\* A link that had an attempt and whose deadline passed unpaid is announced as
\* expired ("O link expirou": the charge was open and the job expired it).
LinkExpiryAnnounced ==
  \A p \in Payments :
    IsLink(p) /\ payment[p] # "NONE" /\ charge[ChargeOf[p]] = "OPEN"
      /\ overdue[ChargeOf[p]]
    ~> Announced("payment_link.expired", ChargeOf[p]) \/ linkClosed[ChargeOf[p]]
=============================================================================
