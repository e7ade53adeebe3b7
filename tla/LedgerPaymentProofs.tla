------------------------ MODULE LedgerPaymentProofs ------------------------
(***************************************************************************)
(* Proofs about the payments of Ledger: a charge is collected once, and    *)
(* refunds stay prorated.  Both invariants are inductive together with     *)
(* TypeOK; what each needs of a step is how it changes one payment and its *)
(* charge, so the steps are first summed up as such.                       *)
(***************************************************************************)
EXTENDS LedgerProofs

-----------------------------------------------------------------------------
(* A charge is collected once.                                             *)

\* Payment p enters a status in which it counts as paid.
Collect(p, status) ==
  /\ status \in {"CONFIRMED"} /\ ~Paid(p) /\ charge[ChargeOf[p]] = "OPEN"
  /\ payment' = [payment EXCEPT ![p] = status]
  /\ charge' = [charge EXCEPT ![ChargeOf[p]] = "PAID"]

\* No payment becomes paid or stops being so, and no charge becomes PAID or
\* stops being so.
SamePaid ==
  /\ \A q \in Payments : Paid(q)' = Paid(q)
  /\ \A c \in Charges : (charge'[c] = "PAID") = (charge[c] = "PAID")

\* A use case on a payment collects an open charge, or changes no paid payment.
LEMMA PaymentCollects ==
  ASSUME TypeOK, SingleSettlement, NEW p \in Payments, PaymentNext(p)
  PROVE  SamePaid \/ Collect(p, "CONFIRMED")
<1> USE DEF Paid
<1>0. ChargeOf[p] \in Charges /\ payment \in [Payments -> PaymentStatus \cup {"NONE"}]
      /\ charge \in [Charges -> PixChargeStatus \cup {"NONE"}]
  BY ConstantTypes DEF TypeOK
<1>1. CASE CreatePayment(p)
  <2>1. charge[ChargeOf[p]] # "PAID"
    BY <1>0, <1>1, DirectChargeAssumption
    DEF CreatePayment, NewAttempt, SingleSettlement, IsLink
  <2> QED BY <1>0, <1>1, <2>1 DEF CreatePayment, NewAttempt, SamePaid
<1>2. CASE ConfirmPayment(p)
  BY <1>0, <1>2 DEF ConfirmPayment, Settle, Collect
<1>3. CASE PayPaymentLink(p)
  BY <1>0, <1>3 DEF PayPaymentLink, LinkPayable, NewAttempt, Settle, Collect
<1>4. CASE FailPaymentLink(p)
  BY <1>0, <1>4 DEF FailPaymentLink, NewAttempt, SamePaid, chargeVars
<1>5. CASE FailPayment(p) \/ ExpirePayment(p) \/ GetPayment(p)
  BY <1>0, <1>5 DEF FailPayment, ExpirePayment, GetPayment, EndUnpaid, SamePaid
<1>6. CASE ReleasePayment(p)
  BY <1>0, <1>6 DEF ReleasePayment, SamePaid, chargeVars
<1>7. ASSUME NEW x \in 1 .. AmountOf(p), CreateRefund(p, x)
      PROVE  SamePaid
  BY <1>0, <1>7 DEF CreateRefund, SamePaid, chargeVars
<1> QED BY <1>1, <1>2, <1>3, <1>4, <1>5, <1>6, <1>7 DEF PaymentNext

\* Links, withdrawals and the clock change no paid payment.
LEMMA OthersKeepPaid ==
  ASSUME TypeOK, [Next]_vars, ~ \E p \in Payments : PaymentNext(p)
  PROVE  SamePaid
<1> USE DEF Paid
<1>1. ASSUME NEW c \in Charges, ChargeNext(c)
      PROVE  SamePaid
  BY <1>1 DEF TypeOK, ChargeNext, CreatePaymentLink, CancelPaymentLink, PassDeadline,
              SamePaid, paymentVars
<1>2. ASSUME NEW w \in Withdrawals, WithdrawalNext(w)
      PROVE  SamePaid
  BY <1>2 DEF WithdrawalNext, CreateWithdrawal, CompleteWithdrawal, FailWithdrawal,
              SamePaid, paymentVars, chargeVars
<1>3. CASE NewDay \/ UNCHANGED vars
  BY <1>3 DEF NewDay, vars, SamePaid, paymentVars, chargeVars
<1> QED BY <1>1, <1>2, <1>3 DEF Next

\* A charge never yields money twice: at most one attempt of a charge is ever
\* credited, and the charge is PAID exactly when one was.
THEOREM ChargesAreCollectedOnce == Spec => []SingleSettlement
<1>1. Init => SingleSettlement
  BY DEF Init, SingleSettlement, Paid
<1>2. TypeOK /\ SingleSettlement /\ [Next]_vars => SingleSettlement'
  <2> SUFFICES ASSUME TypeOK, SingleSettlement, [Next]_vars PROVE SingleSettlement'
    OBVIOUS
  <2>1. CASE SamePaid
    BY <2>1 DEF SamePaid, SingleSettlement
  <2>2. ASSUME NEW p \in Payments, Collect(p, "CONFIRMED")
        PROVE  SingleSettlement'
    <3>1. \A q \in Payments : Paid(q)' = (Paid(q) \/ q = p)
      BY <2>2 DEF TypeOK, Collect, Paid
    <3>2. \A c \in Charges : (charge'[c] = "PAID") = (charge[c] = "PAID" \/ c = ChargeOf[p])
      BY <2>2, ConstantTypes DEF TypeOK, Collect
    <3>3. \A q \in Payments : ChargeOf[q] = ChargeOf[p] => ~Paid(q)
      BY <2>2, ConstantTypes DEF Collect, SingleSettlement
    <3> QED BY <3>1, <3>2, <3>3, ConstantTypes DEF SingleSettlement
  <2> QED BY <2>1, <2>2, PaymentCollects, OthersKeepPaid
<1> QED BY <1>1, <1>2, TypeCorrect, PTL DEF Spec

-----------------------------------------------------------------------------
(* Refunds stay prorated.                                                  *)

\* One more refund of x with fee share f, whose own rounding is off by at most
\* half a cent, drifts the total by at most that.
LEMMA DriftStep ==
  ASSUME NEW A \in Nat, NEW k \in Nat, NEW X \in Nat, NEW F \in Nat, NEW n \in Nat,
         NEW x \in Nat, NEW f \in Nat,
         -(n * A) <= 2 * A * F - 2 * k * X, 2 * A * F - 2 * k * X <= n * A,
         -A <= 2 * A * f - 2 * k * x, 2 * A * f - 2 * k * x <= A
  PROVE  /\ -((n + 1) * A) <= 2 * A * (F + f) - 2 * k * (X + x)
         /\ 2 * A * (F + f) - 2 * k * (X + x) <= (n + 1) * A
<1>1. 2 * A * (F + f) = 2 * A * F + 2 * A * f
  OBVIOUS
<1>2. 2 * k * (X + x) = 2 * k * X + 2 * k * x
  OBVIOUS
<1>3. (n + 1) * A = n * A + A
  OBVIOUS
<1> DEFINE a == 2 * A * F
           b == 2 * A * f
           c == 2 * k * X
           d == 2 * k * x
           e == n * A
<1>4. a \in Int /\ b \in Int /\ c \in Int /\ d \in Int /\ e \in Int
  OBVIOUS
<1> HIDE DEF a, b, c, d, e
<1>5. -e <= a - c /\ a - c <= e /\ -A <= b - d /\ b - d <= A
  BY DEF a, b, c, d, e
<1>6. -(e + A) <= (a + b) - (c + d) /\ (a + b) - (c + d) <= e + A
  BY <1>4, <1>5
<1> QED BY <1>1, <1>2, <1>3, <1>6 DEF a, b, c, d, e

\* RefundProration of one payment, as a condition on the values it carries:
\* amount A, fee k, refunded X with fee share F over n refunds, status.
ProratedAt(A, k, X, F, n, status) ==
  /\ X <= A
  /\ status = "REFUNDED" <=> X = A
  /\ status \notin {"CONFIRMED", "RELEASED", "REFUNDED"} => n = 0 /\ X = 0 /\ F = 0
  /\ -(n * A) <= 2 * A * F - 2 * k * X
  /\ 2 * A * F - 2 * k * X <= n * A

\* RefundProration, one payment at a time.
LEMMA ProrationPointwise ==
  /\ RefundProration <=> \A q \in Payments :
       ProratedAt(AmountOf(q), fee[q], refunded[q], feeRefunded[q], refundCount[q], payment[q])
  /\ RefundProration' <=> \A q \in Payments :
       ProratedAt(AmountOf(q), fee'[q], refunded'[q], feeRefunded'[q], refundCount'[q], payment'[q])
<1>1. RefundProration <=> \A q \in Payments :
        ProratedAt(AmountOf(q), fee[q], refunded[q], feeRefunded[q], refundCount[q], payment[q])
  BY Zenon DEF RefundProration, ProratedAt, Paid
<1>2. RefundProration' <=> \A q \in Payments :
        ProratedAt(AmountOf(q), fee'[q], refunded'[q], feeRefunded'[q], refundCount'[q], payment'[q])
  BY Zenon DEF RefundProration, ProratedAt, Paid, AmountOf
<1> QED BY <1>1, <1>2

\* No refund of q: what it carries is unchanged, or q is an attempt just made.
NotRefunded(q) ==
  /\ refunded'[q] = refunded[q] /\ feeRefunded'[q] = feeRefunded[q]
  /\ refundCount'[q] = refundCount[q]
  /\ (payment'[q] = "REFUNDED") = (payment[q] = "REFUNDED")
  /\ \/ fee'[q] = fee[q] /\ (Paid(q) => Paid(q)')
     \/ payment[q] = "NONE" /\ fee'[q] \in Nat

\* Only CreateRefund changes a total that was refunded.
LEMMA OnlyRefundsRefund ==
  ASSUME TypeOK, [Next]_vars,
         ~ \E p \in Payments : \E x \in 1 .. AmountOf(p) : CreateRefund(p, x),
         NEW q \in Payments
  PROVE  NotRefunded(q)
<1> USE DEF Paid
<1>0. /\ payment \in [Payments -> PaymentStatus \cup {"NONE"}]
      /\ fee \in [Payments -> Nat]
  BY DEF TypeOK
<1>1. ASSUME NEW p \in Payments, NewAttempt(p, "PENDING") \/ NewAttempt(p, "CONFIRMED")
                                   \/ NewAttempt(p, "FAILED")
      PROVE  NotRefunded(q)
  BY <1>0, <1>1, FeesAssumption DEF NewAttempt, NotRefunded
<1>2. ASSUME NEW p \in Payments, PaymentNext(p)
      PROVE  NotRefunded(q)
  <2>1. CASE CreatePayment(p) \/ PayPaymentLink(p) \/ FailPaymentLink(p)
    BY <1>1, <2>1 DEF CreatePayment, PayPaymentLink, FailPaymentLink
  <2>2. CASE ConfirmPayment(p)
    BY <1>0, <2>2 DEF ConfirmPayment, NotRefunded
  <2>3. CASE FailPayment(p) \/ ExpirePayment(p) \/ GetPayment(p)
    BY <1>0, <2>3 DEF FailPayment, ExpirePayment, GetPayment, EndUnpaid, NotRefunded
  <2>4. CASE ReleasePayment(p)
    BY <1>0, <2>4 DEF ReleasePayment, NotRefunded
  <2> QED BY <1>2, <2>1, <2>2, <2>3, <2>4 DEF PaymentNext
<1>3. CASE UNCHANGED paymentVars
  BY <1>3 DEF paymentVars, NotRefunded
<1>4. ASSUME NEW c \in Charges, ChargeNext(c)
      PROVE  UNCHANGED paymentVars
  BY <1>4 DEF ChargeNext, CreatePaymentLink, CancelPaymentLink, PassDeadline
<1>5. ASSUME NEW w \in Withdrawals, WithdrawalNext(w)
      PROVE  UNCHANGED paymentVars
  BY <1>5 DEF WithdrawalNext, CreateWithdrawal, CompleteWithdrawal, FailWithdrawal
<1>6. CASE NewDay \/ UNCHANGED vars
  BY <1>6, <1>3 DEF NewDay, vars
<1> QED BY <1>2, <1>3, <1>4, <1>5, <1>6 DEF Next

\* What is not refunded in a step stays prorated.
LEMMA NotRefundedKeepsProration ==
  ASSUME TypeOK, NEW q \in Payments, NotRefunded(q),
         ProratedAt(AmountOf(q), fee[q], refunded[q], feeRefunded[q], refundCount[q], payment[q])
  PROVE  ProratedAt(AmountOf(q), fee'[q], refunded'[q], feeRefunded'[q], refundCount'[q], payment'[q])
<1>1. CASE fee'[q] = fee[q] /\ (Paid(q) => Paid(q)')
  BY <1>1 DEF NotRefunded, ProratedAt, Paid
<1>2. CASE payment[q] = "NONE" /\ fee'[q] \in Nat
  <2>1. AmountOf(q) \in Nat
    BY ConstantTypes
  <2>2. /\ refunded'[q] = 0 /\ feeRefunded'[q] = 0 /\ refundCount'[q] = 0
        /\ payment'[q] # "REFUNDED" /\ AmountOf(q) # 0
    BY <1>2 DEF NotRefunded, ProratedAt
  <2>3. 2 * AmountOf(q) * 0 - 2 * fee'[q] * 0 = 0 /\ -(0 * AmountOf(q)) = 0
    BY <1>2, <2>1
  <2> QED BY <2>1, <2>2, <2>3 DEF ProratedAt
<1> QED BY <1>1, <1>2 DEF NotRefunded

\* A refund moves the values of its payment by one drift step and touches no
\* other payment's.
LEMMA RefundKeepsProration ==
  ASSUME TypeOK, RefundProration, NEW p \in Payments, NEW x \in 1 .. AmountOf(p),
         CreateRefund(p, x), NEW q \in Payments
  PROVE  ProratedAt(AmountOf(q), fee'[q], refunded'[q], feeRefunded'[q], refundCount'[q], payment'[q])
<1>0. /\ payment \in [Payments -> PaymentStatus \cup {"NONE"}]
      /\ refunded \in [Payments -> Nat] /\ feeRefunded \in [Payments -> Nat]
      /\ refundCount \in [Payments -> Nat] /\ fee[p] \in Nat
      /\ AmountOf(p) \in Nat /\ x \in Nat /\ x > 0
  BY ConstantTypes DEF TypeOK
<1>1. \A r \in Payments :
        ProratedAt(AmountOf(r), fee[r], refunded[r], feeRefunded[r], refundCount[r], payment[r])
  BY ProrationPointwise
<1>2. PICK f \in FeeShares(p, x) : feeRefunded' = [feeRefunded EXCEPT ![p] = @ + f]
  BY DEF CreateRefund
<1>3. /\ payment[p] \in {"CONFIRMED", "RELEASED"} /\ x <= AmountOf(p) - refunded[p]
      /\ refunded' = [refunded EXCEPT ![p] = @ + x]
      /\ refundCount' = [refundCount EXCEPT ![p] = @ + 1]
      /\ payment' = [payment EXCEPT ![p] =
                       IF refunded[p] + x = AmountOf(p) THEN "REFUNDED" ELSE @]
      /\ fee' = fee
  BY DEF CreateRefund
<1>4. CASE q # p
  <2>1. /\ refunded'[q] = refunded[q] /\ feeRefunded'[q] = feeRefunded[q]
        /\ refundCount'[q] = refundCount[q] /\ payment'[q] = payment[q] /\ fee'[q] = fee[q]
    BY <1>0, <1>2, <1>3, <1>4
  <2> QED BY <1>1, <2>1
<1>5. CASE q = p
  <2>1. f \in Nat /\ -AmountOf(p) <= 2 * AmountOf(p) * f - 2 * fee[p] * x
        /\ 2 * AmountOf(p) * f - 2 * fee[p] * x <= AmountOf(p)
    BY <1>0 DEF FeeShares
  <2>2. /\ refunded'[p] = refunded[p] + x /\ feeRefunded'[p] = feeRefunded[p] + f
        /\ refundCount'[p] = refundCount[p] + 1 /\ fee'[p] = fee[p]
    BY <1>0, <1>2, <1>3
  <2>3. /\ refunded[p] + x <= AmountOf(p)
        /\ payment'[p] = "REFUNDED" <=> refunded[p] + x = AmountOf(p)
        /\ payment'[p] \in {"CONFIRMED", "RELEASED", "REFUNDED"}
    BY <1>0, <1>3
  <2>4. /\ -(refundCount[p] * AmountOf(p))
             <= 2 * AmountOf(p) * feeRefunded[p] - 2 * fee[p] * refunded[p]
        /\ 2 * AmountOf(p) * feeRefunded[p] - 2 * fee[p] * refunded[p]
             <= refundCount[p] * AmountOf(p)
    BY <1>1 DEF ProratedAt
  <2>5. refunded[p] \in Nat /\ feeRefunded[p] \in Nat /\ refundCount[p] \in Nat
    BY <1>0
  <2>6. /\ -((refundCount[p] + 1) * AmountOf(p))
             <= 2 * AmountOf(p) * (feeRefunded[p] + f) - 2 * fee[p] * (refunded[p] + x)
        /\ 2 * AmountOf(p) * (feeRefunded[p] + f) - 2 * fee[p] * (refunded[p] + x)
             <= (refundCount[p] + 1) * AmountOf(p)
    BY <1>0, <2>1, <2>4, <2>5, DriftStep
  <2> QED BY <1>5, <2>2, <2>3, <2>6 DEF ProratedAt
<1> QED BY <1>4, <1>5

\* However a payment is refunded, in whatever parts and before or after its
\* release, the refunds stay within it and the returned fee within n/2 cents of
\* the proportional share.
THEOREM RefundsStayProrated == Spec => []RefundProration
<1>1. Init => RefundProration
  <2> SUFFICES ASSUME Init, NEW q \in Payments
               PROVE  ProratedAt(AmountOf(q), fee[q], refunded[q], feeRefunded[q],
                                 refundCount[q], payment[q])
    BY ProrationPointwise
  <2>1. AmountOf(q) \in Nat /\ AmountOf(q) > 0
    BY ConstantTypes
  <2>2. fee[q] = 0 /\ refunded[q] = 0 /\ feeRefunded[q] = 0 /\ refundCount[q] = 0
        /\ payment[q] = "NONE"
    BY DEF Init
  <2>3. 2 * AmountOf(q) * 0 - 2 * 0 * 0 = 0 /\ -(0 * AmountOf(q)) = 0
    BY <2>1
  <2> QED BY <2>1, <2>2, <2>3 DEF ProratedAt
<1>2. TypeOK /\ RefundProration /\ [Next]_vars => RefundProration'
  <2> SUFFICES ASSUME TypeOK, RefundProration, [Next]_vars, NEW q \in Payments
               PROVE  ProratedAt(AmountOf(q), fee'[q], refunded'[q], feeRefunded'[q],
                                 refundCount'[q], payment'[q])
    BY ProrationPointwise
  <2>1. CASE \E p \in Payments : \E x \in 1 .. AmountOf(p) : CreateRefund(p, x)
    BY <2>1, RefundKeepsProration
  <2>2. CASE ~ \E p \in Payments : \E x \in 1 .. AmountOf(p) : CreateRefund(p, x)
    BY <2>2, OnlyRefundsRefund, NotRefundedKeepsProration, ProrationPointwise
  <2> QED BY <2>1, <2>2
<1> QED BY <1>1, <1>2, TypeCorrect, PTL DEF Spec

-----------------------------------------------------------------------------
(* What a payment's status can still become.                               *)

\* The outcomes of one payment that a step must not take back.
KeepsOutcome(q) ==
  /\ payment[q] \in {"EXPIRED", "FAILED", "REFUNDED"} => payment'[q] = payment[q]
  /\ payment[q] = "RELEASED" => payment'[q] \in {"RELEASED", "REFUNDED"}
  /\ Paid(q) => Paid(q)'

\* A use case on a payment takes no outcome back.
LEMMA PaymentKeepsOutcomes ==
  ASSUME TypeOK, NEW p \in Payments, PaymentNext(p), NEW q \in Payments
  PROVE  KeepsOutcome(q)
<1> USE DEF Paid, KeepsOutcome
<1>0. payment \in [Payments -> PaymentStatus \cup {"NONE"}]
  BY DEF TypeOK
<1>1. CASE CreatePayment(p) \/ PayPaymentLink(p) \/ FailPaymentLink(p)
  BY <1>0, <1>1 DEF CreatePayment, PayPaymentLink, FailPaymentLink, NewAttempt
<1>2. CASE ConfirmPayment(p) \/ ReleasePayment(p)
  BY <1>0, <1>2 DEF ConfirmPayment, ReleasePayment
<1>3. CASE FailPayment(p) \/ ExpirePayment(p) \/ GetPayment(p)
  BY <1>0, <1>3 DEF FailPayment, ExpirePayment, GetPayment, EndUnpaid
<1>4. ASSUME NEW x \in 1 .. AmountOf(p), CreateRefund(p, x)
      PROVE  KeepsOutcome(q)
  BY <1>0, <1>4 DEF CreateRefund
<1> QED BY <1>1, <1>2, <1>3, <1>4 DEF PaymentNext

\* Only the use cases on payments change them.
LEMMA OthersKeepPayments ==
  ASSUME [Next]_vars, ~ \E p \in Payments : PaymentNext(p)
  PROVE  UNCHANGED paymentVars
BY DEF Next, ChargeNext, CreatePaymentLink, CancelPaymentLink, PassDeadline,
       WithdrawalNext, CreateWithdrawal, CompleteWithdrawal, FailWithdrawal, NewDay, vars

\* A payment that ended unpaid or was refunded in full never changes again, a
\* released one is only ever refunded, and one that was credited stays so.
THEOREM OutcomesAreFinal == Spec => PaymentsAreFinal
<1> DEFINE Final == \A p \in Payments :
      /\ payment[p] \in {"EXPIRED", "FAILED", "REFUNDED"} => payment'[p] = payment[p]
      /\ payment[p] = "RELEASED" => payment'[p] \in {"RELEASED", "REFUNDED"}
      /\ Paid(p) => Paid(p)'
<1>1. TypeOK /\ [Next]_vars => Final
  <2> SUFFICES ASSUME TypeOK, [Next]_vars, NEW q \in Payments PROVE KeepsOutcome(q)
    BY DEF KeepsOutcome
  <2>1. CASE UNCHANGED paymentVars
    BY <2>1 DEF paymentVars, KeepsOutcome, Paid
  <2> QED BY <2>1, PaymentKeepsOutcomes, OthersKeepPayments
<1> QED BY <1>1, TypeCorrect, PTL DEF Spec, PaymentsAreFinal

-----------------------------------------------------------------------------
(* What subscribers are told.  A payment that is PENDING is the only       *)
(* attempt of a direct charge, so no link charge ever expires; with that,  *)
(* what has been announced follows the rows step by step.                  *)

PendingIsDirect ==
  \A p \in Payments :
    payment[p] = "PENDING" => ~IsLink(p) /\ charge[ChargeOf[p]] = "OPEN"

\* OutboxTellsOutcome of one payment and of one link charge.
PaymentTold(p) ==
  /\ Announced("payment.confirmed", p) <=> Paid(p)
  /\ Announced("payment.expired", p) <=> payment[p] = "EXPIRED"
  /\ Announced("payment.failed", p) <=> payment[p] = "FAILED"
  /\ Announced("payment.refunded", p) <=> refunded[p] > 0
  /\ payment[p] = "RELEASED" => Announced("payment.released", p)

LinkTold(c) ==
  /\ charge[c] # "EXPIRED"
  /\ Announced("payment_link.paid", c) <=> charge[c] = "PAID"
  /\ Announced("payment_link.cancelled", c) <=> charge[c] = "CANCELLED"
  /\ ~Announced("payment_link.expired", c)

\* The strengthening that is inductive together with TypeOK.
OutcomeInv ==
  /\ PendingIsDirect
  /\ \A p \in Payments : PaymentTold(p)
  /\ \A c \in LinkCharges : LinkTold(c)

\* A step leaves alone what is said of payment q, or of link charge c.
SamePayment(q) ==
  /\ payment'[q] = payment[q] /\ refunded'[q] = refunded[q]
  /\ \A e \in PaymentEvent : Announced(e, q)' = Announced(e, q)

SameLink(c) ==
  charge'[c] = charge[c] /\ \A e \in LinkEvent : Announced(e, c)' = Announced(e, c)

\* What a step leaves alone was told before and still is.
LEMMA SameIsTold ==
  /\ \A q \in Payments : SamePayment(q) /\ PaymentTold(q) => PaymentTold(q)'
  /\ \A c \in LinkCharges : SameLink(c) /\ LinkTold(c) => LinkTold(c)'
BY DEF SamePayment, PaymentTold, SameLink, LinkTold, PaymentEvent, LinkEvent, Paid

\* A use case on a payment keeps pending payments payable.
LEMMA PaymentKeepsDirect ==
  ASSUME TypeOK, PendingIsDirect, NEW p \in Payments, PaymentNext(p)
  PROVE  PendingIsDirect'
<1> SUFFICES ASSUME NEW q \in Payments, payment'[q] = "PENDING"
             PROVE  ~IsLink(q) /\ charge'[ChargeOf[q]] = "OPEN"
  BY DEF PendingIsDirect, IsLink
<1>0. /\ payment \in [Payments -> PaymentStatus \cup {"NONE"}]
      /\ charge \in [Charges -> PixChargeStatus \cup {"NONE"}]
      /\ ChargeOf[p] \in Charges /\ ChargeOf[q] \in Charges
  BY ConstantTypes DEF TypeOK
<1> USE DEF PendingIsDirect
<1>1. CASE CreatePayment(p)
  BY <1>0, <1>1, DirectChargeAssumption DEF CreatePayment, NewAttempt, IsLink
<1>2. CASE ConfirmPayment(p)
  BY <1>0, <1>2, DirectChargeAssumption DEF ConfirmPayment, Settle, IsLink
<1>3. CASE PayPaymentLink(p)
  BY <1>0, <1>3 DEF PayPaymentLink, LinkPayable, NewAttempt, Settle, IsLink
<1>4. CASE FailPaymentLink(p) \/ ReleasePayment(p)
  BY <1>0, <1>4 DEF FailPaymentLink, ReleasePayment, NewAttempt, chargeVars
<1>5. CASE FailPayment(p) \/ ExpirePayment(p) \/ GetPayment(p)
  BY <1>0, <1>5, DirectChargeAssumption
  DEF FailPayment, ExpirePayment, GetPayment, EndUnpaid, IsLink
<1>6. ASSUME NEW x \in 1 .. AmountOf(p), CreateRefund(p, x)
      PROVE  ~IsLink(q) /\ charge'[ChargeOf[q]] = "OPEN"
  BY <1>0, <1>6 DEF CreateRefund, chargeVars
<1> QED BY <1>1, <1>2, <1>3, <1>4, <1>5, <1>6 DEF PaymentNext

\* A use case on a payment tells of it, and leaves the other payments alone.
LEMMA PaymentTellsPayment ==
  ASSUME TypeOK, OutcomeInv, NEW p \in Payments, PaymentNext(p)
  PROVE  \A q \in Payments : PaymentTold(q)'
<1>0. /\ payment \in [Payments -> PaymentStatus \cup {"NONE"}]
      /\ refunded \in [Payments -> Nat]
      /\ PaymentTold(p)
      /\ AmountOf(p) \in Nat
  BY ConstantTypes DEF TypeOK, OutcomeInv
<1>1. SUFFICES (\A q \in Payments \ {p} : SamePayment(q)) /\ PaymentTold(p)'
  BY SameIsTold DEF OutcomeInv
<1> USE DEF SamePayment, PaymentTold, Paid, Announced, Emit, PaymentEvent
<1>2. CASE CreatePayment(p)
  BY <1>0, <1>2 DEF CreatePayment, NewAttempt
<1>3. CASE ConfirmPayment(p)
  BY <1>0, <1>3 DEF ConfirmPayment, Settle
<1>4. CASE PayPaymentLink(p)
  BY <1>0, <1>4 DEF PayPaymentLink, NewAttempt, Settle
<1>5. CASE FailPaymentLink(p)
  BY <1>0, <1>5 DEF FailPaymentLink, NewAttempt
<1>6. CASE FailPayment(p)
  BY <1>0, <1>6 DEF FailPayment, EndUnpaid
<1>7. CASE ExpirePayment(p)
  BY <1>0, <1>7 DEF ExpirePayment, EndUnpaid
<1>8. CASE GetPayment(p)
  BY <1>0, <1>8 DEF GetPayment, EndUnpaid
<1>9. CASE ReleasePayment(p)
  BY <1>0, <1>9 DEF ReleasePayment
<1>10. ASSUME NEW x \in 1 .. AmountOf(p), CreateRefund(p, x)
       PROVE  (\A q \in Payments \ {p} : SamePayment(q)) /\ PaymentTold(p)'
  BY <1>0, <1>10 DEF CreateRefund
<1> QED
  BY <1>2, <1>3, <1>4, <1>5, <1>6, <1>7, <1>8, <1>9, <1>10 DEF PaymentNext

\* Of the links, a use case on a payment only ever announces that one is paid.
LEMMA PaymentTellsLinks ==
  ASSUME TypeOK, OutcomeInv, NEW p \in Payments, PaymentNext(p)
  PROVE  \A c \in LinkCharges : LinkTold(c)'
<1> SUFFICES ASSUME NEW c \in LinkCharges PROVE LinkTold(c)'
  OBVIOUS
<1>0. /\ charge \in [Charges -> PixChargeStatus \cup {"NONE"}]
      /\ c \in Charges /\ ChargeOf[p] \in Charges /\ LinkTold(c)
      /\ payment[p] = "PENDING" => ChargeOf[p] # c /\ ~IsLink(p)
  BY ConstantTypes, LinkChargesAssumption DEF TypeOK, OutcomeInv, PendingIsDirect, IsLink
<1> USE DEF SameLink, LinkTold, Announced, Emit, LinkEvent
<1>2. CASE CreatePayment(p)
  BY <1>0, <1>2, SameIsTold DEF CreatePayment, IsLink
<1>3. CASE ConfirmPayment(p)
  BY <1>0, <1>3, SameIsTold DEF ConfirmPayment, Settle
<1>4. CASE PayPaymentLink(p)
  BY <1>0, <1>4 DEF PayPaymentLink, LinkPayable, Settle, IsLink
<1>5. CASE FailPaymentLink(p) \/ ReleasePayment(p)
  BY <1>0, <1>5, SameIsTold DEF FailPaymentLink, ReleasePayment, chargeVars
<1>6. CASE FailPayment(p) \/ ExpirePayment(p) \/ GetPayment(p)
  BY <1>0, <1>6, SameIsTold DEF FailPayment, ExpirePayment, GetPayment, EndUnpaid
<1>7. ASSUME NEW x \in 1 .. AmountOf(p), CreateRefund(p, x)
      PROVE  LinkTold(c)'
  BY <1>0, <1>7, SameIsTold DEF CreateRefund, chargeVars
<1> QED BY <1>2, <1>3, <1>4, <1>5, <1>6, <1>7 DEF PaymentNext

\* A use case on a payment link tells of it alone.
LEMMA ChargeTells ==
  ASSUME TypeOK, OutcomeInv, NEW c \in Charges, ChargeNext(c)
  PROVE  OutcomeInv'
<1>0. /\ charge \in [Charges -> PixChargeStatus \cup {"NONE"}]
      /\ LinkCharges \subseteq Charges
      /\ payment' = payment /\ refunded' = refunded
      /\ \A p \in Payments : ChargeOf[p] \in Charges
  BY ConstantTypes, LinkChargesAssumption
  DEF TypeOK, ChargeNext, CreatePaymentLink, CancelPaymentLink, PassDeadline, paymentVars
<1>1. PendingIsDirect'
  BY <1>0 DEF OutcomeInv, PendingIsDirect, IsLink, ChargeNext, CreatePaymentLink,
              CancelPaymentLink, PassDeadline
<1>2. \A q \in Payments : PaymentTold(q)'
  <2>1. ASSUME NEW q \in Payments, NEW e \in PaymentEvent
        PROVE  Announced(e, q)' = Announced(e, q)
    BY DEF ChargeNext, CreatePaymentLink, CancelPaymentLink, PassDeadline, Emit,
           Announced, PaymentEvent
  <2> QED BY <1>0, <2>1, SameIsTold DEF OutcomeInv, SamePayment
<1>3. ASSUME NEW d \in LinkCharges
      PROVE  LinkTold(d)'
  <2>0. LinkTold(d) /\ d \in Charges
    BY <1>0 DEF OutcomeInv
  <2>1. CASE CreatePaymentLink(c)
    BY <1>0, <2>0, <2>1 DEF CreatePaymentLink, Emit, Announced, LinkTold
  <2>2. CASE CancelPaymentLink(c)
    BY <1>0, <2>0, <2>2 DEF CancelPaymentLink, Emit, Announced, LinkTold, PixChargeStatus
  <2>3. CASE PassDeadline(c)
    BY <2>0, <2>3 DEF PassDeadline, Announced, LinkTold
  <2> QED BY <2>1, <2>2, <2>3 DEF ChargeNext
<1> QED BY <1>1, <1>2, <1>3 DEF OutcomeInv

\* A use case on a withdrawal, midnight and a stutter tell nothing of either.
LEMMA OthersTellNothing ==
  ASSUME OutcomeInv,
         (\E w \in Withdrawals : WithdrawalNext(w)) \/ NewDay \/ UNCHANGED vars
  PROVE  OutcomeInv'
<1>1. UNCHANGED <<payment, refunded, charge>>
  BY DEF WithdrawalNext, CreateWithdrawal, CompleteWithdrawal, FailWithdrawal, NewDay,
         vars, chargeVars, paymentVars
<1>2. \A id : \A e \in PaymentEvent \cup LinkEvent : Announced(e, id)' = Announced(e, id)
  BY DEF WithdrawalNext, CreateWithdrawal, CompleteWithdrawal, FailWithdrawal, NewDay,
         vars, Emit, Announced, PaymentEvent, LinkEvent
<1>3. \A q \in Payments : PaymentTold(q)'
  BY <1>1, <1>2, SameIsTold DEF OutcomeInv, SamePayment
<1>4. \A c \in LinkCharges : LinkTold(c)'
  BY <1>1, <1>2, SameIsTold DEF OutcomeInv, SameLink
<1> QED BY <1>1, <1>3, <1>4 DEF OutcomeInv, PendingIsDirect, IsLink

\* Outcomes are told, once and truly, in every reachable state.
LEMMA OutcomeInvariant == Spec => []OutcomeInv
<1>1. Init => OutcomeInv
  BY ConstantTypes, LinkChargesAssumption
  DEF Init, OutcomeInv, PendingIsDirect, PaymentTold, LinkTold, Announced, Paid
<1>2. TypeOK /\ OutcomeInv /\ [Next]_vars => OutcomeInv'
  <2> SUFFICES ASSUME TypeOK, OutcomeInv, [Next]_vars PROVE OutcomeInv'
    OBVIOUS
  <2>1. ASSUME NEW p \in Payments, PaymentNext(p)
        PROVE  OutcomeInv'
    BY <2>1, PaymentKeepsDirect, PaymentTellsPayment, PaymentTellsLinks DEF OutcomeInv
  <2> QED BY <2>1, ChargeTells, OthersTellNothing DEF Next
<1> QED BY <1>1, <1>2, TypeCorrect, PTL DEF Spec

\* Whatever the payer, the merchant and the jobs do, and in whatever order,
\* the events written tell of each payment and link the one outcome its row
\* holds.
THEOREM SubscribersAreToldTheOutcome == Spec => []OutboxTellsOutcome
<1>1. OutcomeInv => OutboxTellsOutcome
  BY DEF OutcomeInv, OutboxTellsOutcome, PaymentTold, LinkTold
<1> QED BY <1>1, OutcomeInvariant, PTL

\* The expiry of a link is never announced, and no link charge ever is EXPIRED:
\* an attempt of a link is committed as CONFIRMED or FAILED, never as PENDING.
THEOREM LinkExpiryIsNeverTold ==
  Spec => [](\A c \in LinkCharges :
               charge[c] # "EXPIRED" /\ ~Announced("payment_link.expired", c))
<1>1. OutcomeInv => \A c \in LinkCharges :
        charge[c] # "EXPIRED" /\ ~Announced("payment_link.expired", c)
  BY DEF OutcomeInv, LinkTold
<1> QED BY <1>1, OutcomeInvariant, PTL

\* A pending payment's charge is open, so its payer or the expiration job can
\* always close it.
THEOREM PendingPaymentsArePayable == Spec => []PendingIsPayable
<1>1. OutcomeInv => PendingIsPayable
  BY DEF OutcomeInv, PendingIsDirect, PendingIsPayable
<1> QED BY <1>1, OutcomeInvariant, PTL

-----------------------------------------------------------------------------
(* The pending balance, payment by payment.                                *)

Started == {p \in Payments : payment[p] # "NONE"}

\* A payment is announced released only once it is, so one that is confirmed
\* has not been.
ReleaseTold ==
  \A p \in Payments :
    Announced("payment.released", p) => payment[p] \in {"RELEASED", "REFUNDED"}

PendingSums == \A a \in Accounts : pending[a] = SumOver(Remaining, Unreleased(a))

\* The strengthening that is inductive together with the invariants above.
UnreleasedInv == IsFiniteSet(Started) /\ ReleaseTold /\ PendingSums

\* The sums of the property are SumOver's.
LEMMA SumsOfPayments == PendingSums => PendingIsUnreleased
<1> SUFFICES ASSUME PendingSums, NEW a \in Accounts
             PROVE  pending[a] = MapThenSumSet(LAMBDA p : Remaining[p], Unreleased(a))
  BY DEF PendingIsUnreleased
<1>1. SumOver(Remaining, Unreleased(a)) = MapThenSumSet(LAMBDA p : Remaining[p], Unreleased(a))
  BY DEF SumOver, MapThenSumSet, MapThenFoldSet
<1> QED BY <1>1 DEF PendingSums

\* What is left to release of a payment is its rest less the rest of its fee.
LEMMA RemainingValues ==
  ASSUME TypeOK, TypeOK', NEW p \in Payments
  PROVE  /\ Remaining[p] = (AmountOf(p) - refunded[p]) - (fee[p] - feeRefunded[p])
         /\ Remaining'[p] = (AmountOf(p) - refunded'[p]) - (fee'[p] - feeRefunded'[p])
         /\ Remaining[p] \in Int /\ Remaining'[p] \in Int
BY ConstantTypes DEF Remaining, RemainingNet, AmountOf, TypeOK

\* Only attempts that were started can be unreleased, and those are finitely many.
LEMMA UnreleasedIsFinite ==
  ASSUME UnreleasedInv, NEW a \in Accounts
  PROVE  IsFiniteSet(Unreleased(a)) /\ Unreleased(a) \subseteq Payments
<1>1. Unreleased(a) \subseteq Started
  BY DEF Unreleased, Started, Paid
<1> QED BY <1>1, FS_Subset DEF UnreleasedInv, Unreleased

\* A step that touches no unreleased payment and no pending balance.
SamePending ==
  /\ pending' = pending
  /\ \A a \in Accounts : Unreleased(a)' = Unreleased(a)
  /\ \A a \in Accounts : \A q \in Unreleased(a) : Remaining'[q] = Remaining[q]

\* Such a step keeps the sums.
LEMMA SamePendingSums ==
  ASSUME UnreleasedInv, SamePending
  PROVE  PendingSums'
<1> SUFFICES ASSUME NEW a \in Accounts
             PROVE  pending'[a] = SumOver(Remaining', Unreleased(a)')
  BY DEF PendingSums
<1>1. SumOver(Remaining', Unreleased(a)) = SumOver(Remaining, Unreleased(a))
  BY UnreleasedIsFinite, SumCongruent DEF SamePending
<1>2. Unreleased(a)' = Unreleased(a) /\ pending'[a] = pending[a]
  BY DEF SamePending
<1> QED BY <1>1, <1>2 DEF UnreleasedInv, PendingSums

\* Payment p is credited with its net amount n.
LEMMA CreditSums ==
  ASSUME TypeOK, TypeOK', UnreleasedInv, NEW p \in Payments, NEW n \in Nat,
         ~Paid(p), Remaining'[p] = n,
         pending' = [pending EXCEPT ![AccountOf(p)] = @ + n],
         \A a \in Accounts : Unreleased(a)' =
           IF a = AccountOf(p) THEN Unreleased(a) \cup {p} ELSE Unreleased(a),
         \A q \in Payments \ {p} : Remaining'[q] = Remaining[q]
  PROVE  PendingSums'
<1> SUFFICES ASSUME NEW a \in Accounts
             PROVE  pending'[a] = SumOver(Remaining', Unreleased(a)')
  BY DEF PendingSums
<1>0. /\ p \notin Unreleased(a) /\ IsFiniteSet(Unreleased(a))
      /\ Unreleased(a) \subseteq Payments
      /\ \A q \in Payments : Remaining[q] \in Int /\ Remaining'[q] \in Int
  BY UnreleasedIsFinite, RemainingValues DEF Unreleased
<1>1. SumOver(Remaining', Unreleased(a)) = SumOver(Remaining, Unreleased(a))
  BY <1>0, SumCongruent
<1>2. SumOver(Remaining', Unreleased(a) \cup {p}) = n + SumOver(Remaining', Unreleased(a))
  BY <1>0, SumAdd
<1>3. pending[a] = SumOver(Remaining, Unreleased(a)) /\ pending \in [Accounts -> Nat]
  BY DEF UnreleasedInv, PendingSums, TypeOK
<1>4. CASE a = AccountOf(p)
  <2>1. pending'[a] = pending[a] + n
    BY <1>3, <1>4
  <2>2. Unreleased(a)' = Unreleased(a) \cup {p}
    BY <1>4
  <2>3. pending[a] \in Nat
    BY <1>3
  <2> QED BY <1>1, <1>2, <1>3, <2>1, <2>2, <2>3
<1>5. CASE a # AccountOf(p)
  <2>1. pending'[a] = pending[a] /\ Unreleased(a)' = Unreleased(a)
    BY <1>3, <1>5
  <2> QED BY <1>1, <1>3, <2>1
<1> QED BY <1>4, <1>5

\* Payment p leaves the pending balance with all that is left of it.
LEMMA ReleaseSums ==
  ASSUME TypeOK, TypeOK', UnreleasedInv, NEW p \in Payments, p \in Unreleased(AccountOf(p)),
         pending' = [pending EXCEPT ![AccountOf(p)] = @ - Remaining[p]],
         \A a \in Accounts : Unreleased(a)' =
           IF a = AccountOf(p) THEN Unreleased(a) \ {p} ELSE Unreleased(a),
         \A q \in Payments : Remaining'[q] = Remaining[q]
  PROVE  PendingSums'
<1> SUFFICES ASSUME NEW a \in Accounts
             PROVE  pending'[a] = SumOver(Remaining', Unreleased(a)')
  BY DEF PendingSums
<1>0. /\ IsFiniteSet(Unreleased(a)) /\ Unreleased(a) \subseteq Payments
      /\ \A q \in Payments : Remaining[q] \in Int
      /\ AccountOf(p) \in Accounts
  BY UnreleasedIsFinite, RemainingValues, ConstantTypes
<1>1. pending[a] = SumOver(Remaining, Unreleased(a)) /\ pending \in [Accounts -> Nat]
  BY DEF UnreleasedInv, PendingSums, TypeOK
<1>2. CASE a = AccountOf(p)
  <2>1. SumOver(Remaining, Unreleased(a)) = Remaining[p] + SumOver(Remaining, Unreleased(a) \ {p})
    BY <1>0, <1>2, SumRemove
  <2>2. /\ IsFiniteSet(Unreleased(a) \ {p})
        /\ SumOver(Remaining, Unreleased(a) \ {p}) \in Int
    <3>1. IsFiniteSet(Unreleased(a) \ {p}) /\ Unreleased(a) \ {p} \subseteq Payments
      BY <1>0, FS_RemoveElement
    <3> QED BY <1>0, <3>1, SumType
  <2>3. SumOver(Remaining', Unreleased(a) \ {p}) = SumOver(Remaining, Unreleased(a) \ {p})
    BY <1>0, <2>2, SumCongruent
  <2>4. pending'[a] = pending[a] - Remaining[p] /\ Unreleased(a)' = Unreleased(a) \ {p}
    BY <1>1, <1>2
  <2> QED BY <1>0, <1>1, <2>1, <2>2, <2>3, <2>4
<1>3. CASE a # AccountOf(p)
  <2>1. pending'[a] = pending[a] /\ Unreleased(a)' = Unreleased(a)
    BY <1>1, <1>3
  <2>2. SumOver(Remaining', Unreleased(a)) = SumOver(Remaining, Unreleased(a))
    BY <1>0, SumCongruent
  <2> QED BY <1>1, <2>1, <2>2
<1> QED BY <1>2, <1>3

\* A refund before settlement takes d from its payment and from the balance.
LEMMA RefundSums ==
  ASSUME TypeOK, TypeOK', UnreleasedInv, NEW p \in Payments, p \in Unreleased(AccountOf(p)),
         NEW d \in Nat, Remaining'[p] = Remaining[p] - d,
         pending' = [pending EXCEPT ![AccountOf(p)] = @ - d],
         \A a \in Accounts : Unreleased(a)' = Unreleased(a),
         \A q \in Payments \ {p} : Remaining'[q] = Remaining[q]
  PROVE  PendingSums'
<1> SUFFICES ASSUME NEW a \in Accounts
             PROVE  pending'[a] = SumOver(Remaining', Unreleased(a))
  BY DEF PendingSums
<1>0. /\ IsFiniteSet(Unreleased(a)) /\ Unreleased(a) \subseteq Payments
      /\ \A q \in Payments : Remaining[q] \in Int /\ Remaining'[q] \in Int
  BY UnreleasedIsFinite, RemainingValues
<1>1. /\ pending[a] = SumOver(Remaining, Unreleased(a)) /\ pending \in [Accounts -> Nat]
      /\ pending[a] \in Nat
  BY DEF UnreleasedInv, PendingSums, TypeOK
<1>2. CASE a = AccountOf(p)
  <2>1. SumOver(Remaining', Unreleased(a)) =
          SumOver(Remaining, Unreleased(a)) + (Remaining'[p] - Remaining[p])
    BY <1>0, <1>2, SumUpdate
  <2>2. pending'[a] = pending[a] - d
    BY <1>1, <1>2
  <2> QED BY <1>0, <1>1, <2>1, <2>2
<1>3. CASE a # AccountOf(p)
  <2>1. pending'[a] = pending[a] /\ p \notin Unreleased(a)
    BY <1>1, <1>3 DEF Unreleased
  <2>2. SumOver(Remaining', Unreleased(a)) = SumOver(Remaining, Unreleased(a))
    BY <1>0, <2>1, SumCongruent
  <2> QED BY <1>1, <2>1, <2>2
<1> QED BY <1>2, <1>3

\* Each use case on a payment is one of the four, and keeps the other parts.
LEMMA PaymentKeepsUnreleased ==
  ASSUME TypeOK, TypeOK', OutcomeInv, RefundProration, UnreleasedInv,
         NEW p \in Payments, PaymentNext(p)
  PROVE  UnreleasedInv'
<1> USE DEF Paid, Announced
<1>0. /\ payment \in [Payments -> PaymentStatus \cup {"NONE"}]
      /\ fee \in [Payments -> Nat] /\ refunded \in [Payments -> Nat]
      /\ feeRefunded \in [Payments -> Nat]
      /\ pending \in [Accounts -> Nat] /\ AccountOf(p) \in Accounts
      /\ AmountOf(p) \in Nat
  BY ConstantTypes DEF TypeOK
<1>a. /\ payment[p] = "RELEASED" => Announced("payment.released", p)
      /\ ~Paid(p) => refunded[p] = 0 /\ feeRefunded[p] = 0
      /\ payment[p] \in {"NONE", "PENDING", "CONFIRMED"} => ~Announced("payment.released", p)
  BY DEF OutcomeInv, PaymentTold, RefundProration, UnreleasedInv, ReleaseTold
<1>b. /\ \A q \in Payments \ {p} : payment'[q] = payment[q]
      /\ \A q \in Payments \ {p} : /\ refunded'[q] = refunded[q] /\ fee'[q] = fee[q]
                                   /\ feeRefunded'[q] = feeRefunded[q]
      /\ \A q \in Payments \ {p} :
           Announced("payment.released", q)' = Announced("payment.released", q)
  BY <1>0 DEF PaymentNext, CreatePayment, FailPaymentLink, ConfirmPayment, PayPaymentLink,
              Settle, FailPayment, ExpirePayment, GetPayment, EndUnpaid, ReleasePayment,
              CreateRefund, NewAttempt, Emit
<1>c. \A q \in Payments \ {p} : Remaining'[q] = Remaining[q]
  BY <1>b, RemainingValues
<1>d. IsFiniteSet(Started')
  <2>1. Started' \subseteq Started \cup {p}
    BY <1>b DEF Started
  <2>2. IsFiniteSet(Started \cup {p})
    BY FS_AddElement DEF UnreleasedInv
  <2> QED BY <2>1, <2>2, FS_Subset
<1>e. ASSUME NEW a \in Accounts
      PROVE  /\ p \notin Unreleased(a) /\ p \notin Unreleased(a)' => Unreleased(a)' = Unreleased(a)
             /\ p \in Unreleased(a) /\ p \in Unreleased(a)' => Unreleased(a)' = Unreleased(a)
             /\ p \notin Unreleased(a) /\ p \in Unreleased(a)' =>
                  Unreleased(a)' = Unreleased(a) \cup {p}
             /\ p \in Unreleased(a) /\ p \notin Unreleased(a)' =>
                  Unreleased(a)' = Unreleased(a) \ {p}
             /\ p \in Unreleased(a) <=>
                  a = AccountOf(p) /\ Paid(p) /\ ~Announced("payment.released", p)
             /\ p \in Unreleased(a)' <=>
                  a = AccountOf(p) /\ Paid(p)' /\ ~Announced("payment.released", p)'
  <2>1. \A q \in Payments \ {p} : q \in Unreleased(a) <=> q \in Unreleased(a)'
    BY <1>b DEF Unreleased, AccountOf
  <2>2. Unreleased(a) \subseteq Payments /\ Unreleased(a)' \subseteq Payments
    BY DEF Unreleased
  <2>3. /\ p \in Unreleased(a) <=>
             a = AccountOf(p) /\ Paid(p) /\ ~Announced("payment.released", p)
        /\ p \in Unreleased(a)' <=>
             a = AccountOf(p) /\ Paid(p)' /\ ~Announced("payment.released", p)'
    BY DEF Unreleased, AccountOf
  <2> QED BY <2>1, <2>2, <2>3
<1>f. SUFFICES PendingSums' /\ (Announced("payment.released", p)' =>
                                  payment'[p] \in {"RELEASED", "REFUNDED"})
  BY <1>b, <1>d DEF UnreleasedInv, ReleaseTold
<1>1. CASE CreatePayment(p) \/ FailPaymentLink(p)
  <2>1. /\ pending' = pending /\ ~Paid(p) /\ ~Paid(p)'
        /\ Announced("payment.released", p)' = Announced("payment.released", p)
        /\ payment[p] = "NONE"
    BY <1>0, <1>1 DEF CreatePayment, FailPaymentLink, NewAttempt, Emit, balances
  <2>2. SamePending
    BY <1>c, <1>e, <2>1 DEF SamePending, Unreleased
  <2> QED BY <1>a, <2>1, <2>2, SamePendingSums
<1>2. CASE FailPayment(p) \/ ExpirePayment(p) \/ GetPayment(p)
  <2>1. /\ pending' = pending /\ ~Paid(p) /\ ~Paid(p)'
        /\ Announced("payment.released", p)' = Announced("payment.released", p)
        /\ payment[p] = "PENDING"
    BY <1>0, <1>2 DEF FailPayment, ExpirePayment, GetPayment, EndUnpaid, Emit, balances
  <2>2. SamePending
    BY <1>c, <1>e, <2>1 DEF SamePending, Unreleased
  <2> QED BY <1>a, <2>1, <2>2, SamePendingSums
<1>3. CASE ConfirmPayment(p) \/ PayPaymentLink(p)
  <2> DEFINE n == AmountOf(p) - fee'[p]
  <2>1. /\ pending' = [pending EXCEPT ![AccountOf(p)] = @ + n]
        /\ payment[p] \in {"NONE", "PENDING"} /\ payment'[p] = "CONFIRMED"
        /\ refunded'[p] = refunded[p] /\ feeRefunded'[p] = feeRefunded[p]
        /\ Announced("payment.released", p)' = Announced("payment.released", p)
    BY <1>0, <1>3
    DEF ConfirmPayment, PayPaymentLink, Settle, AddToPending, NewAttempt, NetOf, Emit
  <2>2. n \in Nat /\ Remaining'[p] = n /\ ~Paid(p)
    BY <1>0, <1>a, <2>1, RemainingValues DEF TypeOK, AmountOf
  <2>3. \A a \in Accounts : Unreleased(a)' =
          IF a = AccountOf(p) THEN Unreleased(a) \cup {p} ELSE Unreleased(a)
    BY <1>a, <1>e, <2>1
  <2> HIDE DEF n
  <2> QED BY <1>a, <1>c, <2>1, <2>2, <2>3, CreditSums
<1>4. CASE ReleasePayment(p)
  <2>1. /\ pending' = [pending EXCEPT ![AccountOf(p)] = @ - RemainingNet(p)]
        /\ payment[p] = "CONFIRMED" /\ payment'[p] = "RELEASED"
        /\ refunded' = refunded /\ feeRefunded' = feeRefunded /\ fee' = fee
        /\ Announced("payment.released", p)'
    BY <1>0, <1>4 DEF ReleasePayment, ReleaseFromPending, Emit
  <2>2. Remaining[p] = RemainingNet(p) /\ \A q \in Payments : Remaining'[q] = Remaining[q]
    BY <2>1, RemainingValues DEF Remaining
  <2>3. \A a \in Accounts : Unreleased(a)' =
          IF a = AccountOf(p) THEN Unreleased(a) \ {p} ELSE Unreleased(a)
    BY <1>e, <2>1
  <2>4. p \in Unreleased(AccountOf(p))
    BY <1>0, <1>a, <1>e, <2>1
  <2> QED BY <2>1, <2>2, <2>3, <2>4, ReleaseSums
<1>5. ASSUME NEW x \in 1 .. AmountOf(p), CreateRefund(p, x)
      PROVE  PendingSums' /\ (Announced("payment.released", p)' =>
                                payment'[p] \in {"RELEASED", "REFUNDED"})
  <2>1. PICK f \in FeeShares(p, x) :
          /\ \/ payment[p] = "CONFIRMED" /\ DeductFromPending(AccountOf(p), x - f)
             \/ payment[p] = "RELEASED" /\ DeductFromAvailable(AccountOf(p), x - f)
          /\ feeRefunded' = [feeRefunded EXCEPT ![p] = @ + f]
    BY <1>5 DEF CreateRefund
  <2>2. f \in Nat /\ x \in Nat /\ x - f \in Nat
    BY <1>0 DEF FeeShares
  <2>3. /\ refunded' = [refunded EXCEPT ![p] = @ + x] /\ fee' = fee
        /\ payment[p] \in {"CONFIRMED", "RELEASED"}
        /\ payment'[p] \in {payment[p], "REFUNDED"}
        /\ Announced("payment.released", p)' = Announced("payment.released", p)
    BY <1>0, <1>5 DEF CreateRefund, Emit
  <2>4. \A a \in Accounts : Unreleased(a)' = Unreleased(a)
    BY <1>e, <2>3
  <2>5. Announced("payment.released", p)' => payment'[p] \in {"RELEASED", "REFUNDED"}
    BY <1>a, <2>3
  <2>6. CASE payment[p] = "CONFIRMED" /\ DeductFromPending(AccountOf(p), x - f)
    <3>1. Remaining'[p] = Remaining[p] - (x - f)
      BY <1>0, <2>1, <2>2, <2>3, RemainingValues
    <3>2. p \in Unreleased(AccountOf(p))
      BY <1>0, <1>a, <1>e, <2>6
    <3>3. pending' = [pending EXCEPT ![AccountOf(p)] = @ - (x - f)]
      BY <2>6 DEF DeductFromPending
    <3> QED BY <1>c, <2>2, <2>4, <2>5, <3>1, <3>2, <3>3, RefundSums
  <2>7. CASE payment[p] = "RELEASED" /\ DeductFromAvailable(AccountOf(p), x - f)
    <3>1. pending' = pending /\ \A a \in Accounts : p \notin Unreleased(a)
      BY <1>a, <2>7 DEF DeductFromAvailable, Unreleased
    <3>2. SamePending
      BY <1>c, <2>4, <3>1, UnreleasedIsFinite DEF SamePending
    <3> QED BY <2>5, <3>2, SamePendingSums
  <2> QED BY <2>1, <2>6, <2>7
<1> QED BY <1>1, <1>2, <1>3, <1>4, <1>5 DEF PaymentNext

\* Links, withdrawals and the clock touch neither payments nor what is pending.
LEMMA OthersKeepUnreleased ==
  ASSUME UnreleasedInv, [Next]_vars, ~ \E p \in Payments : PaymentNext(p)
  PROVE  UnreleasedInv'
<1>1. UNCHANGED <<paymentVars, pending>>
  <2>1. UNCHANGED paymentVars
    BY OthersKeepPayments
  <2> QED
    BY <2>1 DEF Next, ChargeNext, CreatePaymentLink, CancelPaymentLink, PassDeadline,
                WithdrawalNext, CreateWithdrawal, CompleteWithdrawal, FailWithdrawal,
                NewDay, Block, DeductFromBlocked, Unblock, balances, vars
<1>2. \A p \in Payments :
        Announced("payment.released", p)' = Announced("payment.released", p)
  BY DEF Next, ChargeNext, CreatePaymentLink, CancelPaymentLink, PassDeadline,
         WithdrawalNext, CreateWithdrawal, CompleteWithdrawal, FailWithdrawal,
         NewDay, vars, Emit, Announced
<1>3. SamePending
  BY <1>1, <1>2 DEF SamePending, Unreleased, Paid, Remaining, RemainingNet, AccountOf,
                    AmountOf, paymentVars
<1>4. PendingSums'
  BY <1>3, SamePendingSums
<1>5. IsFiniteSet(Started') /\ ReleaseTold'
  BY <1>1, <1>2 DEF UnreleasedInv, Started, ReleaseTold, paymentVars
<1> QED BY <1>4, <1>5 DEF UnreleasedInv

\* The strengthening holds in every state.
LEMMA UnreleasedInvariant == Spec => []UnreleasedInv
<1>1. Init => UnreleasedInv
  <2> SUFFICES ASSUME Init PROVE UnreleasedInv
    OBVIOUS
  <2>1. Started = {} /\ \A a \in Accounts : Unreleased(a) = {} /\ pending[a] = 0
    BY DEF Init, Started, Unreleased, Paid
  <2>2. PendingSums
    BY <2>1, SumEmpty DEF PendingSums
  <2>3. IsFiniteSet(Started)
    BY <2>1, FS_EmptySet
  <2>4. ReleaseTold
    BY DEF Init, ReleaseTold, Announced
  <2> QED BY <2>2, <2>3, <2>4 DEF UnreleasedInv
<1>2. TypeOK /\ TypeOK' /\ OutcomeInv /\ RefundProration /\ UnreleasedInv /\ [Next]_vars
        => UnreleasedInv'
  BY PaymentKeepsUnreleased, OthersKeepUnreleased
<1> QED
  BY <1>1, <1>2, TypeCorrect, OutcomeInvariant, RefundsStayProrated, PTL DEF Spec

\* On every account the pending balance is what its confirmed payments still
\* have to release, refund by refund.
THEOREM PendingIsWhatIsUnreleased == Spec => []PendingIsUnreleased
<1>1. UnreleasedInv => PendingIsUnreleased
  BY SumsOfPayments DEF UnreleasedInv
<1> QED BY <1>1, UnreleasedInvariant, PTL

-----------------------------------------------------------------------------
(* How far the pending balance can fall short of a release.  The share of  *)
(* the fee that a refund gives back is rounded, so after several refunds a *)
(* payment can have less than nothing left to release, and takes from what *)
(* the account's other payments put into the pending balance.              *)

\* At least minus half a cent per refund is left to release of a payment, and
\* more than that while it is not refunded in full.
RestsAreBounded ==
  \A p \in Payments :
    /\ 2 * RemainingNet(p) >= -refundCount[p]
    /\ payment[p] # "REFUNDED" => 2 * RemainingNet(p) > -refundCount[p]

\* The pending balance falls short of what a confirmed payment has to release
\* by at most half a cent per refund of the account's other unreleased payments.
PendingNearlyCovers ==
  \A p \in Payments :
    payment[p] = "CONFIRMED" =>
      2 * (RemainingNet(p) - pending[AccountOf(p)]) <=
        SumOver(refundCount, Unreleased(AccountOf(p)) \ {p})

\* Too few refunds for their roundings to add up to a cent.
FewRefunds(q) == refundCount[q] <= IF payment[q] = "REFUNDED" THEN 1 ELSE 2

\* ConfirmedIsReleasable of an account with few refunds of each payment.
ReleasableAfterFewRefunds ==
  \A p \in Payments :
    payment[p] = "CONFIRMED" /\ (\A q \in Unreleased(AccountOf(p)) : FewRefunds(q)) =>
      RemainingNet(p) \in 0 .. pending[AccountOf(p)]

\* A product with a positive factor has the sign of the other one.
LEMMA SignOfFactor ==
  ASSUME NEW A \in Nat, A > 0, NEW m \in Int
  PROVE  /\ A * m >= 0 => m >= 0
         /\ A * m > 0 => m > 0
<1>1. ASSUME m <= -1 PROVE A * m < 0
  <2>1. PICK k \in Nat : m = -1 - k
    BY <1>1
  <2>2. A * m = -A - A * k
    BY <2>1
  <2>3. A * k \in Nat
    OBVIOUS
  <2> QED BY <2>2, <2>3
<1>2. ASSUME m = 0 PROVE A * m = 0
  BY <1>2
<1> QED BY <1>1, <1>2

\* RefundProration bounds what is left of a payment of amount A and fee K after
\* n refunds of X together, with a share F of the fee.
LEMMA RestOfProrated ==
  ASSUME NEW A \in Nat, A > 0, NEW K \in Nat, K < A, NEW X \in Nat, X <= A,
         NEW F \in Nat, NEW n \in Nat, -(n * A) <= 2 * A * F - 2 * K * X
  PROVE  LET R == (A - X) - (K - F)
         IN  2 * R >= -n /\ (X # A => 2 * R > -n)
<1> DEFINE R == (A - X) - (K - F)
           u == A - X
           v == A - K
<1>1. u \in Nat /\ v \in Nat /\ v > 0 /\ (X # A => u > 0)
  OBVIOUS
<1>2. A * (2 * R + n) = 2 * (u * v) + (2 * A * F - 2 * K * X) + n * A
  OBVIOUS
<1>3. u * v \in Nat /\ (X # A => u * v > 0)
  <2>1. u * v \in Nat
    BY <1>1
  <2>2. v * u = u * v
    BY <1>1
  <2>3. ASSUME X # A PROVE u * v # 0
    <3>1. u - 1 \in Nat /\ v - 1 \in Nat
      BY <1>1, <2>3
    <3>2. u * v = (u - 1) * (v - 1) + (u - 1) + (v - 1) + 1 /\ (u - 1) * (v - 1) \in Nat
      BY <3>1
    <3> QED BY <3>1, <3>2
  <2> QED BY <2>1, <2>3
<1>4. (2 * A * F - 2 * K * X) + n * A >= 0 /\ (2 * A * F - 2 * K * X) + n * A \in Int
  OBVIOUS
<1>5. 2 * R + n \in Int
  OBVIOUS
<1> DEFINE d == (2 * A * F - 2 * K * X) + n * A
           m == 2 * R + n
           w == u * v
<1>6. A * m = 2 * w + d /\ w \in Nat /\ (X # A => w > 0) /\ d >= 0 /\ d \in Int /\ m \in Int
  BY <1>2, <1>3, <1>4, <1>5
<1>7. A * m >= 0 /\ (X # A => A * m > 0)
  <2> HIDE DEF d, m, w
  <2> QED BY <1>6
<1>8. m >= 0 /\ (X # A => m > 0)
  <2> HIDE DEF m
  <2> QED BY <1>6, <1>7, SignOfFactor
<1> QED BY <1>8

\* So it does of the payments.
LEMMA RestsOfPayments == TypeOK /\ RefundProration => RestsAreBounded
<1> SUFFICES ASSUME TypeOK, RefundProration, NEW p \in Payments
             PROVE  /\ 2 * RemainingNet(p) >= -refundCount[p]
                    /\ payment[p] # "REFUNDED" => 2 * RemainingNet(p) > -refundCount[p]
  BY DEF RestsAreBounded
<1>1. /\ AmountOf(p) \in Nat /\ AmountOf(p) > 0 /\ fee[p] \in Nat /\ fee[p] < AmountOf(p)
      /\ refunded[p] \in Nat /\ feeRefunded[p] \in Nat /\ refundCount[p] \in Nat
  BY ConstantTypes DEF TypeOK
<1>2. ProratedAt(AmountOf(p), fee[p], refunded[p], feeRefunded[p], refundCount[p], payment[p])
  BY ProrationPointwise
<1>3. /\ refunded[p] <= AmountOf(p) /\ (payment[p] # "REFUNDED" => refunded[p] # AmountOf(p))
      /\ -(refundCount[p] * AmountOf(p))
           <= 2 * AmountOf(p) * feeRefunded[p] - 2 * fee[p] * refunded[p]
  BY <1>2 DEF ProratedAt
<1> QED BY <1>1, <1>3, RestOfProrated DEF RemainingNet

\* The pending balance is the rest of a confirmed payment and the rests of the
\* account's other unreleased payments.
LEMMA PendingOfConfirmed ==
  ASSUME TypeOK, OutcomeInv, UnreleasedInv, NEW p \in Payments, payment[p] = "CONFIRMED"
  PROVE  LET others == Unreleased(AccountOf(p)) \ {p}
         IN  /\ IsFiniteSet(others) /\ others \subseteq Payments
             /\ p \in Unreleased(AccountOf(p))
             /\ SumOver(Remaining, others) \in Int
             /\ pending[AccountOf(p)] = RemainingNet(p) + SumOver(Remaining, others)
<1> DEFINE a == AccountOf(p)
           U == Unreleased(a)
<1>1. a \in Accounts /\ IsFiniteSet(U) /\ U \subseteq Payments
  BY ConstantTypes, UnreleasedIsFinite
<1>2. p \in U
  BY DEF UnreleasedInv, ReleaseTold, Unreleased, Paid
<1>3. \A q \in Payments : Remaining[q] = RemainingNet(q) /\ Remaining[q] \in Int
  BY NetType DEF Remaining
<1>4. IsFiniteSet(U \ {p}) /\ U \ {p} \subseteq Payments
  BY <1>1, FS_RemoveElement
<1>5. pending[a] = SumOver(Remaining, U)
  BY <1>1 DEF UnreleasedInv, PendingSums
<1> HIDE DEF U, a
<1>6. SumOver(Remaining, U) = Remaining[p] + SumOver(Remaining, U \ {p})
  BY <1>1, <1>2, <1>3, SumRemove
<1>7. SumOver(Remaining, U \ {p}) \in Int
  BY <1>3, <1>4, SumType
<1>8. pending[a] = RemainingNet(p) + SumOver(Remaining, U \ {p})
  BY <1>3, <1>5, <1>6
<1> QED BY <1>2, <1>4, <1>7, <1>8 DEF U, a

\* What was credited and not released cannot fall short by more than rounding.
THEOREM ShortfallIsRounding == Spec => [](RestsAreBounded /\ PendingNearlyCovers)
<1>1. TypeOK /\ RefundProration /\ OutcomeInv /\ UnreleasedInv => PendingNearlyCovers
  <2> SUFFICES ASSUME TypeOK, RefundProration, OutcomeInv, UnreleasedInv,
                      NEW p \in Payments, payment[p] = "CONFIRMED"
               PROVE  2 * (RemainingNet(p) - pending[AccountOf(p)]) <=
                        SumOver(refundCount, Unreleased(AccountOf(p)) \ {p})
    BY DEF PendingNearlyCovers
  <2> DEFINE O == Unreleased(AccountOf(p)) \ {p}
  <2>1. /\ IsFiniteSet(O) /\ O \subseteq Payments /\ SumOver(Remaining, O) \in Int
        /\ pending[AccountOf(p)] = RemainingNet(p) + SumOver(Remaining, O)
    BY PendingOfConfirmed
  <2>2. \A q \in Payments : Remaining[q] = RemainingNet(q) /\ Remaining[q] \in Int
                            /\ refundCount[q] \in Nat /\ RemainingNet(q) \in Int
    BY NetType DEF Remaining, TypeOK
  <2>3. \A q \in Payments : 2 * Remaining[q] + refundCount[q] >= 0
    <3>1. \A q \in Payments : 2 * RemainingNet(q) >= -refundCount[q]
      BY RestsOfPayments DEF RestsAreBounded
    <3> QED BY <2>2, <3>1
  <2>4. 2 * SumOver(Remaining, O) + SumOver(refundCount, O) >= 0
    <3> HIDE DEF O
    <3> QED BY <2>1, <2>2, <2>3, SumsOfHalves
  <2>5. SumOver(refundCount, O) \in Int
    <3> HIDE DEF O
    <3>1. \A q \in O : refundCount[q] \in Int
      BY <2>1, <2>2
    <3> QED BY <2>1, <3>1, SumType
  <2>6. RemainingNet(p) \in Int
    BY <2>2
  <2> HIDE DEF O
  <2>7. 2 * (RemainingNet(p) - pending[AccountOf(p)]) <= SumOver(refundCount, O)
    BY <2>1, <2>4, <2>5, <2>6
  <2> QED BY <2>7 DEF O
<1> QED
  BY <1>1, RestsOfPayments, TypeCorrect, RefundsStayProrated, OutcomeInvariant,
     UnreleasedInvariant, PTL

\* ConfirmedIsReleasable, which can fail, holds of every account none of whose
\* unreleased payments was refunded three times, or in full by two refunds.
THEOREM FewRefundsAreCovered == Spec => []ReleasableAfterFewRefunds
<1>1. TypeOK /\ RefundProration /\ OutcomeInv /\ UnreleasedInv => ReleasableAfterFewRefunds
  <2> SUFFICES ASSUME TypeOK, RefundProration, OutcomeInv, UnreleasedInv,
                      NEW p \in Payments, payment[p] = "CONFIRMED",
                      \A q \in Unreleased(AccountOf(p)) : FewRefunds(q)
               PROVE  RemainingNet(p) \in 0 .. pending[AccountOf(p)]
    BY DEF ReleasableAfterFewRefunds
  <2> DEFINE O == Unreleased(AccountOf(p)) \ {p}
  <2>1. /\ IsFiniteSet(O) /\ O \subseteq Payments /\ SumOver(Remaining, O) \in Int
        /\ p \in Unreleased(AccountOf(p))
        /\ pending[AccountOf(p)] = RemainingNet(p) + SumOver(Remaining, O)
    BY PendingOfConfirmed
  <2>2. \A q \in Payments : Remaining[q] = RemainingNet(q) /\ RemainingNet(q) \in Int
                            /\ refundCount[q] \in Nat
    BY NetType DEF Remaining, TypeOK
  <2>3. ASSUME NEW q \in Unreleased(AccountOf(p)) PROVE RemainingNet(q) \in Nat
    <3>1. q \in Payments /\ FewRefunds(q)
      BY <2>3 DEF Unreleased
    <3>2. 2 * RemainingNet(q) >= -refundCount[q]
          /\ (payment[q] # "REFUNDED" => 2 * RemainingNet(q) > -refundCount[q])
      BY <3>1, RestsOfPayments DEF RestsAreBounded
    <3> QED BY <2>2, <3>1, <3>2 DEF FewRefunds
  <2>4. \A q \in O : Remaining[q] \in Nat
    BY <2>1, <2>2, <2>3
  <2>5. SumOver(Remaining, O) \in Nat
    <3> HIDE DEF O
    <3> QED BY <2>1, <2>4, SumType
  <2>6. RemainingNet(p) \in Nat
    BY <2>1, <2>3
  <2> HIDE DEF O
  <2> QED BY <2>1, <2>5, <2>6
<1> QED
  BY <1>1, TypeCorrect, RefundsStayProrated, OutcomeInvariant, UnreleasedInvariant, PTL
=============================================================================
