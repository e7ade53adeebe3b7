---------------------------- MODULE LedgerProofs ----------------------------
(***************************************************************************)
(* Proofs about Ledger, for any set of accounts, charges, payments and     *)
(* withdrawals, any amounts and any fees.                                  *)
(***************************************************************************)
EXTENDS LedgerAudit, SumTheorems

-----------------------------------------------------------------------------
(* What the methods of the Account entity and the helpers preserve.        *)

Balances == available \in [Accounts -> Nat] /\ pending \in [Accounts -> Nat]
              /\ blocked \in [Accounts -> Nat]

\* One of the methods of Account moves n on account a.
Method(a, n) ==
  \/ AddToPending(a, n) \/ ReleaseFromPending(a, n)
  \/ DeductFromPending(a, n) \/ DeductFromAvailable(a, n)
  \/ Block(a, n) \/ Unblock(a, n) \/ DeductFromBlocked(a, n)

PostedType == posted \in [Accounts -> [TransactionType -> Nat]]

OutboxType == outbox \subseteq (PaymentEvent \X Payments) \cup (LinkEvent \X Charges)
                                 \cup (WithdrawalEvent \X Withdrawals)

\* The assumptions on the constants, in the form the steps need them.
LEMMA ConstantTypes ==
  /\ \A p \in Payments : /\ ChargeOf[p] \in Charges
                         /\ AccountOf(p) \in Accounts
                         /\ AmountOf(p) \in Nat /\ AmountOf(p) > 0
  /\ \A w \in Withdrawals : WithdrawalAccount[w] \in Accounts
  /\ \A n \in PayoutAmounts : n \in Nat /\ n > 0
  /\ \A f \in Fees : f \in Nat
BY ChargesAssumption, FeesAssumption, WithdrawalsAssumption
DEF AccountOf, AmountOf

\* Every method of the Account entity keeps the three balances natural.
LEMMA MethodsKeepBalances ==
  ASSUME Balances, NEW a \in Accounts, NEW n \in Nat, Method(a, n)
  PROVE  Balances'
BY DEF Method, Balances, AddToPending, ReleaseFromPending, DeductFromPending,
       DeductFromAvailable, Block, Unblock, DeductFromBlocked

\* Posting a natural amount keeps the totals natural.
LEMMA PostKeepsType ==
  ASSUME PostedType, NEW a \in Accounts, NEW t \in TransactionType, NEW n \in Nat,
         Post(a, t, n)
  PROVE  PostedType'
BY DEF Post, PostedType

\* Emitting known events keeps the outbox well typed.
LEMMA EmitKeepsType ==
  ASSUME OutboxType, NEW E, Emit(E),
         \A e \in E : \/ e \in PaymentEvent \X Payments
                      \/ e \in LinkEvent \X Charges
                      \/ e \in WithdrawalEvent \X Withdrawals
  PROVE  OutboxType'
BY DEF Emit, OutboxType

\* The rest of TypeOK: what is said of charges, payments and withdrawals.
RowTypes ==
  /\ charge \in [Charges -> PixChargeStatus \cup {"NONE"}]
  /\ overdue \in [Charges -> BOOLEAN]
  /\ linkClosed \in [Charges -> BOOLEAN]
  /\ payment \in [Payments -> PaymentStatus \cup {"NONE"}]
  /\ fee \in [Payments -> Nat] /\ \A p \in Payments : fee[p] < AmountOf(p)
  /\ refunded \in [Payments -> Nat]
  /\ feeRefunded \in [Payments -> Nat]
  /\ refundCount \in [Payments -> Nat]
  /\ withdrawal \in [Withdrawals -> {"NONE", "OPEN", "COMPLETED", "FAILED"}]
  /\ amountOf \in [Withdrawals -> Nat]
  /\ today \subseteq Withdrawals

\* The type invariant in the parts that the lemmas speak of.
LEMMA TypeParts == TypeOK => Balances /\ PostedType /\ RowTypes /\ OutboxType
BY DEF TypeOK, Balances, PostedType, RowTypes, OutboxType

\* The parts together are the type invariant of the next state.
LEMMA TypeFromParts == Balances' /\ PostedType' /\ RowTypes' /\ OutboxType' => TypeOK'
BY DEF TypeOK, Balances, PostedType, RowTypes, OutboxType

-----------------------------------------------------------------------------
(* Type correctness.                                                       *)

\* Nothing has happened: balances and totals are 0.
LEMMA TypeInit == Init => TypeOK
BY ConstantTypes DEF Init, TypeOK

\* The net of a payment is covered by its amount; what remains of it is an integer.
LEMMA NetType ==
  ASSUME TypeOK, NEW p \in Payments
  PROVE  NetOf(p) \in Nat /\ RemainingNet(p) \in Int
BY ConstantTypes DEF TypeOK, NetOf, RemainingNet

\* A new attempt gets a fee below its amount.
LEMMA NewAttemptFee ==
  ASSUME TypeOK, NEW p \in Payments, NEW s \in PaymentStatus, NewAttempt(p, s)
  PROVE  /\ AmountOf(p) - fee'[p] \in Nat
         /\ payment' = [payment EXCEPT ![p] = s]
         /\ payment' \in [Payments -> PaymentStatus \cup {"NONE"}]
         /\ fee' \in [Payments -> Nat] /\ \A q \in Payments : fee'[q] < AmountOf(q)
         /\ UNCHANGED <<refunded, feeRefunded, refundCount>>
BY ConstantTypes DEF TypeOK, NewAttempt

\* settle-confirmed-payment.ts keeps the types it writes.
LEMMA SettleType ==
  ASSUME TypeOK, NEW p \in Payments, NEW n \in Nat, NEW E, Settle(p, n, E),
         E \subseteq PaymentEvent \X Payments
  PROVE  /\ Balances' /\ PostedType' /\ OutboxType'
         /\ charge' \in [Charges -> PixChargeStatus \cup {"NONE"}]
         /\ UNCHANGED <<overdue, linkClosed, payoutVars>>
<1>1. Balances' /\ PostedType'
  BY TypeParts, ConstantTypes, MethodsKeepBalances, PostKeepsType
  DEF Settle, Method, TransactionType
<1>2. OutboxType'
  BY TypeParts, ConstantTypes DEF Settle, Emit, OutboxType, PaymentEvent, LinkEvent
<1>3. charge' \in [Charges -> PixChargeStatus \cup {"NONE"}]
  BY ConstantTypes DEF TypeOK, Settle, PixChargeStatus
<1> QED BY <1>1, <1>2, <1>3 DEF Settle

\* Each use case on a payment keeps the types.
LEMMA TypePayment ==
  ASSUME TypeOK, NEW p \in Payments, PaymentNext(p)
  PROVE  TypeOK'
<1>0. /\ Balances /\ PostedType /\ RowTypes /\ OutboxType
      /\ ChargeOf[p] \in Charges /\ AccountOf(p) \in Accounts
  BY TypeParts, ConstantTypes
<1>1. CASE CreatePayment(p)
  <2>1. RowTypes'
    BY <1>0, <1>1, NewAttemptFee
    DEF CreatePayment, RowTypes, PaymentStatus, PixChargeStatus, payoutVars
  <2>2. Balances' /\ PostedType'
    BY <1>0, <1>1 DEF CreatePayment, Balances, PostedType, balances
  <2>3. OutboxType'
    BY <1>0, <1>1 DEF CreatePayment, Emit, OutboxType, PaymentEvent
  <2> QED BY <2>1, <2>2, <2>3, TypeFromParts
<1>2. CASE ConfirmPayment(p)
  <2>1. Settle(p, NetOf(p), {}) /\ NetOf(p) \in Nat
    BY <1>2, NetType DEF ConfirmPayment
  <2>2. RowTypes'
    BY <1>0, <1>2, <2>1, SettleType
    DEF ConfirmPayment, RowTypes, PaymentStatus, payoutVars
  <2> QED BY <2>1, <2>2, SettleType, TypeFromParts
<1>3. CASE PayPaymentLink(p)
  <2> DEFINE E == {<<"payment.created", p>>}
  <2>1. /\ Settle(p, AmountOf(p) - fee'[p], E) /\ AmountOf(p) - fee'[p] \in Nat
        /\ E \subseteq PaymentEvent \X Payments
    BY <1>3, NewAttemptFee DEF PayPaymentLink, PaymentStatus, PaymentEvent
  <2> HIDE DEF E
  <2>2. RowTypes'
    BY <1>0, <1>3, <2>1, SettleType, NewAttemptFee
    DEF PayPaymentLink, RowTypes, PaymentStatus, payoutVars
  <2> QED BY <2>1, <2>2, SettleType, TypeFromParts
<1>4. CASE FailPaymentLink(p)
  <2>1. RowTypes'
    BY <1>0, <1>4, NewAttemptFee
    DEF FailPaymentLink, RowTypes, PaymentStatus, payoutVars, chargeVars
  <2>2. Balances' /\ PostedType'
    BY <1>0, <1>4 DEF FailPaymentLink, Balances, PostedType, balances
  <2>3. OutboxType'
    BY <1>0, <1>4 DEF FailPaymentLink, Emit, OutboxType, PaymentEvent
  <2> QED BY <2>1, <2>2, <2>3, TypeFromParts
<1>5. ASSUME NEW s \in {"EXPIRED", "FAILED"}, NEW c \in {"EXPIRED", "CANCELLED"}, NEW E,
             E \subseteq (PaymentEvent \X Payments) \cup (LinkEvent \X Charges),
             EndUnpaid(p, s, c, E)
      PROVE  TypeOK'
  <2>1. RowTypes'
    BY <1>0, <1>5 DEF EndUnpaid, RowTypes, PaymentStatus, PixChargeStatus, payoutVars
  <2>2. Balances' /\ PostedType'
    BY <1>0, <1>5 DEF EndUnpaid, Balances, PostedType, balances
  <2>3. OutboxType'
    BY <1>0, <1>5 DEF EndUnpaid, Emit, OutboxType
  <2> QED BY <2>1, <2>2, <2>3, TypeFromParts
<1>6. CASE FailPayment(p)
  BY <1>5, <1>6 DEF FailPayment, PaymentEvent
<1>7. CASE ExpirePayment(p)
  <2> DEFINE E == {<<"payment.expired", p>>} \cup
                  IF IsLink(p) /\ charge[ChargeOf[p]] = "OPEN"
                  THEN {<<"payment_link.expired", ChargeOf[p]>>} ELSE {}
  <2>1. E \subseteq (PaymentEvent \X Payments) \cup (LinkEvent \X Charges)
    BY <1>0 DEF PaymentEvent, LinkEvent
  <2>2. EndUnpaid(p, "EXPIRED", "EXPIRED", E)
    BY <1>7 DEF ExpirePayment
  <2> QED BY <1>5, <2>1, <2>2
<1>8. CASE GetPayment(p)
  BY <1>5, <1>8 DEF GetPayment, PaymentEvent
<1>9. CASE ReleasePayment(p)
  <2>1. RemainingNet(p) \in Nat
    BY <1>9, NetType DEF ReleasePayment, ReleaseFromPending
  <2>2. Balances' /\ PostedType'
    BY <1>0, <1>9, <2>1, MethodsKeepBalances, PostKeepsType
    DEF ReleasePayment, Method, TransactionType
  <2>3. RowTypes'
    BY <1>0, <1>9 DEF ReleasePayment, RowTypes, PaymentStatus, chargeVars, payoutVars
  <2>4. OutboxType'
    BY <1>0, <1>9 DEF ReleasePayment, Emit, OutboxType, PaymentEvent
  <2> QED BY <2>2, <2>3, <2>4, TypeFromParts
<1>10. CASE \E x \in 1 .. AmountOf(p) : CreateRefund(p, x)
  <2>1. PICK x \in 1 .. AmountOf(p) : CreateRefund(p, x)
    BY <1>10
  <2>2. PICK f \in 0 .. x :
          /\ \/ DeductFromPending(AccountOf(p), x - f)
             \/ DeductFromAvailable(AccountOf(p), x - f)
          /\ feeRefunded' = [feeRefunded EXCEPT ![p] = @ + f]
          /\ Post(AccountOf(p), "REFUND_DEDUCTED", x - f)
    BY <2>1 DEF CreateRefund, FeeShares
  <2>3. x \in Nat /\ f \in Nat /\ x - f \in Nat
    BY <2>1, <2>2, ConstantTypes
  <2>4. Balances' /\ PostedType'
    BY <1>0, <2>2, <2>3, MethodsKeepBalances, PostKeepsType DEF Method, TransactionType
  <2>5. RowTypes'
    BY <1>0, <2>1, <2>2, <2>3
    DEF CreateRefund, RowTypes, PaymentStatus, chargeVars, payoutVars
  <2>6. OutboxType'
    BY <1>0, <2>1 DEF CreateRefund, Emit, OutboxType, PaymentEvent
  <2> QED BY <2>4, <2>5, <2>6, TypeFromParts
<1> QED
  BY <1>1, <1>2, <1>3, <1>4, <1>6, <1>7, <1>8, <1>9, <1>10 DEF PaymentNext

\* Each use case on a payment link, and the clock, keep the types.
LEMMA TypeCharge ==
  ASSUME TypeOK, NEW c \in Charges, ChargeNext(c)
  PROVE  TypeOK'
<1> USE DEF TypeOK, balances, paymentVars, payoutVars
<1>1. CASE CreatePaymentLink(c)
  BY <1>1 DEF CreatePaymentLink, Emit, LinkEvent, PixChargeStatus
<1>2. CASE CancelPaymentLink(c)
  BY <1>2 DEF CancelPaymentLink, Emit, LinkEvent, PixChargeStatus
<1>3. CASE PassDeadline(c)
  BY <1>3 DEF PassDeadline
<1> QED BY <1>1, <1>2, <1>3 DEF ChargeNext

\* Each use case on a withdrawal keeps the types.
LEMMA TypeWithdrawal ==
  ASSUME TypeOK, NEW w \in Withdrawals, WithdrawalNext(w)
  PROVE  TypeOK'
<1> DEFINE a == WithdrawalAccount[w]
<1>0. /\ Balances /\ PostedType /\ RowTypes /\ OutboxType
      /\ a \in Accounts /\ amountOf[w] \in Nat
  BY TypeParts, ConstantTypes DEF RowTypes
<1>1. CASE \E n \in PayoutAmounts : CreateWithdrawal(w, n)
  <2>1. PICK n \in PayoutAmounts : CreateWithdrawal(w, n)
    BY <1>1
  <2>2. n \in Nat /\ Block(a, n) /\ Post(a, "WITHDRAWAL_RESERVED", n)
    BY <2>1, ConstantTypes DEF CreateWithdrawal
  <2>3. Balances' /\ PostedType'
    BY <1>0, <2>2, MethodsKeepBalances, PostKeepsType DEF Method, TransactionType
  <2>4. RowTypes'
    BY <1>0, <2>1, <2>2 DEF CreateWithdrawal, RowTypes, chargeVars, paymentVars
  <2>5. OutboxType'
    BY <1>0, <2>1 DEF CreateWithdrawal, Emit, OutboxType, WithdrawalEvent
  <2> QED BY <2>3, <2>4, <2>5, TypeFromParts
<1>2. CASE CompleteWithdrawal(w)
  <2>1. Balances' /\ PostedType'
    BY <1>0, <1>2, MethodsKeepBalances, PostKeepsType
    DEF CompleteWithdrawal, Method, TransactionType
  <2>2. RowTypes'
    BY <1>0, <1>2 DEF CompleteWithdrawal, RowTypes, chargeVars, paymentVars
  <2>3. OutboxType'
    BY <1>0, <1>2 DEF CompleteWithdrawal, Emit, OutboxType, WithdrawalEvent
  <2> QED BY <2>1, <2>2, <2>3, TypeFromParts
<1>3. CASE FailWithdrawal(w)
  <2>1. Balances' /\ PostedType'
    BY <1>0, <1>3, MethodsKeepBalances, PostKeepsType
    DEF FailWithdrawal, Method, TransactionType
  <2>2. RowTypes'
    BY <1>0, <1>3 DEF FailWithdrawal, RowTypes, chargeVars, paymentVars
  <2>3. OutboxType'
    BY <1>0, <1>3 DEF FailWithdrawal, Emit, OutboxType, WithdrawalEvent
  <2> QED BY <2>1, <2>2, <2>3, TypeFromParts
<1> QED BY <1>1, <1>2, <1>3 DEF WithdrawalNext

\* Every step keeps the types: the checks of the Account entity are enough.
LEMMA TypeStep == TypeOK /\ [Next]_vars => TypeOK'
<1> SUFFICES ASSUME TypeOK, [Next]_vars PROVE TypeOK'
  OBVIOUS
<1>1. CASE NewDay
  BY <1>1 DEF NewDay, TypeOK, balances, chargeVars, paymentVars
<1>2. CASE UNCHANGED vars
  BY <1>2 DEF TypeOK, vars, balances, chargeVars, paymentVars, payoutVars
<1> QED
  BY <1>1, <1>2, TypePayment, TypeCharge, TypeWithdrawal DEF Next

\* In every reachable state the variables have their types: no balance is ever
\* negative and no payment's fee reaches its amount.
THEOREM TypeCorrect == Spec => []TypeOK
BY TypeInit, TypeStep, PTL DEF Spec
-----------------------------------------------------------------------------
(* Where money moves.  Every step of the system leaves balances and posted *)
(* totals alone, or is one entry: one method of Account and one posting of *)
(* the same amount on the same account.  The three money properties follow *)
(* from the seven kinds of entry alone.                                    *)

Entry(a, n) ==
  \/ AddToPending(a, n) /\ Post(a, "PAYMENT_RECEIVED", n)
  \/ ReleaseFromPending(a, n) /\ Post(a, "PAYMENT_RELEASED", n)
  \/ DeductFromPending(a, n) /\ Post(a, "REFUND_DEDUCTED", n)
  \/ DeductFromAvailable(a, n) /\ Post(a, "REFUND_DEDUCTED", n)
  \/ Block(a, n) /\ Post(a, "WITHDRAWAL_RESERVED", n)
  \/ DeductFromBlocked(a, n) /\ Post(a, "WITHDRAWAL_SENT", n)
  \/ Unblock(a, n) /\ Post(a, "WITHDRAWAL_REVERSED", n)

NoEntry == UNCHANGED <<available, pending, blocked, posted>>

MoneyStep == NoEntry \/ \E a \in Accounts, n \in Nat : Entry(a, n)

\* A use case on a payment makes one entry on the account of its charge, or none.
LEMMA PaymentMoney ==
  ASSUME TypeOK, NEW p \in Payments, PaymentNext(p)
  PROVE  MoneyStep
<1>0. AccountOf(p) \in Accounts
  BY ConstantTypes
<1>1. CASE CreatePayment(p) \/ FailPaymentLink(p)
  BY <1>1 DEF CreatePayment, FailPaymentLink, MoneyStep, NoEntry, balances
<1>2. CASE FailPayment(p) \/ ExpirePayment(p) \/ GetPayment(p)
  BY <1>2 DEF FailPayment, ExpirePayment, GetPayment, EndUnpaid, MoneyStep, NoEntry, balances
<1>3. CASE ConfirmPayment(p)
  <2>1. NetOf(p) \in Nat /\ Entry(AccountOf(p), NetOf(p))
    BY <1>3, NetType DEF ConfirmPayment, Settle, Entry
  <2> QED BY <1>0, <2>1 DEF MoneyStep
<1>4. CASE PayPaymentLink(p)
  <2> DEFINE n == AmountOf(p) - fee'[p]
  <2>1. n \in Nat
    BY <1>4, NewAttemptFee DEF PayPaymentLink, PaymentStatus
  <2>2. Entry(AccountOf(p), n)
    BY <1>4 DEF PayPaymentLink, Settle, Entry
  <2> QED BY <1>0, <2>1, <2>2 DEF MoneyStep
<1>5. CASE ReleasePayment(p)
  <2>1. RemainingNet(p) \in Nat
    BY <1>5, NetType DEF ReleasePayment, ReleaseFromPending
  <2>2. Entry(AccountOf(p), RemainingNet(p))
    BY <1>5 DEF ReleasePayment, Entry
  <2> QED BY <1>0, <2>1, <2>2 DEF MoneyStep
<1>6. ASSUME NEW x \in 1 .. AmountOf(p), CreateRefund(p, x)
      PROVE  MoneyStep
  <2>1. PICK f \in 0 .. x :
          /\ \/ DeductFromPending(AccountOf(p), x - f)
             \/ DeductFromAvailable(AccountOf(p), x - f)
          /\ Post(AccountOf(p), "REFUND_DEDUCTED", x - f)
    BY <1>6 DEF CreateRefund, FeeShares
  <2>2. x - f \in Nat
    BY <2>1, ConstantTypes
  <2>3. Entry(AccountOf(p), x - f)
    BY <2>1 DEF Entry
  <2> QED BY <1>0, <2>2, <2>3 DEF MoneyStep
<1> QED
  BY <1>1, <1>2, <1>3, <1>4, <1>5, <1>6 DEF PaymentNext

\* A use case on a withdrawal makes one entry on its account.
LEMMA WithdrawalMoney ==
  ASSUME TypeOK, NEW w \in Withdrawals, WithdrawalNext(w)
  PROVE  MoneyStep
<1> DEFINE a == WithdrawalAccount[w]
<1>0. a \in Accounts /\ amountOf[w] \in Nat
  BY ConstantTypes DEF TypeOK
<1>1. CASE \E n \in PayoutAmounts : CreateWithdrawal(w, n)
  <2>1. PICK n \in PayoutAmounts : CreateWithdrawal(w, n)
    BY <1>1
  <2>2. n \in Nat /\ Entry(a, n)
    BY <2>1, ConstantTypes DEF CreateWithdrawal, Entry
  <2> QED BY <1>0, <2>2 DEF MoneyStep
<1>2. CASE CompleteWithdrawal(w) \/ FailWithdrawal(w)
  <2>1. Entry(a, amountOf[w])
    BY <1>2 DEF CompleteWithdrawal, FailWithdrawal, Entry
  <2> QED BY <1>0, <2>1 DEF MoneyStep
<1> QED BY <1>1, <1>2 DEF WithdrawalNext

\* Every step makes one entry, or moves and posts nothing.
LEMMA EveryStepIsMoneyStep == TypeOK /\ [Next]_vars => MoneyStep
<1> SUFFICES ASSUME TypeOK, [Next]_vars PROVE MoneyStep
  OBVIOUS
<1>1. ASSUME NEW c \in Charges, ChargeNext(c)
      PROVE  MoneyStep
  BY <1>1 DEF ChargeNext, CreatePaymentLink, CancelPaymentLink, PassDeadline,
              MoneyStep, NoEntry, balances
<1>2. CASE NewDay \/ UNCHANGED vars
  BY <1>2 DEF NewDay, vars, MoneyStep, NoEntry, balances
<1> QED
  BY <1>1, <1>2, PaymentMoney, WithdrawalMoney DEF Next

-----------------------------------------------------------------------------
(* The books balance.                                                      *)

\* An entry keeps the books of its account balanced and leaves the others.
LEMMA EntryBalances ==
  ASSUME TypeOK, BooksBalance, NEW a \in Accounts, NEW n \in Nat, Entry(a, n)
  PROVE  BooksBalance'
<1> USE DEF TypeOK, BooksBalance, TransactionType, Post
<1>1. CASE AddToPending(a, n) /\ Post(a, "PAYMENT_RECEIVED", n)
  BY <1>1 DEF AddToPending
<1>2. CASE ReleaseFromPending(a, n) /\ Post(a, "PAYMENT_RELEASED", n)
  BY <1>2 DEF ReleaseFromPending
<1>3. CASE DeductFromPending(a, n) /\ Post(a, "REFUND_DEDUCTED", n)
  BY <1>3 DEF DeductFromPending
<1>4. CASE DeductFromAvailable(a, n) /\ Post(a, "REFUND_DEDUCTED", n)
  BY <1>4 DEF DeductFromAvailable
<1>5. CASE Block(a, n) /\ Post(a, "WITHDRAWAL_RESERVED", n)
  BY <1>5 DEF Block
<1>6. CASE DeductFromBlocked(a, n) /\ Post(a, "WITHDRAWAL_SENT", n)
  BY <1>6 DEF DeductFromBlocked
<1>7. CASE Unblock(a, n) /\ Post(a, "WITHDRAWAL_REVERSED", n)
  BY <1>7 DEF Unblock
<1> QED
  BY <1>1, <1>2, <1>3, <1>4, <1>5, <1>6, <1>7 DEF Entry

\* On every account the three balances add up to what was received less what
\* was refunded and sent, and the blocked one to what was reserved and neither
\* sent nor given back.
THEOREM LedgerReconciles == Spec => []BooksBalance
<1>1. Init => BooksBalance
  BY DEF Init, BooksBalance, TransactionType
<1>2. TypeOK /\ BooksBalance /\ [Next]_vars => BooksBalance'
  <2> SUFFICES ASSUME TypeOK, BooksBalance, [Next]_vars PROVE BooksBalance'
    OBVIOUS
  <2>1. CASE NoEntry
    BY <2>1 DEF NoEntry, BooksBalance
  <2> QED BY <2>1, EveryStepIsMoneyStep, EntryBalances DEF MoneyStep
<1> QED BY <1>1, <1>2, TypeCorrect, PTL DEF Spec

-----------------------------------------------------------------------------
(* One account per transaction.                                            *)

\* An entry on one account leaves what every other holds.
LEMMA EntryIsLocal ==
  ASSUME TypeOK, NEW a \in Accounts, NEW n \in Nat, Entry(a, n),
         NEW b \in Accounts, b # a
  PROVE  Holdings(b)' = Holdings(b)
BY DEF TypeOK, Entry, Holdings, Post, AddToPending, ReleaseFromPending, DeductFromPending,
       DeductFromAvailable, Block, Unblock, DeductFromBlocked

\* No transaction moves or posts money on two accounts: the TEST and LIVE
\* balances of a store, and the balances of two stores, never mix.
THEOREM AccountsNeverMix == Spec => OneAccountPerStep
<1> DEFINE Local == \A a, b \in Accounts :
      Holdings(a)' # Holdings(a) /\ Holdings(b)' # Holdings(b) => a = b
<1>1. TypeOK /\ [Next]_vars => Local
  <2> SUFFICES ASSUME TypeOK, [Next]_vars PROVE Local
    OBVIOUS
  <2>1. CASE NoEntry
    BY <2>1 DEF NoEntry, Holdings
  <2>2. ASSUME NEW a \in Accounts, NEW n \in Nat, Entry(a, n)
        PROVE  Local
    BY <2>2, EntryIsLocal
  <2> QED BY <2>1, <2>2, EveryStepIsMoneyStep DEF MoneyStep
<1> QED BY <1>1, TypeCorrect, PTL DEF Spec, OneAccountPerStep

-----------------------------------------------------------------------------
(* The promise to the merchant.                                            *)

\* A posting adds its amount to the total of its type, and to no other.
LEMMA PostTotals ==
  ASSUME PostedType, NEW a \in Accounts, NEW n \in Nat, NEW t \in TransactionType,
         Post(a, t, n)
  PROVE  /\ t = "PAYMENT_RECEIVED" =>
              Received' = [Received EXCEPT ![a] = @ + n] /\ Received'[a] - Received[a] = n
         /\ t # "PAYMENT_RECEIVED" => Received' = Received
         /\ t = "REFUND_DEDUCTED" =>
              Returned' = [Returned EXCEPT ![a] = @ + n] /\ Returned'[a] - Returned[a] = n
         /\ t # "REFUND_DEDUCTED" => Returned' = Returned
         /\ t = "WITHDRAWAL_SENT" =>
              Sent' = [Sent EXCEPT ![a] = @ + n] /\ Sent'[a] - Sent[a] = n
         /\ t # "WITHDRAWAL_SENT" => Sent' = Sent
<1>1. ASSUME NEW u \in TransactionType, NEW b \in Accounts
      PROVE  /\ posted[b][u] \in Nat
             /\ posted'[b][u] = IF b = a /\ u = t THEN posted[b][u] + n ELSE posted[b][u]
  BY DEF Post, PostedType
<1>2. /\ t = "PAYMENT_RECEIVED" =>
           Received' = [Received EXCEPT ![a] = @ + n] /\ Received'[a] - Received[a] = n
      /\ t # "PAYMENT_RECEIVED" => Received' = Received
  <2> DEFINE u == "PAYMENT_RECEIVED"
  <2>1. \A b \in Accounts : posted[b][u] \in Nat
    BY <1>1 DEF TransactionType
  <2>2. ASSUME t = u
        PROVE  \A b \in Accounts :
                 posted'[b][u] = IF b = a THEN posted[b][u] + n ELSE posted[b][u]
    BY <1>1, <2>2 DEF TransactionType
  <2>3. ASSUME t # u
        PROVE  \A b \in Accounts : posted'[b][u] = posted[b][u]
    BY <1>1, <2>3 DEF TransactionType
  <2>4. ASSUME t = u
        PROVE  Received' = [Received EXCEPT ![a] = @ + n] /\ Received'[a] - Received[a] = n
    <3>1. Received' = [Received EXCEPT ![a] = @ + n]
      BY <2>1, <2>2, <2>4 DEF Received
    <3>2. Received'[a] - Received[a] = n
      BY <2>1, <2>2, <2>4 DEF Received
    <3> QED BY <3>1, <3>2
  <2>5. ASSUME t # u
        PROVE  Received' = Received
    BY <2>3, <2>5 DEF Received
  <2> QED BY <2>4, <2>5
<1>3. /\ t = "REFUND_DEDUCTED" =>
           Returned' = [Returned EXCEPT ![a] = @ + n] /\ Returned'[a] - Returned[a] = n
      /\ t # "REFUND_DEDUCTED" => Returned' = Returned
  <2> DEFINE u == "REFUND_DEDUCTED"
  <2>1. \A b \in Accounts : posted[b][u] \in Nat
    BY <1>1 DEF TransactionType
  <2>2. ASSUME t = u
        PROVE  \A b \in Accounts :
                 posted'[b][u] = IF b = a THEN posted[b][u] + n ELSE posted[b][u]
    BY <1>1, <2>2 DEF TransactionType
  <2>3. ASSUME t # u
        PROVE  \A b \in Accounts : posted'[b][u] = posted[b][u]
    BY <1>1, <2>3 DEF TransactionType
  <2>4. ASSUME t = u
        PROVE  Returned' = [Returned EXCEPT ![a] = @ + n] /\ Returned'[a] - Returned[a] = n
    <3>1. Returned' = [Returned EXCEPT ![a] = @ + n]
      BY <2>1, <2>2, <2>4 DEF Returned
    <3>2. Returned'[a] - Returned[a] = n
      BY <2>1, <2>2, <2>4 DEF Returned
    <3> QED BY <3>1, <3>2
  <2>5. ASSUME t # u
        PROVE  Returned' = Returned
    BY <2>3, <2>5 DEF Returned
  <2> QED BY <2>4, <2>5
<1>4. /\ t = "WITHDRAWAL_SENT" =>
           Sent' = [Sent EXCEPT ![a] = @ + n] /\ Sent'[a] - Sent[a] = n
      /\ t # "WITHDRAWAL_SENT" => Sent' = Sent
  <2> DEFINE u == "WITHDRAWAL_SENT"
  <2>1. \A b \in Accounts : posted[b][u] \in Nat
    BY <1>1 DEF TransactionType
  <2>2. ASSUME t = u
        PROVE  \A b \in Accounts :
                 posted'[b][u] = IF b = a THEN posted[b][u] + n ELSE posted[b][u]
    BY <1>1, <2>2 DEF TransactionType
  <2>3. ASSUME t # u
        PROVE  \A b \in Accounts : posted'[b][u] = posted[b][u]
    BY <1>1, <2>3 DEF TransactionType
  <2>4. ASSUME t = u
        PROVE  Sent' = [Sent EXCEPT ![a] = @ + n] /\ Sent'[a] - Sent[a] = n
    <3>1. Sent' = [Sent EXCEPT ![a] = @ + n]
      BY <2>1, <2>2, <2>4 DEF Sent
    <3>2. Sent'[a] - Sent[a] = n
      BY <2>1, <2>2, <2>4 DEF Sent
    <3> QED BY <3>1, <3>2
  <2>5. ASSUME t # u
        PROVE  Sent' = Sent
    BY <2>3, <2>5 DEF Sent
  <2> QED BY <2>4, <2>5
<1> QED BY <1>2, <1>3, <1>4

\* What the methods of Account do to the funds held.
LEMMA MethodsHold ==
  ASSUME Balances, NEW a \in Accounts, NEW n \in Nat
  PROVE  /\ AddToPending(a, n) => Held' = [Held EXCEPT ![a] = @ + n]
         /\ DeductFromPending(a, n) \/ DeductFromAvailable(a, n) \/ DeductFromBlocked(a, n)
              => n <= Held[a] /\ Held' = [Held EXCEPT ![a] = @ - n]
         /\ ReleaseFromPending(a, n) \/ Block(a, n) \/ Unblock(a, n) => Held' = Held
<1> DEFINE Sum(b) == available[b] + pending[b] + blocked[b]
           SumNext(b) == available'[b] + pending'[b] + blocked'[b]
<1>1. ASSUME AddToPending(a, n)
      PROVE  Held' = [Held EXCEPT ![a] = @ + n]
  <2>1. \A b \in Accounts : SumNext(b) = IF b = a THEN Sum(b) + n ELSE Sum(b)
    BY <1>1 DEF AddToPending, Balances
  <2> QED BY <2>1 DEF Held
<1>2. ASSUME DeductFromPending(a, n) \/ DeductFromAvailable(a, n) \/ DeductFromBlocked(a, n)
      PROVE  n <= Held[a] /\ Held' = [Held EXCEPT ![a] = @ - n]
  <2>1. n <= Sum(a) /\ \A b \in Accounts : SumNext(b) = IF b = a THEN Sum(b) - n ELSE Sum(b)
    BY <1>2 DEF DeductFromPending, DeductFromAvailable, DeductFromBlocked, Balances
  <2> QED BY <2>1 DEF Held
<1>3. ASSUME ReleaseFromPending(a, n) \/ Block(a, n) \/ Unblock(a, n)
      PROVE  Held' = Held
  <2>1. \A b \in Accounts : SumNext(b) = Sum(b)
    <3>1. CASE ReleaseFromPending(a, n)
      BY <3>1 DEF ReleaseFromPending, Balances
    <3>2. CASE Block(a, n)
      BY <3>2 DEF Block, Balances
    <3>3. CASE Unblock(a, n)
      BY <3>3 DEF Unblock, Balances
    <3> QED BY <1>3, <3>1, <3>2, <3>3
  <2> QED BY <2>1 DEF Held
<1> QED BY <1>1, <1>2, <1>3

\* An entry is an abstract receipt, return or payout, or is invisible.
LEMMA EntryImplements ==
  ASSUME TypeOK, NEW a \in Accounts, NEW n \in Nat, Entry(a, n)
  PROVE  [Funds!Next]_Funds!fundsVars
<1>0. Balances /\ PostedType
  BY TypeParts
<1>1. CASE AddToPending(a, n) /\ Post(a, "PAYMENT_RECEIVED", n)
  <2>1. /\ Funds!Receive(a, n) /\ Received'[a] - Received[a] = n
    BY <1>0, <1>1, PostTotals, MethodsHold DEF Funds!Receive, TransactionType
  <2> QED BY <2>1 DEF Funds!Next
<1>2. CASE /\ \/ DeductFromPending(a, n) \/ DeductFromAvailable(a, n)
           /\ Post(a, "REFUND_DEDUCTED", n)
  <2>1. Funds!Return(a, n) /\ Returned'[a] - Returned[a] = n
    BY <1>0, <1>2, PostTotals, MethodsHold DEF Funds!Return, TransactionType
  <2> QED BY <2>1 DEF Funds!Next
<1>3. CASE DeductFromBlocked(a, n) /\ Post(a, "WITHDRAWAL_SENT", n)
  <2>1. Funds!PayOut(a, n) /\ Sent'[a] - Sent[a] = n
    BY <1>0, <1>3, PostTotals, MethodsHold DEF Funds!PayOut, TransactionType
  <2> QED BY <2>1 DEF Funds!Next
<1>4. CASE \/ ReleaseFromPending(a, n) /\ Post(a, "PAYMENT_RELEASED", n)
           \/ Block(a, n) /\ Post(a, "WITHDRAWAL_RESERVED", n)
           \/ Unblock(a, n) /\ Post(a, "WITHDRAWAL_REVERSED", n)
  <2>1. Received' = Received /\ Returned' = Returned /\ Sent' = Sent
    BY <1>0, <1>4, PostTotals DEF TransactionType
  <2>2. Held' = Held
    BY <1>0, <1>4, MethodsHold
  <2> QED BY <2>1, <2>2 DEF Funds!fundsVars
<1> QED BY <1>1, <1>2, <1>3, <1>4 DEF Entry

\* The ledger implements MerchantFunds: whatever the use cases do, an account
\* holds what was received less what was returned and sent, and neither ever
\* exceeds what it holds.
THEOREM LedgerKeepsPromise == Spec => ImplementsFunds
<1>1. Init => Funds!Init
  BY DEF Init, Funds!Init, TransactionType, Held, Received, Returned, Sent
<1>2. TypeOK /\ [Next]_vars => [Funds!Next]_Funds!fundsVars
  <2> SUFFICES ASSUME TypeOK, [Next]_vars PROVE [Funds!Next]_Funds!fundsVars
    OBVIOUS
  <2>1. CASE NoEntry
    BY <2>1 DEF NoEntry, Funds!fundsVars, Held, Received, Returned, Sent
  <2> QED BY <2>1, EveryStepIsMoneyStep, EntryImplements DEF MoneyStep
<1> QED BY <1>1, <1>2, TypeCorrect, PTL DEF Spec, ImplementsFunds, Funds!Spec

-----------------------------------------------------------------------------
(* Withdrawals.  The blocked balance is a sum over the rows of open        *)
(* withdrawals, and the daily limit one over today's.  Both sums are over  *)
(* finite sets whatever Withdrawals is: rows are made one at a time.       *)

Requested == {w \in Withdrawals : withdrawal[w] # "NONE"}

OpenOf(a) == {w \in Withdrawals : WithdrawalAccount[w] = a /\ withdrawal[w] = "OPEN"}

\* The strengthening that is inductive together with TypeOK.
WithdrawalInv ==
  /\ IsFiniteSet(Requested) /\ today \subseteq Requested
  /\ \A a \in Accounts : blocked[a] = SumOver(amountOf, OpenOf(a))
  /\ \A a \in Accounts :
       /\ SumOver(amountOf, RequestedToday(a)) <= DailyAmountLimit
       /\ Cardinality(RequestedToday(a)) <= DailyCountLimit

\* The sums of the properties are SumOver's.
LEMMA SumsOfWithdrawals ==
  \A a : /\ AmountToday(a) = SumOver(amountOf, RequestedToday(a))
         /\ SumOver(amountOf, OpenOf(a)) = MapThenSumSet(LAMBDA w : amountOf[w],
              {w \in Withdrawals : WithdrawalAccount[w] = a /\ withdrawal[w] = "OPEN"})
BY DEF AmountToday, OpenOf, SumOver, MapThenSumSet, MapThenFoldSet

\* The limits and the blocked balance follow from the invariant's sums.
LEMMA WithdrawalInvImplies == WithdrawalInv => WithdrawalsAreCovered
<1> SUFFICES ASSUME WithdrawalInv PROVE WithdrawalsAreCovered
  OBVIOUS
<1>1. ASSUME NEW a \in Accounts
      PROVE  /\ AmountToday(a) <= DailyAmountLimit
             /\ Cardinality(RequestedToday(a)) <= DailyCountLimit
  <2>1. AmountToday(a) = SumOver(amountOf, RequestedToday(a))
    BY SumsOfWithdrawals
  <2> QED BY <2>1 DEF WithdrawalInv
<1>2. ASSUME NEW a \in Accounts
      PROVE  blocked[a] = MapThenSumSet(LAMBDA w : amountOf[w],
        {w \in Withdrawals : WithdrawalAccount[w] = a /\ withdrawal[w] = "OPEN"})
  BY SumsOfWithdrawals DEF WithdrawalInv
<1>3. DailyLimits
  BY <1>1 DEF DailyLimits
<1>4. BlockedIsReserved
  BY <1>2 DEF BlockedIsReserved
<1> QED BY <1>3, <1>4 DEF WithdrawalsAreCovered

\* The sets summed over are finite, and so their sums are naturals.
LEMMA WithdrawalSums ==
  ASSUME TypeOK, WithdrawalInv, NEW a \in Accounts
  PROVE  /\ IsFiniteSet(OpenOf(a)) /\ SumOver(amountOf, OpenOf(a)) \in Nat
         /\ IsFiniteSet(RequestedToday(a)) /\ SumOver(amountOf, RequestedToday(a)) \in Nat
         /\ Cardinality(RequestedToday(a)) \in Nat
<1>1. OpenOf(a) \subseteq Requested /\ RequestedToday(a) \subseteq Requested
  BY DEF OpenOf, RequestedToday, WithdrawalInv, Requested
<1>2. IsFiniteSet(OpenOf(a)) /\ IsFiniteSet(RequestedToday(a))
  BY <1>1, FS_Subset DEF WithdrawalInv
<1>3. \A w \in Requested : amountOf[w] \in Nat
  BY DEF TypeOK, Requested
<1> QED BY <1>1, <1>2, <1>3, SumType, FS_CardinalityType

\* CreateWithdrawal adds one open withdrawal to the sums, within the limits it checked.
LEMMA CreateKeepsWithdrawalInv ==
  ASSUME TypeOK, WithdrawalInv, NEW w \in Withdrawals, NEW n \in PayoutAmounts,
         CreateWithdrawal(w, n)
  PROVE  WithdrawalInv'
<1> DEFINE a == WithdrawalAccount[w]
<1>0. /\ a \in Accounts /\ n \in Nat /\ withdrawal[w] = "NONE"
      /\ amountOf \in [Withdrawals -> Nat] /\ today \subseteq Requested
      /\ DailyAmountLimit \in Nat /\ DailyCountLimit \in Nat
      /\ w \notin Requested
  BY ConstantTypes, WithdrawalsAssumption
  DEF TypeOK, CreateWithdrawal, WithdrawalInv, Requested
<1>1. /\ withdrawal' = [withdrawal EXCEPT ![w] = "OPEN"]
      /\ amountOf' = [amountOf EXCEPT ![w] = n] /\ today' = today \cup {w}
      /\ AmountToday(a) + n <= DailyAmountLimit
      /\ Cardinality(RequestedToday(a)) + 1 <= DailyCountLimit
      /\ blocked' = [blocked EXCEPT ![a] = @ + n]
  BY DEF CreateWithdrawal, WithinDailyLimits, Block
<1>2. /\ Requested' = Requested \cup {w}
      /\ \A b \in Accounts : OpenOf(b)' = IF b = a THEN OpenOf(b) \cup {w} ELSE OpenOf(b)
      /\ \A b \in Accounts : RequestedToday(b)' =
           IF b = a THEN RequestedToday(b) \cup {w} ELSE RequestedToday(b)
  BY <1>0, <1>1 DEF TypeOK, Requested, OpenOf, RequestedToday
<1>3. IsFiniteSet(Requested') /\ today' \subseteq Requested'
  BY <1>0, <1>1, <1>2, FS_AddElement DEF WithdrawalInv
<1>4. ASSUME NEW S, S \subseteq Requested, IsFiniteSet(S)
      PROVE  /\ SumOver(amountOf', S) = SumOver(amountOf, S)
             /\ SumOver(amountOf', S \cup {w}) = SumOver(amountOf, S) + n
  <2>1. /\ \A v \in S : amountOf'[v] = amountOf[v] /\ amountOf[v] \in Nat
        /\ amountOf'[w] = n /\ w \notin S
    BY <1>0, <1>1, <1>4 DEF Requested
  <2>2. SumOver(amountOf', S) = SumOver(amountOf, S)
    BY <1>4, <2>1, SumCongruent
  <2>3. \A v \in S \cup {w} : amountOf'[v] \in Int
    BY <1>0, <2>1
  <2>4. SumOver(amountOf', S \cup {w}) = amountOf'[w] + SumOver(amountOf', S)
    BY <1>4, <2>1, <2>3, SumAdd
  <2>5. SumOver(amountOf, S) \in Nat
    BY <1>4, <2>1, SumType
  <2> QED BY <1>0, <2>1, <2>2, <2>4, <2>5
<1>5. ASSUME NEW b \in Accounts
      PROVE  /\ OpenOf(b) \subseteq Requested /\ IsFiniteSet(OpenOf(b))
             /\ RequestedToday(b) \subseteq Requested /\ IsFiniteSet(RequestedToday(b))
             /\ w \notin RequestedToday(b)
  BY <1>0, WithdrawalSums DEF OpenOf, RequestedToday, Requested
<1>6. ASSUME NEW b \in Accounts
      PROVE  blocked'[b] = SumOver(amountOf', OpenOf(b)')
  <2>1. /\ blocked[b] = SumOver(amountOf, OpenOf(b))
        /\ blocked'[b] = IF b = a THEN blocked[b] + n ELSE blocked[b]
    BY <1>0, <1>1 DEF TypeOK, WithdrawalInv
  <2>2. /\ SumOver(amountOf', OpenOf(b)) = SumOver(amountOf, OpenOf(b))
        /\ SumOver(amountOf', OpenOf(b) \cup {w}) = SumOver(amountOf, OpenOf(b)) + n
    BY <1>4, <1>5
  <2>3. OpenOf(b)' = IF b = a THEN OpenOf(b) \cup {w} ELSE OpenOf(b)
    BY <1>2
  <2> QED BY <2>1, <2>2, <2>3
<1>7. ASSUME NEW b \in Accounts
      PROVE  SumOver(amountOf', RequestedToday(b)') <= DailyAmountLimit
  <2>1. AmountToday(a) = SumOver(amountOf, RequestedToday(a))
    BY SumsOfWithdrawals
  <2>2. /\ SumOver(amountOf', RequestedToday(b)) = SumOver(amountOf, RequestedToday(b))
        /\ SumOver(amountOf', RequestedToday(b) \cup {w}) =
             SumOver(amountOf, RequestedToday(b)) + n
    BY <1>4, <1>5
  <2>3. RequestedToday(b)' = IF b = a THEN RequestedToday(b) \cup {w} ELSE RequestedToday(b)
    BY <1>2
  <2>4. SumOver(amountOf, RequestedToday(b)) <= DailyAmountLimit
    BY DEF WithdrawalInv
  <2> QED BY <1>1, <2>1, <2>2, <2>3, <2>4
<1>8. ASSUME NEW b \in Accounts
      PROVE  Cardinality(RequestedToday(b)') <= DailyCountLimit
  <2>1. Cardinality(RequestedToday(b) \cup {w}) = Cardinality(RequestedToday(b)) + 1
    BY <1>5, FS_AddElement
  <2> QED BY <1>1, <1>2, <2>1 DEF WithdrawalInv
<1> QED BY <1>3, <1>6, <1>7, <1>8 DEF WithdrawalInv

\* A withdrawal that ends gives up what it reserved, and nothing else.
LEMMA EndKeepsWithdrawalInv ==
  ASSUME TypeOK, WithdrawalInv, NEW w \in Withdrawals,
         CompleteWithdrawal(w) \/ FailWithdrawal(w)
  PROVE  WithdrawalInv'
<1> DEFINE a == WithdrawalAccount[w]
<1>0. a \in Accounts /\ amountOf \in [Withdrawals -> Nat]
  BY ConstantTypes DEF TypeOK
<1>1. /\ withdrawal[w] = "OPEN"
      /\ \E s \in {"COMPLETED", "FAILED"} : withdrawal' = [withdrawal EXCEPT ![w] = s]
      /\ amountOf' = amountOf /\ today' = today
      /\ blocked' = [blocked EXCEPT ![a] = @ - amountOf[w]]
  BY DEF CompleteWithdrawal, FailWithdrawal, DeductFromBlocked, Unblock
<1>2. /\ Requested' = Requested
      /\ \A b \in Accounts : OpenOf(b)' = IF b = a THEN OpenOf(b) \ {w} ELSE OpenOf(b)
      /\ \A b \in Accounts : RequestedToday(b)' = RequestedToday(b)
      /\ w \in OpenOf(a)
  BY <1>0, <1>1 DEF TypeOK, Requested, OpenOf, RequestedToday
<1>3. /\ IsFiniteSet(OpenOf(a)) /\ \A v \in OpenOf(a) : amountOf[v] \in Int
      /\ OpenOf(a) \ {w} \subseteq OpenOf(a)
  BY <1>0, WithdrawalSums DEF OpenOf
<1>4. SumOver(amountOf, OpenOf(a)) = amountOf[w] + SumOver(amountOf, OpenOf(a) \ {w})
  BY <1>2, <1>3, SumRemove
<1>5. SumOver(amountOf, OpenOf(a) \ {w}) \in Int /\ amountOf[w] \in Int
  BY <1>0, <1>3, SumType, FS_Subset
<1>6. ASSUME NEW b \in Accounts
      PROVE  blocked'[b] = SumOver(amountOf', OpenOf(b)')
  <2>1. /\ blocked[b] = SumOver(amountOf, OpenOf(b))
        /\ blocked'[b] = IF b = a THEN blocked[b] - amountOf[w] ELSE blocked[b]
    BY <1>0, <1>1 DEF TypeOK, WithdrawalInv
  <2>2. OpenOf(b)' = IF b = a THEN OpenOf(b) \ {w} ELSE OpenOf(b)
    BY <1>2
  <2>3. CASE b = a
    <3>1. blocked'[a] = SumOver(amountOf, OpenOf(a) \ {w})
      BY <1>4, <1>5, <2>1, <2>3
    <3> QED BY <1>1, <2>2, <2>3, <3>1
  <2>4. CASE b # a
    BY <1>1, <2>1, <2>2, <2>4
  <2> QED BY <2>3, <2>4
<1> QED BY <1>1, <1>2, <1>6 DEF WithdrawalInv

\* What the payment side does to balances leaves the blocked one alone.
LEMMA PaymentsKeepWithdrawals ==
  ASSUME [Next]_vars, ~ \E w \in Withdrawals : WithdrawalNext(w)
  PROVE  /\ UNCHANGED <<blocked, withdrawal, amountOf>>
         /\ today' = today \/ today' = {}
<1>1. ASSUME NEW p \in Payments, PaymentNext(p)
      PROVE  UNCHANGED <<blocked, payoutVars>>
  <2>1. CASE CreatePayment(p) \/ FailPaymentLink(p)
    BY <2>1 DEF CreatePayment, FailPaymentLink, balances
  <2>2. CASE ConfirmPayment(p) \/ PayPaymentLink(p)
    BY <2>2 DEF ConfirmPayment, PayPaymentLink, Settle, AddToPending
  <2>3. CASE FailPayment(p) \/ ExpirePayment(p) \/ GetPayment(p)
    BY <2>3 DEF FailPayment, ExpirePayment, GetPayment, EndUnpaid, balances
  <2>4. CASE ReleasePayment(p)
    BY <2>4 DEF ReleasePayment, ReleaseFromPending
  <2>5. ASSUME NEW x \in 1 .. AmountOf(p), CreateRefund(p, x)
        PROVE  UNCHANGED <<blocked, payoutVars>>
    BY <2>5 DEF CreateRefund, DeductFromPending, DeductFromAvailable
  <2> QED BY <1>1, <2>1, <2>2, <2>3, <2>4, <2>5 DEF PaymentNext
<1>2. ASSUME NEW c \in Charges, ChargeNext(c)
      PROVE  UNCHANGED <<blocked, payoutVars>>
  BY <1>2 DEF ChargeNext, CreatePaymentLink, CancelPaymentLink, PassDeadline, balances
<1>3. CASE NewDay \/ UNCHANGED vars
  BY <1>3 DEF NewDay, vars, balances, payoutVars
<1> QED BY <1>1, <1>2, <1>3 DEF Next, payoutVars

\* On every account the blocked balance is what its open withdrawals reserve,
\* and what it requests in a day stays within the limits of the policy.
THEOREM WithdrawalsStayCovered == Spec => []WithdrawalsAreCovered
<1>1. Init => WithdrawalInv
  <2> SUFFICES ASSUME Init PROVE WithdrawalInv
    OBVIOUS
  <2>1. Requested = {} /\ \A a \in Accounts : OpenOf(a) = {} /\ RequestedToday(a) = {}
    BY DEF Init, Requested, OpenOf, RequestedToday
  <2>2. IsFiniteSet({}) /\ Cardinality({}) = 0 /\ SumOver(amountOf, {}) = 0
    BY SumEmpty, FS_EmptySet
  <2>3. \A a \in Accounts : blocked[a] = 0
    BY DEF Init
  <2>4. IsFiniteSet(Requested) /\ today \subseteq Requested
    BY <2>1, <2>2 DEF Init
  <2>5. \A a \in Accounts : blocked[a] = SumOver(amountOf, OpenOf(a))
    BY <2>1, <2>2, <2>3
  <2>6. ASSUME NEW a \in Accounts
        PROVE  /\ SumOver(amountOf, RequestedToday(a)) <= DailyAmountLimit
               /\ Cardinality(RequestedToday(a)) <= DailyCountLimit
    <3>1. RequestedToday(a) = {}
      BY <2>1
    <3> QED BY <2>2, <3>1, WithdrawalsAssumption
  <2> QED BY <2>4, <2>5, <2>6 DEF WithdrawalInv
<1>2. TypeOK /\ WithdrawalInv /\ [Next]_vars => WithdrawalInv'
  <2> SUFFICES ASSUME TypeOK, WithdrawalInv, [Next]_vars PROVE WithdrawalInv'
    OBVIOUS
  <2>1. ASSUME NEW w \in Withdrawals, WithdrawalNext(w)
        PROVE  WithdrawalInv'
    BY <2>1, CreateKeepsWithdrawalInv, EndKeepsWithdrawalInv DEF WithdrawalNext
  <2>2. ASSUME UNCHANGED <<blocked, withdrawal, amountOf>>,
               today' = today \/ today' = {}
        PROVE  WithdrawalInv'
    <3>1. Requested' = Requested /\ \A a \in Accounts : OpenOf(a)' = OpenOf(a)
      BY <2>2 DEF Requested, OpenOf
    <3>2. ASSUME NEW a \in Accounts
          PROVE  RequestedToday(a)' = RequestedToday(a) \/ RequestedToday(a)' = {}
      BY <2>2 DEF RequestedToday
    <3>3. SumOver(amountOf, {}) = 0 /\ Cardinality({}) = 0
      BY SumEmpty, FS_EmptySet
    <3> QED
      BY <2>2, <3>1, <3>2, <3>3, WithdrawalsAssumption DEF WithdrawalInv
  <2> QED BY <2>1, <2>2, PaymentsKeepWithdrawals
<1> QED BY <1>1, <1>2, WithdrawalInvImplies, TypeCorrect, PTL DEF Spec
=============================================================================
