\* One store, a link with two attempts and a direct charge, three withdrawals.
SPECIFICATION Spec
CHECK_DEADLOCK FALSE
CONSTANTS
  store = store
  other = other
  link = link
  direct = direct
  p1 = p1
  p2 = p2
  p3 = p3
  w1 = w1
  w2 = w2
  w3 = w3
  Accounts = {store}
  Charges = {link, direct}
  LinkCharges = {link}
  Payments = {p1, p2, p3}
  Withdrawals = {w1, w2, w3}
  ChargeOf <- MCChargeOf
  ChargeAccount <- MCOneAccount
  ChargeAmount <- MCChargeAmount
  Fees = {1}
  WithdrawalAccount <- MCWithdrawals
  PayoutAmounts = {1, 2}
  DailyAmountLimit = 3
  DailyCountLimit = 2
SYMMETRY MCSymmetry
INVARIANTS
  TypeOK
  BooksBalance
  SingleSettlement
  RefundProration
  OutboxTellsOutcome
  PendingIsPayable
  WithdrawalsAreCovered
  PendingIsUnreleased
PROPERTIES
  PaymentsAreFinal
