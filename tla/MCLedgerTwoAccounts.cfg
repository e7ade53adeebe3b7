\* Two accounts (TEST and LIVE of a store): a link with two attempts and a direct charge, two withdrawals.
SPECIFICATION FairSpec
CHECK_DEADLOCK FALSE
CONSTANTS
  store = store
  other = other
  link = link
  direct = direct
  p1 = p1
  p2 = p2
  p3 = p3
  w1 = w1
  w2 = w2
  w3 = w3
  Accounts = {store, other}
  Charges = {link, direct}
  LinkCharges = {link}
  Payments = {p1, p2, p3}
  Withdrawals = {w1, w2}
  ChargeOf <- MCChargeOf
  ChargeAccount <- MCTwoAccounts
  ChargeAmount <- MCChargeAmount
  Fees = {1}
  WithdrawalAccount <- MCTwoWithdrawals
  PayoutAmounts = {1, 2}
  DailyAmountLimit = 3
  DailyCountLimit = 2
PROPERTIES
  OneAccountPerStep
  ImplementsFunds
  JobsFinish
