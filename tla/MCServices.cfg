\* Idempotency keys, checkout, LIVE enablement, sessions, circuit breaker,
\* settlement, bank accounts, alerts, the operator desk, API keys and receipts.
SPECIFICATION ServicesSpec
CHECK_DEADLOCK FALSE
CONSTANTS
  key = key
  first = first
  again = again
  changed = changed
  Requests = {first, again, changed}
  Keys = {key}
  KeyOf <- MCKeyOf
  Fingerprint <- MCFingerprint
  Direct = {again}
  MaxExpiries = 1
  NoRequest = NoRequest
  Visits = {v1, v2, v3}
  NoPayment = NoPayment
  shop = shop
  branch = branch
  Stores = {shop, branch}
  Terms = {1, 2}
  FirstTerms = 1
  Editors = {e1, e2}
  EditorStore <- MCEditorStore
  Operations = {o1}
  MoneyStore <- MCMoneyStore
  NoEditor = NoEditor
  Calls = {c1, c2}
  NoCall = NoCall
  Deliveries = {d1, d2}
  Threshold = 3
  MaxErrors = 1
  lone = lone
  due = due
  Shops = {shop, branch}
  DuePayments = {p1, p2, due, lone}
  ShopOf <- MCShopOf
  Stuck = {due}
  BatchSize = 2
  MaxQueryErrors = 1
  BankAccounts = {b1, b2}
  BankCalls = {k1, k2}
  NoBank = NoBank
  ChannelCount = 2
  Accepting = {2}
  AlertTries = 2
  MaxMishaps = 2
  MaxByHand = 1
  DeskCalls = {k1, k2}
  NoDeskCall = NoDeskCall
  MaxFunds = 2
  MaxMoves = 1
  ApiRequests = {r1, r2}
  Revocations = {m1, m2}
  test = test
  live = live
  s3 = s3
  Sales = {s1, s2, s3}
  Purses = {test, live}
  PurseOf <- MCPurseOf
  Days = {1, 2}
  NoSale = NoSale
INVARIANTS
  OnePaymentPerSession
  DecisionsStand
  LiveWasApproved
  OpenIsEarned
  ToldOnce
  TrailIsExact
  RevocationHolds
  ReceiptsAreSound
  OneOutcomeAnnounced
PROPERTIES
  MutationsKeepPromise
  NobodyWaitsForEver
  LogoutHolds
  LiveSessionsEnd
  CircuitFollowsDestination
  HealthyPaymentsSettle
  BankAccountsHold
  RefusalHoldsNobodyUp
  AccessIsGranted
