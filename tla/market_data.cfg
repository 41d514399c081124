\* Two price feeds and the book stream on a bus of one, two markets, the
\* second one discovered late; one failure, after which Binance gives up and
\* Coinbase reconnects. The server's clock is one ahead.
CONSTANTS
  t1 = t1
  t2 = t2
  Token = {t1, t2}
  Listed <- ListedAt
  Expiry <- ExpiresAt
  Never = Never
  Cex = {"Binance", "Coinbase"}
  Registered = {"Binance", "Coinbase"}
  StaleAfter = 0
  MaxAttempts = 0
  BusCapacity = 1
  IntentCapacity = 1
  FeedTolerance = 0
  BookTolerance = 0
  SignalTolerance = 1
  Skews = {1}
  MaxSkew = 1
  MaxTime = 3
  MaxTrouble = 1
SPECIFICATION Spec
INVARIANTS HealthyMeansStreaming RegistryHidesOnlyExpired
PROPERTIES OrdersOnFreshData
CHECK_DEADLOCK FALSE
