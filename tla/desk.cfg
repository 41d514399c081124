\* Up to two orders left behind on two contracts, open or still on their way;
\* two loads; quotes around every threshold, with and without the live guard.
CONSTANTS
  c1 = c1
  c2 = c2
  o1 = o1
  o2 = o2
  Contract = {c1, c2}
  OrderId = {o1, o2}
  NoOrder = NoOrder
  None = None
  NoExpiry = NoExpiry
  TakerRate = 200
  ProbabilityScaled = TRUE
  LatencyBuffer = 2
  BaseRisk <- Base
  GuardRisk <- Guard
  Allowed = {"FiveMin"}
  Thresholds <- Regimes
  Limits <- CancelLimits
  OldOrders <- Books
  CreatedAt <- Created
  Quotes <- SomeQuotes
  Modes <- SizingModes
  Equities = {100}
  Clients = {"Exchange"}
  FillPrices = {4000}
  MaxFaults = 0
  MaxLoads = 2
  MaxTime = 3
SPECIFICATION Spec
INVARIANTS AcceptedPaysItsCosts SizedWithinLimits GuardedWithinLimits RestartCovered NothingOutlivesTheScan
CHECK_DEADLOCK FALSE
