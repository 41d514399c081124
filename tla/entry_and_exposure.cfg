\* Two markets compete for one queue slot; fills in parts and at better prices.
CONSTANTS
  c1 = c1
  c2 = c2
  o1 = o1
  o2 = o2
  o3 = o3
  Contract = {c1, c2}
  OrderId = {o1, o2}
  NoOrder = NoOrder
  MaxConcurrentOrders = 2
  MaxRetryAttempts = 0
  MaxConcurrentPositions = 2
  MaxPositionPerMarket = 6
  IntentCapacity = 1
  BusCapacity = 1
  Sizes = {2}
  LimitPrice = 2
  Clients = {"Exchange", "Simulation"}
  FillPrices = {1}
  Markets <- TwoMarkets
  Stimuli = {"KillSwitch"}
  MaxFaults = 0
SPECIFICATION Spec
SYMMETRY Symmetry
INVARIANTS TypeOK LockedWhileCommitted SingleEntry SoleOrderCovered NoPhantomPosition
CHECK_DEADLOCK FALSE
