\* Liveness, with a bus that no run of this length can fill.
CONSTANTS
  c1 = c1
  c2 = c2
  o1 = o1
  o2 = o2
  o3 = o3
  Contract = {c1}
  OrderId = {o1, o2}
  NoOrder = NoOrder
  MaxConcurrentOrders = 2
  MaxRetryAttempts = 0
  MaxConcurrentPositions = 1
  MaxPositionPerMarket = 4
  IntentCapacity = 1
  BusCapacity = 6
  Sizes = {1}
  LimitPrice = 1
  Clients = {"Exchange", "Simulation"}
  FillPrices = {1}
  Markets <- OneMarket
  Stimuli = {"Operator", "Shutdown"}
  MaxFaults = 0
SPECIFICATION FairSpec
PROPERTIES KillSwitchSettles ShutdownCompletes
CHECK_DEADLOCK FALSE
