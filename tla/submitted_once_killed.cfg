\* The kill switch is activated while an intent is queued.
CONSTANTS
  c1 = c1
  c2 = c2
  o1 = o1
  o2 = o2
  o3 = o3
  Contract = {c1}
  OrderId = {o1}
  NoOrder = NoOrder
  MaxConcurrentOrders = 1
  MaxRetryAttempts = 0
  MaxConcurrentPositions = 1
  MaxPositionPerMarket = 4
  IntentCapacity = 1
  BusCapacity = 1
  Sizes = {1}
  LimitPrice = 1
  Clients = {"Exchange", "Simulation"}
  FillPrices = {1}
  Markets <- OneMarket
  Stimuli = {"Operator"}
  MaxFaults = 0
SPECIFICATION Spec
PROPERTIES NoSubmissionOnceKilled
CHECK_DEADLOCK FALSE
