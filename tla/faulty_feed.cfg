\* The user stream loses or repeats a message, calls to the venue fail and
\* are retried, markets resolve.
CONSTANTS
  c1 = c1
  c2 = c2
  o1 = o1
  o2 = o2
  o3 = o3
  Contract = {c1}
  OrderId = {o1, o2}
  NoOrder = NoOrder
  MaxConcurrentOrders = 1
  MaxRetryAttempts = 1
  MaxConcurrentPositions = 1
  MaxPositionPerMarket = 4
  IntentCapacity = 1
  BusCapacity = 2
  Sizes = {2}
  LimitPrice = 1
  Clients = {"Exchange", "Simulation"}
  FillPrices = {1}
  Markets <- OneMarket
  Stimuli = {"Resolution"}
  MaxFaults = 1
SPECIFICATION Spec
SYMMETRY Symmetry
INVARIANTS TerminalBeliefSound InFlightIndexed
PROPERTIES UncertaintyNeedsWord
CHECK_DEADLOCK FALSE
