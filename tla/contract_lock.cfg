\* Two markets, a buffer and a cooldown longer than one tick; the clock runs
\* past the last expiry and its buffer.
CONSTANTS
  c1 = c1
  c2 = c2
  Contract = {c1, c2}
  OrderId = {}
  NoOrder = NoOrder
  Expiry <- TwoExpiries
  PostExpiryBuffer = 2
  CooldownDuration = 2
  MaxTime = 8
SPECIFICATION Spec
INVARIANTS TypeOK
PROPERTIES ImplementsService CleanupIsInvisible LocksLapse
CHECK_DEADLOCK FALSE
