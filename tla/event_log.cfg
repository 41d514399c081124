\* Two runs of the process, a channel of one, a flush every two records,
\* one fault.
CONSTANTS
  BufferSize = 1
  FlushInterval = 2
  MaxOffers = 6
  Critical = {1, 3, 4}
  MaxSessions = 2
  MaxFaults = 1
SPECIFICATION Spec
INVARIANTS LossBounded OrderlySessionAccounted CountMatchesReplay ReplayInOrder
PROPERTIES ImplementsLossyLog ClosedLogEnds
CHECK_DEADLOCK FALSE
