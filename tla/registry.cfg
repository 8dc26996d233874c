SPECIFICATION FairSpec
CONSTANTS
  Wrappers = {1, 2}
  MaxStarts = 3
  MaxConns = 2
  MaxMoves = 1
  MaxCrashes = 1
  RecentMax = 2
  None = None
INVARIANTS TypeOK NewestIsRegistered SwapTogglesBack KnobVisitsAll CacheRestoresBinding
PROPERTIES ReconnectKeepsSession EveryWrapperReturns
CHECK_DEADLOCK FALSE
