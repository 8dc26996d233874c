SPECIFICATION FairSpec
CONSTANTS
  Sessions = {s1, s2}
  First = s1
  Modes = 3
  MaxTaps = 2
  MaxKeys = 2
  MaxFocus = 1
  Overlap = FALSE
  None = None
  s1 = s1
  s2 = s2
INVARIANTS EveryShiftTabIsATap LedShowsClaude
PROPERTIES Settles
CHECK_DEADLOCK FALSE
