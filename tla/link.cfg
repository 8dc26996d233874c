SPECIFICATION FairSpec
CONSTANTS
  Emitters = {e1, e2}
  MaxEdits = 2
  MaxPlugs = 2
  MaxBreaks = 1
  Threshold = 2
  SlowProbe = TRUE
  None = None
  e1 = e1
  e2 = e2
INVARIANTS LinkIsCoherent StatusFollowsLink
PROPERTIES DeadLinkIsDropped DisplayCatchesUp
