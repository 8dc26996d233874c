SPECIFICATION Spec
CONSTANTS
  Esc = Esc
  Bel = Bel
  Cut = Cut
  BodyCap = 1
  PacketSize = 5
  MaxPackets = 20
  Rounds = 4
  Ours = Ours
  Alike = Alike
  Odd = Odd
  None = None
  MaxLine = 6
  MaxInput <- Bounds
INVARIANTS
  FocusReportsAreStripped TitlesAreHeard MessagesComeThrough RepliesAreWhole
  UsersHooksSurvive LinesFit
CHECK_DEADLOCK FALSE
