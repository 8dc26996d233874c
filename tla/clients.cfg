\* Two REST calls and two apps program the soft keys.
SPECIFICATION Spec
CONSTANTS
  Apps = {a1, a2}
  Calls = {c1, c2}
  Presets = {p1, p2}
  Flaw <- Flaws
  Short = {Factory}
  KeyCount = 2
  MaxJobs = 3
  MaxLate = 2
  MaxCycles = 1
  Factory = Factory
  Custom = Custom
  Invalid = Invalid
  None = None
  a1 = a1
  a2 = a2
  c1 = c1
  c2 = c2
  p1 = p1
  p2 = p2
SYMMETRY Renamings
INVARIANTS PresetIsWhole
PROPERTIES ReadsAreTrue
CHECK_DEADLOCK FALSE
