\* Notices and a prompt of two sessions in each other's way.
SPECIFICATION Spec
CONSTANTS
  h1 = h1
  r1 = r1
  r2 = r2
  r3 = r3
  n1 = n1
  n2 = n2
  n3 = n3
  s1 = s1
  s2 = s2
  bash = bash
  edit = edit
  question = question
  None = None
  Loop = Loop
  Tools = {bash, edit, question}
  UserInputTools = {question}
  Rank <- ByStart
  Requests = {r1}
  Notices = {n1, n2}
  Hooks = {}
  SessionOf <- TwoSessions
  ToolOf <- TwoTools
  Questions = {}
  Blind = {}
  PendingCap = 1
  IdleCap = 2
  Jobs = {}
  Keys = {"allow", "dismiss"}
  World = {}
  Armed = {FALSE}
  MaxInbox = 1
  Sessions = {s1, s2}
INVARIANTS NothingWaitsWhenQuiet OneNoticePerSession
CHECK_DEADLOCK FALSE
