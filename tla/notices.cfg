\* Notices, focus reports, sessions that move on, and the Claude button.
SPECIFICATION Spec
CONSTANTS
  h1 = h1
  r1 = r1
  r2 = r2
  r3 = r3
  n1 = n1
  n2 = n2
  n3 = n3
  s1 = s1
  s2 = s2
  bash = bash
  edit = edit
  question = question
  None = None
  Loop = Loop
  Tools = {bash, edit, question}
  UserInputTools = {question}
  Rank <- ByStart
  Requests = {}
  Notices = {n1, n2}
  Hooks = {h1}
  SessionOf <- Pairs
  ToolOf <- TwoTools
  Questions = {n2}
  Blind = {}
  PendingCap = 1
  IdleCap = 1
  Jobs = {"focus", "submit"}
  Keys = {"focus"}
  World = {}
  Armed = {FALSE}
  MaxInbox = 1
  Sessions = {s1, s2}
INVARIANTS NothingWaitsWhenQuiet
CHECK_DEADLOCK FALSE
