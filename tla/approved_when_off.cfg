\* A queued prompt is approved after Auto-approve went off.
SPECIFICATION Spec
CONSTANTS
  h1 = h1
  r1 = r1
  r2 = r2
  r3 = r3
  n1 = n1
  n2 = n2
  n3 = n3
  s1 = s1
  s2 = s2
  bash = bash
  edit = edit
  question = question
  None = None
  Loop = Loop
  Tools = {bash, edit, question}
  UserInputTools = {question}
  Rank <- ByStart
  Requests = {r1, r2, r3}
  Notices = {}
  Hooks = {}
  SessionOf <- OneSession
  ToolOf <- TwoTools
  Questions = {}
  Blind = {}
  PendingCap = 2
  IdleCap = 1
  Jobs = {}
  Keys = {"allow"}
  World = {"flip"}
  Armed = {TRUE}
  MaxInbox = 1
  Sessions = {s1, s2}
PROPERTIES ApprovalNeedsAllThree
CHECK_DEADLOCK FALSE
