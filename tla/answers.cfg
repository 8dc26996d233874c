\* Hooks are answered although the device comes and goes and calls are aborted.
SPECIFICATION FairSpec
CONSTANTS
  h1 = h1
  r1 = r1
  r2 = r2
  r3 = r3
  n1 = n1
  n2 = n2
  n3 = n3
  s1 = s1
  s2 = s2
  bash = bash
  edit = edit
  question = question
  None = None
  Loop = Loop
  Tools = {bash, edit, question}
  UserInputTools = {question}
  Rank <- ByStart
  Requests = {r1, r2}
  Notices = {}
  Hooks = {}
  SessionOf <- OneSession
  ToolOf <- TwoTools
  Questions = {}
  Blind = {}
  PendingCap = 1
  IdleCap = 1
  Jobs = {}
  Keys = {"allow"}
  World = {"plug", "hangup"}
  Armed = {FALSE}
  MaxInbox = 2
  Sessions = {s1, s2}
INVARIANTS OneHolder NobodyStranded NoPhantomWhenQuiet
PROPERTIES EveryRequestAnswered
CHECK_DEADLOCK FALSE
