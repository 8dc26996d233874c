SPECIFICATION MixSpec
CONSTANTS
  k1 = k1
  shell = shell
  artifact = artifact
  m1 = m1
  m2 = m2
  m3 = m3
  None = None
  Tools = {"Bash", "Agent", "AskUserQuestion", "Monitor", "TodoWrite", "TaskStart", "TaskDone"}
  Tasks = {k1}
  Jobs = {shell, artifact, m1, m2, m3}
  Kind <- Kinds
  MaxTurns = 2
  MaxTools = 2
  MaxParallel = 2
  MaxCompacts = 1
  MonitorCap = 2
INVARIANTS TabTellsWork RestIsClean HeadlineIsTrue BackgroundIsNamed
PROPERTIES RestIsNoticed
CHECK_DEADLOCK FALSE
