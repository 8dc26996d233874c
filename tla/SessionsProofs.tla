--------------------------- MODULE SessionsProofs ---------------------------
(***************************************************************************)
(* The tab tells whether Claude works, a session at rest is clean, the     *)
(* headline is true and background jobs are named: for any tools, tasks,   *)
(* jobs and bounds.                                                        *)
(*                                                                         *)
(* Every hook leaves the session in the state the next one relies on.      *)
(* TableRight says which that is for each of the calls Claude may be       *)
(* waiting for, and how far the daemon's copy of the task list is behind   *)
(* Claude's own while the call is under way.                               *)
(***************************************************************************)
EXTENDS Sessions, FiniteSetTheorems, TLAPS

\* What Claude is at and the call it waits for, as far as the argument needs it.
ClaudeRight ==
  /\ work \in {"new", "rest", "turn", "compact", "ended"}
  /\ used \in Nat /\ running \subseteq Tools
  /\ tasks \subseteq Tasks /\ doing \in tasks \cup {None}
  /\ call = [what |-> call.what, on |-> call.on, seen |-> call.seen]

\* A record of the session table; what is not said here is left as it is.
StateRight ==
  /\ session = [known |-> session.known, active |-> session.active,
                before |-> session.before, tool |-> session.tool, task |-> session.task,
                summary |-> session.summary, count |-> session.count, todo |-> session.todo,
                registry |-> session.registry, pinned |-> session.pinned,
                rows |-> session.rows, background |-> session.background,
                monitors |-> session.monitors]
  /\ session.active \in BOOLEAN /\ session.count \in Nat
  /\ session.pinned \in session.registry \cup {None}

\* A session at rest is clean, call or no call; one that works is in the table.
AtRest ==
  /\ session.active => session.known
  /\ ~session.active =>
       /\ session.tool = None /\ session.task = None /\ session.summary = None
       /\ session.count = 0 /\ ~session.todo

\* The daemon has Claude's task list, but for the task the pending call is about.
TaskListRight ==
  /\ call.what = "TaskCreated" => call.on \in tasks
  /\ call.what = "TaskCompleted" => call.on \in Tasks \ tasks
  /\ work # "ended" =>
       session.registry = IF call.what = "TaskCreated" THEN tasks \ {call.on}
                          ELSE IF call.what = "TaskCompleted" THEN tasks \cup {call.on}
                          ELSE tasks

\* It has pinned the task in progress, but for the one the pending call starts or completes.
Starting == call.what = "PreToolUse" /\ call.on.tool = "TaskStart"
Unpins == call.what = "TaskCompleted" /\ session.pinned = call.on

PinRight ==
  work # "ended" =>
    /\ ~Starting /\ ~Unpins => session.pinned = doing
    /\ Starting => call.on.task = doing /\ doing \in tasks
    /\ Unpins => doing = None

\* The headline of a turn, while it names no compaction.
HeadlineShown ==
  IF doing # None THEN session.task = doing
  ELSE session.task \in {"thinking", None} /\ (running = {} => session.task = "thinking")

\* The display of a compaction, and what the daemon will go back to.
Compacting(then) ==
  /\ session.active /\ session.task = "compacting" /\ running = {}
  /\ then \in {"rest", "turn"}
  /\ session.before <=> then = "turn"
  /\ then = "turn" => session.count = used

\* What the session is while no hook is under way.
FreeRight ==
  /\ work \in {"new", "ended"} => ~session.active
  /\ work = "rest" /\ rest # "interrupted" => ~session.active
  /\ work = "turn" => session.active /\ session.count = used /\ HeadlineShown
  /\ work = "compact" => Compacting(resume)

\* What it is while a call of the turn is: a tool's, or one about the task list.
TurnCall ==
  /\ work = "turn" /\ session.active
  /\ call.what = "PreToolUse" =>
       /\ call.on.tool \in running
       /\ used = session.count + (IF Counted(call.on.tool) THEN 1 ELSE 0)
  /\ call.what # "PreToolUse" => session.count = used
  /\ call.what \in {"TaskCreated", "TaskCompleted"} => running # {}
  /\ call.what = "TaskCreated" \/ (call.what = "TaskCompleted" /\ ~Unpins)
       \/ (call.what = "PreToolUse" /\ call.on.tool = "TodoWrite") => HeadlineShown

\* What it is while the compaction's first call is, before it is shown.
CompactCall ==
  /\ work = "compact" /\ running = {}
  /\ resume \in {"rest", "turn"}
  /\ session.active /\ call.on # "manual" <=> resume = "turn"
  /\ resume = "turn" => session.count = used

\* Whatever Claude waits for finds the session as the turn left it.
CallRight ==
  \/ Free /\ FreeRight
  \/ call.what = "SessionStart" /\ call.on = "startup" /\ work = "rest" /\ ~session.active
  \/ call.what = "SessionStart" /\ call.on = "compact" /\ Compacting(work)
  \/ call.what = "UserPromptSubmit" /\ work = "turn" /\ used = 0
  \/ call.what \in {"PreToolUse", "PostToolUse", "TaskCreated", "TaskCompleted"} /\ TurnCall
  \/ call.what = "PreCompact" /\ CompactCall
  \/ call.what \in {"Stop", "Notification"} /\ work = "rest"
  \/ call.what = "SessionEnd" /\ work = "ended"

TableRight ==
  ClaudeRight /\ StateRight /\ AtRest /\ TaskListRight /\ PinRight /\ CallRight

-----------------------------------------------------------------------------
\* What Claude does, one lemma per action.

\* Claude starts: the daemon hears of the session before it works.
LEMMA BeginKeeps ==
  ASSUME TableRight, Begin
  PROVE  TableRight'
<1>1. ClaudeRight'
  BY SessionsAssumption DEF TableRight, ClaudeRight, Begin, Calls
<1>2. StateRight' /\ AtRest'
  BY DEF TableRight, StateRight, AtRest, Begin
<1>3. TaskListRight'
  BY DEF TableRight, TaskListRight, Begin, Calls, Free, NoCall
<1>4. PinRight'
  BY SessionsAssumption DEF TableRight, PinRight, Starting, Unpins, Begin, Calls, Free, NoCall
<1>5. CallRight'
  BY SessionsAssumption DEF TableRight, CallRight, FreeRight, Begin, Calls, Free, NoCall
<1>6. QED
  BY <1>1, <1>2, <1>3, <1>4, <1>5 DEF TableRight

\* A prompt: whatever is left of the turn before waits for the call to wipe it.
LEMMA SubmitKeeps ==
  ASSUME TableRight, Submit
  PROVE  TableRight'
<1>1. ClaudeRight'
  BY SessionsAssumption DEF TableRight, ClaudeRight, Submit, Calls
<1>2. StateRight' /\ AtRest'
  BY DEF TableRight, StateRight, AtRest, Submit
<1>3. TaskListRight'
  BY DEF TableRight, TaskListRight, Submit, Calls, Free, NoCall
<1>4. PinRight'
  BY SessionsAssumption DEF TableRight, PinRight, Starting, Unpins, Submit, Calls, Free, NoCall
<1>5. CallRight'
  BY SessionsAssumption DEF CallRight, Submit, Calls
<1>6. QED
  BY <1>1, <1>2, <1>3, <1>4, <1>5 DEF TableRight

\* A tool starts.
LEMMA UseToolKeeps ==
  ASSUME TableRight, NEW t \in Tools, UseTool(t)
  PROVE  TableRight'
<1>1. ClaudeRight'
  BY SessionsAssumption DEF TableRight, ClaudeRight, UseTool, Calls
<1>2. StateRight' /\ AtRest'
  BY DEF TableRight, StateRight, AtRest, UseTool
<1>3. TaskListRight'
  BY DEF TableRight, TaskListRight, UseTool, Calls, Free, NoCall
<1>4. PinRight'
  BY SessionsAssumption DEF TableRight, PinRight, Starting, Unpins, UseTool, Calls, Free, NoCall
<1>5. CallRight'
  BY SessionsAssumption
    DEF TableRight, CallRight, FreeRight, TurnCall, HeadlineShown, UseTool, Calls, Free, NoCall
<1>6. QED
  BY <1>1, <1>2, <1>3, <1>4, <1>5 DEF TableRight

\* A tool ends, perhaps with a job left behind.
LEMMA EndToolKeeps ==
  ASSUME TableRight, NEW t \in Tools, EndTool(t)
  PROVE  TableRight'
<1>1. ClaudeRight'
  BY SessionsAssumption DEF TableRight, ClaudeRight, EndTool, Calls
<1>2. StateRight' /\ AtRest'
  BY DEF TableRight, StateRight, AtRest, EndTool
<1>3. TaskListRight'
  BY DEF TableRight, TaskListRight, EndTool, Calls, Free, NoCall
<1>4. PinRight'
  BY SessionsAssumption DEF TableRight, PinRight, Starting, Unpins, EndTool, Calls, Free, NoCall
<1>5. CallRight'
  BY SessionsAssumption
    DEF TableRight, CallRight, FreeRight, TurnCall, EndTool, Calls, Free, NoCall
<1>6. QED
  BY <1>1, <1>2, <1>3, <1>4, <1>5 DEF TableRight

\* A task is created: until its call is handled the daemon has one less.
LEMMA CreateTaskKeeps ==
  ASSUME TableRight, NEW k \in Tasks, CreateTask(k)
  PROVE  TableRight'
<1>1. ClaudeRight'
  BY SessionsAssumption DEF TableRight, ClaudeRight, CreateTask, Calls
<1>2. StateRight' /\ AtRest'
  BY DEF TableRight, StateRight, AtRest, CreateTask
<1>3. TaskListRight'
  BY DEF TableRight, TaskListRight, CreateTask, Calls, Free, NoCall
<1>4. PinRight'
  BY SessionsAssumption
    DEF TableRight, PinRight, Starting, Unpins, CreateTask, Calls, Free, NoCall
<1>5. CallRight'
  BY SessionsAssumption
    DEF TableRight, CallRight, FreeRight, TurnCall, HeadlineShown, CreateTask, Calls, Free, NoCall
<1>6. QED
  BY <1>1, <1>2, <1>3, <1>4, <1>5 DEF TableRight

\* A task is completed: until its call is handled the daemon has one more.
LEMMA CompleteTaskKeeps ==
  ASSUME TableRight, NEW k \in Tasks, CompleteTask(k)
  PROVE  TableRight'
<1>1. ClaudeRight'
  BY SessionsAssumption DEF TableRight, ClaudeRight, CompleteTask, Calls
<1>2. StateRight' /\ AtRest'
  BY DEF TableRight, StateRight, AtRest, CompleteTask
<1>3. TaskListRight'
  BY DEF TableRight, TaskListRight, CompleteTask, Calls, Free, NoCall
<1>4. PinRight'
  BY SessionsAssumption
    DEF TableRight, PinRight, Starting, Unpins, CompleteTask, Calls, Free, NoCall
<1>5. CallRight'
  BY SessionsAssumption
    DEF TableRight, PinRight, CallRight, FreeRight, TurnCall, HeadlineShown, Starting, Unpins,
        CompleteTask, Calls, Free, NoCall
<1>6. QED
  BY <1>1, <1>2, <1>3, <1>4, <1>5 DEF TableRight

\* A background job ends on its own.
LEMMA JobEndsKeeps ==
  ASSUME TableRight, NEW j \in Jobs, JobEnds(j)
  PROVE  TableRight'
<1>1. ClaudeRight'
  BY SessionsAssumption DEF TableRight, ClaudeRight, JobEnds
<1>2. StateRight' /\ AtRest'
  BY DEF TableRight, StateRight, AtRest, JobEnds
<1>3. TaskListRight'
  BY DEF TableRight, TaskListRight, JobEnds
<1>4. PinRight'
  BY SessionsAssumption DEF TableRight, PinRight, Starting, Unpins, JobEnds
<1>5. CallRight'
  BY SessionsAssumption
    DEF TableRight, CallRight, FreeRight, TurnCall, CompactCall, Compacting, HeadlineShown,
        Unpins, JobEnds, Free
<1>6. QED
  BY <1>1, <1>2, <1>3, <1>4, <1>5 DEF TableRight

\* The turn is over.
LEMMA FinishKeeps ==
  ASSUME TableRight, Finish
  PROVE  TableRight'
<1>1. ClaudeRight'
  BY SessionsAssumption DEF TableRight, ClaudeRight, Finish, Calls
<1>2. StateRight' /\ AtRest'
  BY DEF TableRight, StateRight, AtRest, Finish
<1>3. TaskListRight'
  BY DEF TableRight, TaskListRight, Finish, Calls, Free, NoCall
<1>4. PinRight'
  BY SessionsAssumption DEF TableRight, PinRight, Starting, Unpins, Finish, Calls, Free, NoCall
<1>5. CallRight'
  BY SessionsAssumption DEF CallRight, Finish, Calls
<1>6. QED
  BY <1>1, <1>2, <1>3, <1>4, <1>5 DEF TableRight

\* The user interrupts: nobody tells the daemon.
LEMMA InterruptKeeps ==
  ASSUME TableRight, Interrupt
  PROVE  TableRight'
<1>1. ClaudeRight'
  BY SessionsAssumption DEF TableRight, ClaudeRight, Interrupt
<1>2. StateRight' /\ AtRest'
  BY DEF TableRight, StateRight, AtRest, Interrupt
<1>3. TaskListRight'
  BY DEF TableRight, TaskListRight, Interrupt
<1>4. PinRight'
  BY SessionsAssumption DEF TableRight, PinRight, Starting, Unpins, Interrupt
<1>5. CallRight'
  BY SessionsAssumption DEF CallRight, FreeRight, Interrupt, Free
<1>6. QED
  BY <1>1, <1>2, <1>3, <1>4, <1>5 DEF TableRight

\* Claude says that it waits.
LEMMA NotifyKeeps ==
  ASSUME TableRight, Notify
  PROVE  TableRight'
<1>1. ClaudeRight'
  BY SessionsAssumption DEF TableRight, ClaudeRight, Notify, Calls
<1>2. StateRight' /\ AtRest'
  BY DEF TableRight, StateRight, AtRest, Notify
<1>3. TaskListRight'
  BY DEF TableRight, TaskListRight, Notify, Calls, Free, NoCall
<1>4. PinRight'
  BY SessionsAssumption DEF TableRight, PinRight, Starting, Unpins, Notify, Calls, Free, NoCall
<1>5. CallRight'
  BY SessionsAssumption DEF CallRight, Notify, Calls
<1>6. QED
  BY <1>1, <1>2, <1>3, <1>4, <1>5 DEF TableRight

\* Claude starts a compaction, which goes back to what it is at.
LEMMA CompactKeeps ==
  ASSUME TableRight, NEW trigger \in {"manual", "auto"}, Compact(trigger)
  PROVE  TableRight'
<1>1. ClaudeRight'
  BY SessionsAssumption DEF TableRight, ClaudeRight, Compact, Calls
<1>2. StateRight' /\ AtRest'
  BY DEF TableRight, StateRight, AtRest, Compact
<1>3. TaskListRight'
  BY DEF TableRight, TaskListRight, Compact, Calls, Free, NoCall
<1>4. PinRight'
  BY SessionsAssumption DEF TableRight, PinRight, Starting, Unpins, Compact, Calls, Free, NoCall
<1>5. CallRight'
  BY SessionsAssumption
    DEF TableRight, CallRight, FreeRight, CompactCall, Compact, Calls, Free, NoCall
<1>6. QED
  BY <1>1, <1>2, <1>3, <1>4, <1>5 DEF TableRight

\* The compaction is over.
LEMMA CompactedKeeps ==
  ASSUME TableRight, Compacted
  PROVE  TableRight'
<1>1. ClaudeRight'
  BY SessionsAssumption
    DEF TableRight, ClaudeRight, CallRight, FreeRight, Compacting, NoCall, Compacted, Calls, Free
<1>2. StateRight' /\ AtRest'
  BY DEF TableRight, StateRight, AtRest, Compacted
<1>3. TaskListRight'
  BY DEF TableRight, TaskListRight, Compacted, Calls, Free, NoCall
<1>4. PinRight'
  BY SessionsAssumption DEF TableRight, PinRight, Starting, Unpins, Compacted, Calls, Free, NoCall
<1>5. CallRight'
  BY SessionsAssumption
    DEF TableRight, CallRight, FreeRight, Compacting, Compacted, Calls, Free, NoCall
<1>6. QED
  BY <1>1, <1>2, <1>3, <1>4, <1>5 DEF TableRight

\* Claude ends.
LEMMA EndKeeps ==
  ASSUME TableRight, End
  PROVE  TableRight'
<1>1. ClaudeRight'
  BY SessionsAssumption DEF TableRight, ClaudeRight, End, Calls
<1>2. StateRight' /\ AtRest'
  BY DEF TableRight, StateRight, AtRest, End
<1>3. TaskListRight'
  BY DEF TaskListRight, End, Calls
<1>4. PinRight'
  BY SessionsAssumption DEF PinRight, End
<1>5. CallRight'
  BY SessionsAssumption DEF CallRight, End, Calls
<1>6. QED
  BY <1>1, <1>2, <1>3, <1>4, <1>5 DEF TableRight

\* The agent panel ticks.
LEMMA PanelKeeps ==
  ASSUME TableRight, Panel
  PROVE  TableRight'
<1>1. ClaudeRight'
  BY SessionsAssumption DEF TableRight, ClaudeRight, Panel, claudeVars
<1>2. StateRight' /\ AtRest'
  BY DEF TableRight, StateRight, AtRest, Panel
<1>3. TaskListRight'
  BY DEF TableRight, TaskListRight, Panel, claudeVars
<1>4. PinRight'
  BY SessionsAssumption DEF TableRight, PinRight, Starting, Unpins, Panel, claudeVars
<1>5. CallRight'
  BY SessionsAssumption
    DEF TableRight, CallRight, FreeRight, TurnCall, CompactCall, Compacting, HeadlineShown,
        Unpins, Panel, Free, claudeVars
<1>6. QED
  BY <1>1, <1>2, <1>3, <1>4, <1>5 DEF TableRight

-----------------------------------------------------------------------------
\* What the daemon does with a call or a tick.

\* A hook touches its session.
LEMMA TouchKeeps ==
  ASSUME TableRight, Touch
  PROVE  TableRight'
<1>1. ClaudeRight'
  BY DEF TableRight, ClaudeRight, Touch, claudeVars
<1>2. StateRight'
  BY SessionsAssumption DEF TableRight, StateRight, Touch, Touched
<1>3. AtRest'
  BY DEF TableRight, AtRest, Touch, Touched
<1>4. TaskListRight'
  BY DEF TableRight, TaskListRight, claudeVars, Touch, Touched
<1>5. PinRight'
  BY SessionsAssumption DEF TableRight, PinRight, Starting, Unpins, claudeVars, Touch, Touched
<1>6. CallRight'
  BY SessionsAssumption
    DEF TableRight, CallRight, TurnCall, CompactCall, Compacting, HeadlineShown, Unpins,
        claudeVars, Touch, Touched
<1>7. QED
  BY <1>1, <1>2, <1>3, <1>4, <1>5, <1>6 DEF TableRight

\* The rows of the panel are replaced.
LEMMA HandleTickKeeps ==
  ASSUME TableRight, HandleTick
  PROVE  TableRight'
<1>1. ClaudeRight'
  BY DEF TableRight, ClaudeRight, HandleTick, claudeVars
<1>2. StateRight'
  BY SessionsAssumption DEF TableRight, StateRight, HandleTick, Touched
<1>3. AtRest'
  BY DEF TableRight, AtRest, HandleTick, Touched
<1>4. TaskListRight'
  BY DEF TableRight, TaskListRight, claudeVars, HandleTick, Touched
<1>5. PinRight'
  BY SessionsAssumption
    DEF TableRight, PinRight, Starting, Unpins, claudeVars, HandleTick, Touched
<1>6. CallRight'
  BY SessionsAssumption
    DEF TableRight, CallRight, FreeRight, TurnCall, CompactCall, Compacting, HeadlineShown,
        Unpins, Free, claudeVars, HandleTick, Touched
<1>7. QED
  BY <1>1, <1>2, <1>3, <1>4, <1>5, <1>6 DEF TableRight

\* A new turn is shown.
LEMMA HandleUserPromptSubmitKeeps ==
  ASSUME TableRight, HandleUserPromptSubmit
  PROVE  TableRight'
<1>1. ClaudeRight'
  BY DEF TableRight, ClaudeRight, HandleUserPromptSubmit, Answers, NoCall, claudeVars
<1>2. StateRight'
  BY SessionsAssumption DEF TableRight, StateRight, HandleUserPromptSubmit, Touched, NewTurn
<1>3. AtRest'
  BY DEF AtRest, HandleUserPromptSubmit, Touched, NewTurn
<1>4. TaskListRight'
  BY DEF TableRight, TaskListRight, NoCall, claudeVars, HandleUserPromptSubmit, Answers, Touched,
         NewTurn
<1>5. PinRight'
  BY SessionsAssumption
    DEF TableRight, PinRight, Starting, Unpins, NoCall, claudeVars, HandleUserPromptSubmit,
        Answers, Touched, NewTurn
<1>6. CallRight'
  BY SessionsAssumption
    DEF TableRight, ClaudeRight, TaskListRight, PinRight, CallRight, FreeRight, HeadlineShown,
        Starting, Unpins, Free, claudeVars, HandleUserPromptSubmit, Answers, Touched, NewTurn,
        Headline
<1>7. QED
  BY <1>1, <1>2, <1>3, <1>4, <1>5, <1>6 DEF TableRight

\* The todo list is shown.
LEMMA HandleTodoWriteKeeps ==
  ASSUME TableRight, HandleTodoWrite
  PROVE  TableRight'
<1>1. ClaudeRight'
  BY DEF TableRight, ClaudeRight, HandleTodoWrite, Answers, NoCall, claudeVars
<1>2. StateRight'
  BY SessionsAssumption DEF TableRight, StateRight, HandleTodoWrite, Touched
<1>3. AtRest'
  BY DEF AtRest, HandleTodoWrite, Touched
<1>4. TaskListRight'
  BY DEF TableRight, TaskListRight, NoCall, claudeVars, HandleTodoWrite, Answers, Touched
<1>5. PinRight'
  BY SessionsAssumption
    DEF TableRight, PinRight, Starting, Unpins, NoCall, claudeVars, HandleTodoWrite, Answers,
        Touched
<1>6. CallRight'
  BY SessionsAssumption
    DEF TableRight, StateRight, CallRight, FreeRight, TurnCall, HeadlineShown, Counted, Free,
        claudeVars, HandleTodoWrite, Answers, Touched
<1>7. QED
  BY <1>1, <1>2, <1>3, <1>4, <1>5, <1>6 DEF TableRight

\* The task in progress is pinned.
LEMMA HandleTaskStartKeeps ==
  ASSUME TableRight, HandleTaskStart
  PROVE  TableRight'
<1>1. ClaudeRight'
  BY DEF TableRight, ClaudeRight, HandleTaskStart, Answers, NoCall, claudeVars
<1>2. StateRight'
  BY SessionsAssumption DEF TableRight, StateRight, HandleTaskStart, Touched
<1>3. AtRest'
  BY DEF TableRight, AtRest, HandleTaskStart, Touched
<1>4. TaskListRight'
  BY DEF TableRight, TaskListRight, NoCall, claudeVars, HandleTaskStart, Answers, Touched
<1>5. PinRight'
  BY SessionsAssumption
    DEF TableRight, TaskListRight, PinRight, Starting, Unpins, NoCall, claudeVars,
        HandleTaskStart, Answers, Touched
<1>6. CallRight'
  BY SessionsAssumption
    DEF TableRight, StateRight, TaskListRight, PinRight, CallRight, FreeRight, TurnCall,
        HeadlineShown, Starting, Counted, Free, claudeVars, HandleTaskStart, Answers, Touched
<1>7. QED
  BY <1>1, <1>2, <1>3, <1>4, <1>5, <1>6 DEF TableRight

\* The tool is shown and counted.
LEMMA HandlePreToolUseKeeps ==
  ASSUME TableRight, HandlePreToolUse
  PROVE  TableRight'
<1>1. ClaudeRight'
  BY DEF TableRight, ClaudeRight, HandlePreToolUse, Answers, NoCall, claudeVars
<1>2. StateRight'
  BY SessionsAssumption
    DEF TableRight, ClaudeRight, StateRight, CallRight, TurnCall, HandlePreToolUse, Answers,
        Touched
<1>3. AtRest'
  BY DEF AtRest, HandlePreToolUse, Touched
<1>4. TaskListRight'
  BY DEF TableRight, TaskListRight, NoCall, claudeVars, HandlePreToolUse, Answers, Touched
<1>5. PinRight'
  BY SessionsAssumption
    DEF TableRight, PinRight, Starting, Unpins, NoCall, claudeVars, Counted, HandlePreToolUse,
        Answers, Touched
<1>6. CallRight'
  BY SessionsAssumption
    DEF TableRight, ClaudeRight, TaskListRight, PinRight, CallRight, FreeRight, TurnCall,
        HeadlineShown, Starting, Unpins, Counted, Free, claudeVars, HandlePreToolUse, Answers,
        Touched, Headline
<1>7. QED
  BY <1>1, <1>2, <1>3, <1>4, <1>5, <1>6 DEF TableRight

\* The tool is off the display.
LEMMA HandlePostToolUseKeeps ==
  ASSUME TableRight, HandlePostToolUse
  PROVE  TableRight'
<1>1. ClaudeRight'
  BY DEF TableRight, ClaudeRight, HandlePostToolUse, Answers, NoCall, claudeVars
<1>2. StateRight'
  BY SessionsAssumption DEF TableRight, StateRight, HandlePostToolUse, Touched
<1>3. AtRest'
  BY DEF TableRight, AtRest, CallRight, TurnCall, HandlePostToolUse, Answers, Touched
<1>4. TaskListRight'
  BY DEF TableRight, TaskListRight, NoCall, claudeVars, HandlePostToolUse, Answers, Touched
<1>5. PinRight'
  BY SessionsAssumption
    DEF TableRight, PinRight, Starting, Unpins, NoCall, claudeVars, HandlePostToolUse, Answers,
        Touched
<1>6. CallRight'
  BY SessionsAssumption
    DEF TableRight, ClaudeRight, TaskListRight, PinRight, CallRight, FreeRight, TurnCall,
        HeadlineShown, Starting, Unpins, Free, claudeVars, HandlePostToolUse, Answers, Touched,
        Headline
<1>7. QED
  BY <1>1, <1>2, <1>3, <1>4, <1>5, <1>6 DEF TableRight

\* A Stop settles the session.
LEMMA HandleStopKeeps ==
  ASSUME TableRight, HandleStop
  PROVE  TableRight'
<1>1. ClaudeRight'
  BY DEF TableRight, ClaudeRight, HandleStop, Answers, NoCall, claudeVars
<1>2. StateRight'
  BY SessionsAssumption DEF TableRight, StateRight, HandleStop, Touched, Stopped, Settled
<1>3. AtRest'
  BY DEF AtRest, HandleStop, Stopped, Settled
<1>4. TaskListRight'
  BY DEF TableRight, TaskListRight, NoCall, claudeVars, HandleStop, Answers, Touched, Stopped,
         Settled
<1>5. PinRight'
  BY SessionsAssumption
    DEF TableRight, PinRight, Starting, Unpins, NoCall, claudeVars, HandleStop, Answers, Touched,
        Stopped, Settled
<1>6. CallRight'
  BY SessionsAssumption
    DEF TableRight, CallRight, FreeRight, Free, claudeVars, HandleStop, Answers, Stopped, Settled
<1>7. QED
  BY <1>1, <1>2, <1>3, <1>4, <1>5, <1>6 DEF TableRight

\* So does the idle notification.
LEMMA HandleNotificationKeeps ==
  ASSUME TableRight, HandleNotification
  PROVE  TableRight'
<1>1. ClaudeRight'
  BY DEF TableRight, ClaudeRight, HandleNotification, Answers, NoCall, claudeVars
<1>2. StateRight'
  BY SessionsAssumption DEF TableRight, StateRight, HandleNotification, Touched, Stopped, Settled
<1>3. AtRest'
  BY DEF AtRest, HandleNotification, Stopped, Settled
<1>4. TaskListRight'
  BY DEF TableRight, TaskListRight, NoCall, claudeVars, HandleNotification, Answers, Touched,
         Stopped, Settled
<1>5. PinRight'
  BY SessionsAssumption
    DEF TableRight, PinRight, Starting, Unpins, NoCall, claudeVars, HandleNotification, Answers,
        Touched, Stopped, Settled
<1>6. CallRight'
  BY SessionsAssumption
    DEF TableRight, CallRight, FreeRight, Free, claudeVars, HandleNotification, Answers, Stopped,
        Settled
<1>7. QED
  BY <1>1, <1>2, <1>3, <1>4, <1>5, <1>6 DEF TableRight

\* A start, or the end of a compaction.
LEMMA HandleSessionStartKeeps ==
  ASSUME TableRight, HandleSessionStart
  PROVE  TableRight'
<1>1. ClaudeRight'
  BY DEF TableRight, ClaudeRight, HandleSessionStart, Answers, NoCall, claudeVars
<1>2. StateRight'
  BY SessionsAssumption DEF TableRight, StateRight, HandleSessionStart, Touched, Settled
<1>3. AtRest'
  BY DEF TableRight, AtRest, HandleSessionStart, Touched, Settled
<1>4. TaskListRight'
  BY DEF TableRight, TaskListRight, NoCall, claudeVars, HandleSessionStart, Answers, Touched,
         Settled
<1>5. PinRight'
  BY SessionsAssumption
    DEF TableRight, PinRight, Starting, Unpins, NoCall, claudeVars, HandleSessionStart, Answers,
        Touched, Settled
<1>6. CallRight'
  BY SessionsAssumption
    DEF TableRight, ClaudeRight, TaskListRight, PinRight, CallRight, FreeRight, Compacting,
        HeadlineShown, Starting, Unpins, Free, claudeVars, HandleSessionStart, Answers, Touched,
        Resumes, Settled, Headline
<1>7. QED
  BY <1>1, <1>2, <1>3, <1>4, <1>5, <1>6 DEF TableRight

\* A compaction is shown.
LEMMA HandlePreCompactKeeps ==
  ASSUME TableRight, HandlePreCompact
  PROVE  TableRight'
<1>1. ClaudeRight'
  BY DEF TableRight, ClaudeRight, HandlePreCompact, Answers, NoCall, claudeVars
<1>2. StateRight'
  BY SessionsAssumption DEF TableRight, StateRight, HandlePreCompact, Touched
<1>3. AtRest'
  BY DEF AtRest, HandlePreCompact, Touched
<1>4. TaskListRight'
  BY DEF TableRight, TaskListRight, NoCall, claudeVars, HandlePreCompact, Answers, Touched
<1>5. PinRight'
  BY SessionsAssumption
    DEF TableRight, PinRight, Starting, Unpins, NoCall, claudeVars, HandlePreCompact, Answers,
        Touched
<1>6. CallRight'
  BY SessionsAssumption
    DEF TableRight, StateRight, CallRight, FreeRight, CompactCall, Compacting, Free, claudeVars,
        HandlePreCompact, Answers, Touched
<1>7. QED
  BY <1>1, <1>2, <1>3, <1>4, <1>5, <1>6 DEF TableRight

\* The session is forgotten.
LEMMA HandleSessionEndKeeps ==
  ASSUME TableRight, HandleSessionEnd
  PROVE  TableRight'
<1>1. ClaudeRight'
  BY DEF TableRight, ClaudeRight, HandleSessionEnd, Answers, NoCall, claudeVars
<1>2. StateRight'
  BY SessionsAssumption DEF StateRight, HandleSessionEnd, Blank
<1>3. AtRest'
  BY DEF AtRest, HandleSessionEnd, Blank
<1>4. TaskListRight'
  BY DEF TableRight, TaskListRight, CallRight, NoCall, claudeVars, HandleSessionEnd, Answers
<1>5. PinRight'
  BY SessionsAssumption DEF TableRight, PinRight, CallRight, claudeVars, HandleSessionEnd, Answers
<1>6. CallRight'
  BY SessionsAssumption
    DEF TableRight, CallRight, FreeRight, Free, claudeVars, HandleSessionEnd, Answers, Blank
<1>7. QED
  BY <1>1, <1>2, <1>3, <1>4, <1>5, <1>6 DEF TableRight

\* The new task is registered.
LEMMA HandleTaskCreatedKeeps ==
  ASSUME TableRight, HandleTaskCreated
  PROVE  TableRight'
<1>1. ClaudeRight'
  BY DEF TableRight, ClaudeRight, HandleTaskCreated, Answers, NoCall, claudeVars
<1>2. StateRight'
  BY SessionsAssumption DEF TableRight, StateRight, HandleTaskCreated, Touched
<1>3. AtRest'
  BY DEF TableRight, AtRest, HandleTaskCreated, Touched
<1>4. TaskListRight'
  BY DEF TableRight, TaskListRight, NoCall, claudeVars, HandleTaskCreated, Answers, Touched
<1>5. PinRight'
  BY SessionsAssumption
    DEF TableRight, PinRight, Starting, Unpins, NoCall, claudeVars, HandleTaskCreated, Answers,
        Touched
<1>6. CallRight'
  BY SessionsAssumption
    DEF TableRight, CallRight, FreeRight, TurnCall, HeadlineShown, Free, claudeVars,
        HandleTaskCreated, Answers, Touched
<1>7. QED
  BY <1>1, <1>2, <1>3, <1>4, <1>5, <1>6 DEF TableRight

\* The completed task goes, and its pin with it.
LEMMA HandleTaskCompletedKeeps ==
  ASSUME TableRight, HandleTaskCompleted
  PROVE  TableRight'
<1>1. ClaudeRight'
  BY DEF TableRight, ClaudeRight, HandleTaskCompleted, Answers, NoCall, claudeVars
<1>2. StateRight'
  BY SessionsAssumption DEF TableRight, StateRight, HandleTaskCompleted, Touched, PinnedAfter
<1>3. AtRest'
  BY DEF TableRight, AtRest, HandleTaskCompleted, Touched
<1>4. TaskListRight'
  BY DEF TableRight, TaskListRight, NoCall, claudeVars, HandleTaskCompleted, Answers, Touched
<1>5. PinRight'
  BY SessionsAssumption
    DEF TableRight, PinRight, Starting, Unpins, NoCall, claudeVars, HandleTaskCompleted, Answers,
        Touched, PinnedAfter
<1>6. CallRight'
  BY SessionsAssumption
    DEF TableRight, PinRight, CallRight, FreeRight, TurnCall, HeadlineShown, Unpins, Free,
        claudeVars, HandleTaskCompleted, Answers, Touched
<1>7. QED
  BY <1>1, <1>2, <1>3, <1>4, <1>5, <1>6 DEF TableRight

-----------------------------------------------------------------------------
\* The first state.
LEMMA InitTable == Init => TableRight
BY DEF Init, Blank, NoCall, TableRight, ClaudeRight, StateRight, AtRest, TaskListRight, PinRight,
       Starting, CallRight, Free, FreeRight

\* Every step keeps the table right.
LEMMA NextKeepsTable ==
  ASSUME TableRight, [Next]_vars
  PROVE  TableRight'
<1>1. CASE Claude
  BY <1>1, BeginKeeps, SubmitKeeps, UseToolKeeps, EndToolKeeps, CreateTaskKeeps,
     CompleteTaskKeeps, FinishKeeps, InterruptKeeps, NotifyKeeps, CompactKeeps, CompactedKeeps,
     EndKeeps DEF Claude
<1>2. CASE Handler
  BY <1>2, HandleUserPromptSubmitKeeps, HandleTodoWriteKeeps, HandleTaskStartKeeps,
     HandlePreToolUseKeeps, HandlePostToolUseKeeps, HandleStopKeeps, HandleNotificationKeeps,
     HandleSessionStartKeeps, HandlePreCompactKeeps, HandleSessionEndKeeps,
     HandleTaskCreatedKeeps, HandleTaskCompletedKeeps DEF Handler
<1>3. CASE Panel \/ Touch \/ HandleTick
  BY <1>3, PanelKeeps, TouchKeeps, HandleTickKeeps
<1>4. CASE \E j \in Jobs : JobEnds(j)
  BY <1>4, JobEndsKeeps
<1>5. CASE UNCHANGED vars
  BY <1>5
    DEF vars, claudeVars, TableRight, ClaudeRight, StateRight, AtRest, TaskListRight, PinRight,
        Starting, Unpins, CallRight, Free, FreeRight, TurnCall, CompactCall, Compacting,
        HeadlineShown
<1>6. QED
  BY <1>1, <1>2, <1>3, <1>4, <1>5 DEF Next

\* In every behaviour the session is what the pending call needs it to be.
LEMMA TableIsRight == Spec => []TableRight
<1>1. TableRight /\ [Next]_vars => TableRight'
  BY NextKeepsTable
<1>2. QED
  BY InitTable, <1>1, PTL DEF Spec

-----------------------------------------------------------------------------
\* Whenever Claude waits for no hook, the tab says whether it works, through compactions,
\* failed turns and parallel tools; for any tools, tasks, jobs and bounds (the state that
\* tab_state_for in src/crates/coredeck/src/state.rs derives from what the hooks left).
THEOREM TabTells == Spec => []TabTellsWork
<1>1. TableRight => TabTellsWork
  <2> SUFFICES ASSUME TableRight, Free, work \in {"rest", "turn", "compact"},
                      ~(work = "rest" /\ rest = "interrupted")
               PROVE  TabState = "working" <=> work # "rest"
    BY DEF TabTellsWork
  <2>1. session.active <=> work # "rest"
    BY DEF TableRight, CallRight, Free, NoCall, FreeRight, Compacting
  <2>2. session.active => session.known
    BY DEF TableRight, AtRest
  <2>3. QED
    BY <2>1, <2>2 DEF TabState
<1>2. QED
  BY <1>1, TableIsRight, PTL

\* A session at rest keeps nothing of its last turn on the display, and the tools counted in
\* a turn are those of this turn (settle_idle and the handlers of
\* src/crates/coredeck/src/hooks.rs).
THEOREM RestsClean == Spec => []RestIsClean
<1>1. TableRight => RestIsClean
  BY DEF RestIsClean, TableRight, AtRest, CallRight, Free, NoCall, FreeRight
<1>2. QED
  BY <1>1, TableIsRight, PTL

\* The headline names the task in progress all through its turns, and "Compacting" only while
\* Claude compacts; no task is pinned that the session does not have (turn_headline in
\* src/crates/coredeck/src/hooks.rs).
THEOREM HeadlineTrue == Spec => []HeadlineIsTrue
<1>1. TableRight => HeadlineIsTrue
  <2> SUFFICES ASSUME TableRight
               PROVE  HeadlineIsTrue
    OBVIOUS
  <2>1. session.pinned \in session.registry \cup {None}
    BY DEF TableRight, StateRight
  <2>2. ASSUME Free, session.active, ~(work = "rest" /\ rest = "interrupted")
        PROVE  \/ work = "turn" /\ HeadlineShown
               \/ work = "compact" /\ session.task = "compacting"
    BY <2>2 DEF TableRight, ClaudeRight, CallRight, Free, NoCall, FreeRight, Compacting
  <2>3. doing \in Tasks \cup {None}
    BY DEF TableRight, ClaudeRight
  <2>4. QED
    BY <2>1, <2>2, <2>3, SessionsAssumption DEF HeadlineIsTrue, HeadlineShown
<1>2. QED
  BY <1>1, TableIsRight, PTL

-----------------------------------------------------------------------------
\* What runs in the background, and what the daemon knows of it.
Monitors == {j \in Jobs : Kind[j] = "monitor"}

\* A monitor given up for MonitorCap newer ones.
Forgotten(j) == Cardinality(Newer(j)) >= MonitorCap

Noted(j) ==
  j \in session.monitors.in \/ Forgotten(j) \/ (call.what = "PostToolUse" /\ call.on.job = j)

Named(p) == p[2] = Kind[p[1]] \/ (Kind[p[1]] = "monitor" /\ p[2] = "shell" /\ Forgotten(p[1]))
AllNamed == \A i \in DOMAIN session.background : Named(session.background[i])

\* The ids kept are in the order the monitors were started in, the one on its way last.
IdsInOrder ==
  /\ \A a, b \in session.monitors.in :
       a # b => b \in Newer(a) \/ <<b, a>> \in session.monitors.ahead
  /\ call.what = "PostToolUse" /\ call.on.job # None =>
       \A a \in session.monitors.in : a # call.on.job => call.on.job \in Newer(a)

\* Every monitor that runs has been noted, or is about to be, or was given up, and the list
\* of jobs of the last Stop calls each by its kind.
JobsKnown ==
  /\ started.in \subseteq Jobs /\ jobs \subseteq started.in
  /\ session.monitors.in \subseteq Monitors \cap started.in
  /\ call.what = "PostToolUse" => call.on.job \in (Monitors \cap started.in) \cup {None}
  /\ work # "ended" => \A j \in jobs \cap Monitors : Noted(j)
  /\ call.what = "Stop" /\ call.on # None =>
       /\ jobs \subseteq call.on /\ call.on \subseteq started.in
       /\ \A j \in call.on \cap Monitors : j \in session.monitors.in \/ Forgotten(j)
  /\ AllNamed /\ IdsInOrder

\* What leaves jobs and lists alone, and neither makes nor answers one of their calls.
LEMMA JobsStay ==
  ASSUME JobsKnown, jobs' = jobs, started' = started, work' # "ended" => work # "ended",
         session'.monitors = session.monitors, session'.background = session.background,
         \/ call'.what = call.what /\ call'.on = call.on
         \/ call.what # "PostToolUse" /\ call'.what \notin {"PostToolUse", "Stop"}
  PROVE  JobsKnown'
BY DEF JobsKnown, IdsInOrder, AllNamed, Named, Noted, Forgotten, Newer

\* Newer monitors only get more.
LEMMA NewerGrows ==
  ASSUME started'.in \subseteq Jobs, NEW x, started' = PushBack(started, x), NEW j
  PROVE  Newer(j) \subseteq Newer(j)' /\ (Forgotten(j) => Forgotten(j)')
<1>1. Newer(j) \subseteq Newer(j)' BY DEF Newer, PushBack
<1>2. IsFiniteSet(Newer(j)')
  <2>1. Newer(j)' \subseteq Jobs BY DEF Newer
  <2> QED BY <2>1, SessionsAssumption, FS_Subset
<1>3. /\ Cardinality(Newer(j)) \in Nat /\ Cardinality(Newer(j)') \in Nat
      /\ Cardinality(Newer(j)) <= Cardinality(Newer(j)')
  BY <1>1, <1>2, FS_Subset, FS_CardinalityType
<1> QED BY <1>1, <1>3, SessionsAssumption DEF Forgotten

\* As a sequence, a set has its own elements.
LEMMA SeqOfSet ==
  ASSUME NEW S, IsFiniteSet(S)
  PROVE  \A i \in DOMAIN SetToSeq(S) : SetToSeq(S)[i] \in S
<1> DEFINE n == Cardinality(S)
<1>1. \E f \in [1 .. n -> S] : IsInjective(f)
  <2>1. ExistsBijection(1 .. n, S) BY FS_CardinalityType
  <2>2. PICK f : f \in Bijection(1 .. n, S) BY <2>1 DEF ExistsBijection
  <2>3. f \in [1 .. n -> S] /\ IsInjective(f) BY <2>2 DEF Bijection, Injection
  <2> QED BY <2>3
<1>2. SetToSeq(S) \in [1 .. n -> S] BY <1>1 DEF SetToSeq
<1> QED BY <1>2

\* An id that goes for a new one leaves MonitorCap newer monitors behind.
LEMMA GoneIsForgotten ==
  ASSUME JobsKnown, call.what = "PostToolUse", call.on.job # None,
         call.on.job \notin session.monitors.in,
         Cardinality(session.monitors.in) >= MonitorCap,
         NEW m \in Goes(session.monitors)
  PROVE  Forgotten(m)
<1> DEFINE id   == call.on.job
           others == session.monitors.in \ {m}
           now  == others \cup {id}
<1>1. /\ m \in session.monitors.in
      /\ \A b \in session.monitors.in : <<b, m>> \notin session.monitors.ahead
  BY DEF Goes, IsFront
<1>2. now \subseteq Newer(m)
  BY <1>1 DEF JobsKnown, IdsInOrder
<1>3. IsFiniteSet(session.monitors.in) /\ IsFiniteSet(Newer(m))
  <2>1. session.monitors.in \subseteq Jobs /\ Newer(m) \subseteq Jobs
    BY DEF JobsKnown, Newer, Monitors
  <2> QED BY <2>1, SessionsAssumption, FS_Subset
<1>4. IsFiniteSet(others) /\ Cardinality(others) = Cardinality(session.monitors.in) - 1
  BY <1>1, <1>3, FS_RemoveElement
<1>5. id \notin others OBVIOUS
<1>6. Cardinality(now) = Cardinality(others) + 1
  BY <1>4, <1>5, FS_AddElement
<1>7. Cardinality(now) <= Cardinality(Newer(m))
  BY <1>2, <1>3, FS_Subset
<1>8. /\ Cardinality(session.monitors.in) \in Nat /\ Cardinality(now) \in Nat
      /\ Cardinality(Newer(m)) \in Nat
  <2>1. IsFiniteSet(now) BY <1>2, <1>3, FS_Subset
  <2> QED BY <1>3, <2>1, FS_CardinalityType
<1> QED BY <1>4, <1>6, <1>7, <1>8, SessionsAssumption DEF Forgotten

\* A finished monitor tool: its job's id joins the others, and the oldest may go for it.
LEMMA NotingKeeps ==
  ASSUME TableRight, JobsKnown, HandlePostToolUse
  PROVE  JobsKnown'
<1> DEFINE id  == call.on.job
           ids == session.monitors
<1>1. call.what = "PostToolUse" /\ call' = NoCall /\ jobs' = jobs /\ started' = started
      /\ work' = work
  BY DEF HandlePostToolUse, Answers, claudeVars
<1>2. /\ id \in (Monitors \cap started.in) \cup {None}
      /\ ids.in \subseteq Monitors \cap started.in
  BY <1>1 DEF JobsKnown
<1>3. session'.background = session.background
      /\ session'.monitors = Remembered(ids, id)
  BY DEF HandlePostToolUse, Touched, TableRight, StateRight
<1>4. call'.what = "none" BY <1>1 DEF NoCall
<1>5. \A j : Newer(j)' = Newer(j) /\ (Forgotten(j) <=> Forgotten(j)')
  BY <1>1 DEF Newer, Forgotten
<1>6. /\ session'.monitors.in \subseteq Monitors \cap started.in
      /\ \A j \in ids.in : j \in session'.monitors.in \/ Forgotten(j)
      /\ id # None => id \in session'.monitors.in
      /\ \A a, b \in session'.monitors.in :
           a # b => b \in Newer(a) \/ <<b, a>> \in session'.monitors.ahead
  <2>1. CASE id \in ids.in \cup {None}
    BY <1>1, <1>2, <1>3, <2>1 DEF Remembered, JobsKnown, IdsInOrder
  <2>2. CASE id \notin ids.in \cup {None}
    <3> DEFINE kept == IF Cardinality(ids.in) >= MonitorCap THEN Without(ids, Goes(ids)) ELSE ids
    <3>1. session'.monitors = PushBack(kept, id) BY <1>3, <2>2 DEF Remembered
    <3>2. kept.in \subseteq ids.in /\ \A j \in ids.in : j \in kept.in \/ Forgotten(j)
      BY <1>1, <2>2, GoneIsForgotten DEF Without
    <3>3. \A a, b \in kept.in : a # b => b \in Newer(a) \/ <<b, a>> \in kept.ahead
      BY DEF JobsKnown, IdsInOrder, Without
    <3>4. \A a \in kept.in : id \in Newer(a)
      BY <1>1, <2>2, <3>2 DEF JobsKnown, IdsInOrder
    <3> HIDE DEF kept
    <3>5. /\ session'.monitors.in = kept.in \cup {id}
          /\ session'.monitors.ahead = kept.ahead \cup (kept.in \X {id})
      BY <3>1 DEF PushBack
    <3> HIDE DEF id, ids
    <3>6. \A a, b \in session'.monitors.in :
           a # b => b \in Newer(a) \/ <<b, a>> \in session'.monitors.ahead
      BY <3>3, <3>4, <3>5
    <3> QED BY <1>2, <2>2, <3>2, <3>5, <3>6
  <2> QED BY <2>1, <2>2
<1>7. ASSUME NEW j \in jobs \cap Monitors, work # "ended"
      PROVE  j \in session'.monitors.in \/ Forgotten(j)
  <2>1. j \in ids.in \/ Forgotten(j) \/ id = j BY <1>7 DEF JobsKnown, Noted
  <2>2. j # None BY SessionsAssumption DEF Monitors
  <2> QED BY <1>6, <2>1, <2>2
<1>8. AllNamed'
  BY <1>3, <1>5 DEF JobsKnown, AllNamed, Named
<1> HIDE DEF id, ids
<1> QED BY <1>1, <1>3, <1>4, <1>5, <1>6, <1>7, <1>8 DEF JobsKnown, IdsInOrder, Noted

\* A Stop that reports the jobs calls each by its kind, and keeps the ids of its monitors.
LEMMA StopKeeps ==
  ASSUME TableRight, JobsKnown, HandleStop
  PROVE  JobsKnown'
<1> DEFINE on == call.on
           s  == Touched
<1>1. call.what = "Stop" /\ call' = NoCall /\ jobs' = jobs /\ started' = started
      /\ work' = work
  BY DEF HandleStop, Answers, claudeVars
<1>2. s.monitors = session.monitors /\ s.background = session.background
  BY DEF Touched, TableRight, StateRight
<1>3. CASE on = None
  <2>1. session'.monitors = session.monitors /\ session'.background = session.background
    BY <1>3 DEF HandleStop, Stopped, Settled, Touched, TableRight, StateRight
  <2> QED BY <1>1, <2>1, JobsStay DEF NoCall
<1>4. CASE on # None
  <2> DEFINE shown == {<<j, Shown(s, j)>> : j \in on}
  <2>1. /\ jobs \subseteq on /\ on \subseteq Jobs
        /\ \A j \in on \cap Monitors : j \in session.monitors.in \/ Forgotten(j)
        /\ session.monitors.in \subseteq Monitors
    BY <1>1, <1>4 DEF JobsKnown
  <2>2. session'.background = SetToSeq(shown)
        /\ session'.monitors = StillOn(session.monitors, on)
    BY <1>4 DEF HandleStop, Stopped, Settled, Touched, TableRight, StateRight
  <2>3. \A j \in on : Shown(s, j) = Kind[j]
                        \/ (Kind[j] = "monitor" /\ Shown(s, j) = "shell" /\ Forgotten(j))
    BY <1>2, <2>1, SessionsAssumption DEF Shown, Monitors
  <2>4. IsFiniteSet(shown)
    <3>1. IsFiniteSet(on) BY <2>1, SessionsAssumption, FS_Subset
    <3>2. [j \in on |-> <<j, Shown(s, j)>>] \in Surjection(on, shown) BY DEF Surjection
    <3> HIDE DEF shown
    <3> QED BY <3>1, <3>2, FS_Surjection
  <2>5. \A i \in DOMAIN session'.background : session'.background[i] \in shown
    <3> HIDE DEF shown
    <3> QED BY <2>2, <2>4, SeqOfSet
  <2>6. \A p \in shown : Named(p) BY <2>3 DEF Named
  <2>7. \A j : Newer(j)' = Newer(j) /\ (Forgotten(j) <=> Forgotten(j)')
    BY <1>1 DEF Newer, Forgotten
  <2>8. AllNamed'
    <3> HIDE DEF shown
    <3> QED BY <2>5, <2>6, <2>7 DEF AllNamed, Named
  <2>9. /\ session'.monitors.in = session.monitors.in \cap on
        /\ \A a, b \in session'.monitors.in :
             <<b, a>> \in session.monitors.ahead => <<b, a>> \in session'.monitors.ahead
    BY <2>2 DEF StillOn, Without
  <2>10. IdsInOrder' BY <1>1, <2>7, <2>9 DEF JobsKnown, IdsInOrder, NoCall
  <2>11. \A j \in jobs \cap Monitors : j \in session'.monitors.in \/ Forgotten(j)
    BY <2>1, <2>9
  <2> HIDE DEF on, shown
  <2> QED
    BY <1>1, <2>1, <2>7, <2>8, <2>9, <2>10, <2>11 DEF JobsKnown, Noted, NoCall
<1> QED BY <1>3, <1>4

\* A tool ends and may leave a job behind; a monitor's id is in the call.
LEMMA EndToolKnown ==
  ASSUME TableRight, JobsKnown, NEW t \in Tools, EndTool(t)
  PROVE  JobsKnown'
<1>1. PICK j \in Starts(t) \cup {None} :
        /\ jobs' = IF j = None THEN jobs ELSE jobs \cup {j}
        /\ started' = IF j = None THEN started ELSE PushBack(started, j)
        /\ Calls("PostToolUse", [tool |-> t, job |-> IF t = "Monitor" THEN j ELSE None])
  BY DEF EndTool
<1>2. Free /\ session' = session /\ work' = work BY DEF EndTool
<1>3. call'.what = "PostToolUse" /\ call'.on.job = IF t = "Monitor" THEN j ELSE None
  BY <1>1 DEF Calls
<1>4. /\ j \in Jobs \cup {None}
      /\ j \notin started.in \/ j = None
      /\ j \in Monitors => t = "Monitor"
      /\ t = "Monitor" => j \in Monitors \cup {None}
  BY <1>1, SessionsAssumption DEF Starts, Monitors
<1>5. None \notin Monitors /\ None \notin Jobs BY SessionsAssumption DEF Monitors
<1>6. /\ started'.in \subseteq Jobs /\ jobs' \subseteq started'.in
      /\ started.in \subseteq started'.in
  BY <1>1, <1>4, <1>5 DEF JobsKnown, PushBack
<1>7. \A m : Newer(m) \subseteq Newer(m)' /\ (Forgotten(m) => Forgotten(m)')
  <2>1. CASE j = None BY <1>1, <2>1 DEF Newer, Forgotten
  <2>2. CASE j # None BY <1>1, <1>6, <2>2, NewerGrows
  <2> QED BY <2>1, <2>2
<1>8. ASSUME NEW m \in jobs' \cap Monitors, work # "ended" PROVE Noted(m)'
  <2>1. CASE m = j BY <1>3, <1>4, <1>8, <2>1 DEF Noted
  <2>2. CASE m # j
    <3>1. m \in jobs BY <1>1, <1>8, <2>2
    <3>2. m \in session.monitors.in \/ Forgotten(m)
      BY <1>2, <1>8, <3>1 DEF JobsKnown, Noted, Free, NoCall
    <3> QED BY <1>2, <1>7, <3>2 DEF Noted
  <2> QED BY <2>1, <2>2
<1>9. IdsInOrder'
  <2>1. ASSUME NEW a \in session.monitors.in, j \in Monitors PROVE j \in Newer(a)'
    BY <1>1, <1>5, <2>1 DEF JobsKnown, Newer, PushBack, Monitors
  <2> QED BY <1>2, <1>3, <1>4, <1>7, <2>1 DEF JobsKnown, IdsInOrder
<1>10. call'.on.job \in (Monitors \cap started'.in) \cup {None}
  BY <1>1, <1>3, <1>4 DEF PushBack
<1>11. AllNamed'
  BY <1>2, <1>7 DEF JobsKnown, AllNamed, Named
<1> QED BY <1>2, <1>3, <1>6, <1>8, <1>9, <1>10, <1>11 DEF JobsKnown

\* What runs in the background stays known, whatever Claude and the daemon do.
LEMMA JobsSteps ==
  ASSUME TableRight, JobsKnown, [Next]_vars
  PROVE  JobsKnown'
<1>1. ASSUME NEW t \in Tools, EndTool(t) PROVE JobsKnown'
  BY <1>1, EndToolKnown
<1>2. ASSUME NEW j \in Jobs, JobEnds(j) PROVE JobsKnown'
  BY <1>2 DEF JobEnds, JobsKnown, IdsInOrder, AllNamed, Named, Noted, Forgotten, Newer
<1>3. CASE Finish
  <2>1. Free /\ work = "turn" /\ work' = "rest" /\ jobs' = jobs /\ started' = started
        /\ session' = session /\ call'.what = "Stop" /\ call'.on \in {jobs, None}
    BY <1>3 DEF Finish, Calls
  <2>2. \A j \in jobs \cap Monitors : j \in session.monitors.in \/ Forgotten(j)
    BY <2>1 DEF JobsKnown, Noted, Free, NoCall
  <2>3. \A j : Newer(j)' = Newer(j) /\ (Forgotten(j) <=> Forgotten(j)')
    BY <2>1 DEF Newer, Forgotten
  <2> QED BY <2>1, <2>2, <2>3 DEF JobsKnown, IdsInOrder, AllNamed, Named, Noted
<1>4. CASE Begin \/ Submit \/ Interrupt \/ Notify \/ Compacted \/ End \/ Panel
  <2>1. /\ jobs' = jobs /\ started' = started /\ session' = session
        /\ work' # "ended" => work # "ended"
        /\ \/ call'.what = call.what /\ call'.on = call.on
           \/ call.what # "PostToolUse" /\ call'.what \notin {"PostToolUse", "Stop"}
    BY <1>4 DEF Begin, Submit, Interrupt, Notify, Compacted, End, Panel, Calls, Free, NoCall,
                claudeVars
  <2> QED BY <2>1, JobsStay
<1>5. ASSUME NEW t \in Tools, UseTool(t) PROVE JobsKnown'
  BY <1>5, JobsStay DEF UseTool, Calls, Free, NoCall
<1>6. ASSUME NEW k \in Tasks, CreateTask(k) \/ CompleteTask(k) PROVE JobsKnown'
  BY <1>6, JobsStay DEF CreateTask, CompleteTask, Calls, Free, NoCall
<1>7. ASSUME NEW trigger \in {"manual", "auto"}, Compact(trigger) PROVE JobsKnown'
  BY <1>7, JobsStay DEF Compact, Calls, Free, NoCall
<1>8. CASE Touch \/ HandleTick
  <2>1. session'.monitors = session.monitors /\ session'.background = session.background
    BY <1>8 DEF Touch, HandleTick, Touched, TableRight, StateRight
  <2>2. /\ jobs' = jobs /\ started' = started /\ work' = work
        /\ call'.what = call.what /\ call'.on = call.on
    BY <1>8 DEF Touch, HandleTick, claudeVars, TableRight, ClaudeRight
  <2> QED BY <2>1, <2>2, JobsStay
<1>9. CASE HandleNotification
  <2>1. session'.monitors = session.monitors /\ session'.background = session.background
    BY <1>9 DEF HandleNotification, Stopped, Settled, Touched, TableRight, StateRight
  <2>2. /\ jobs' = jobs /\ started' = started /\ work' = work
        /\ call.what = "Notification" /\ call'.what = "none"
    BY <1>9 DEF HandleNotification, Answers, NoCall, claudeVars
  <2> QED BY <2>1, <2>2, JobsStay
<1>10. CASE HandleSessionEnd
  <2>1. session' = Blank /\ jobs' = jobs /\ started' = started /\ work' = work /\ call' = NoCall
        /\ call.what = "SessionEnd"
    BY <1>10 DEF HandleSessionEnd, Answers, claudeVars
  <2>2. work = "ended" BY <2>1 DEF TableRight, CallRight, Free, NoCall
  <2> QED BY <2>1, <2>2 DEF JobsKnown, IdsInOrder, AllNamed, NoCall, Blank, EmptyDeque
<1>11. CASE HandleUserPromptSubmit \/ HandleTodoWrite \/ HandleTaskStart \/ HandlePreToolUse
            \/ HandleSessionStart \/ HandlePreCompact \/ HandleTaskCreated \/ HandleTaskCompleted
  <2>1. session'.monitors = session.monitors /\ session'.background = session.background
    <3>1. CASE HandleUserPromptSubmit
      BY <3>1 DEF HandleUserPromptSubmit, NewTurn, Touched, TableRight, StateRight
    <3>2. CASE HandleTodoWrite BY <3>2 DEF HandleTodoWrite, Touched, TableRight, StateRight
    <3>3. CASE HandleTaskStart BY <3>3 DEF HandleTaskStart, Touched, TableRight, StateRight
    <3>4. CASE HandlePreToolUse BY <3>4 DEF HandlePreToolUse, Touched, TableRight, StateRight
    <3>5. CASE HandleSessionStart
      BY <3>5 DEF HandleSessionStart, Settled, Touched, TableRight, StateRight
    <3>6. CASE HandlePreCompact BY <3>6 DEF HandlePreCompact, Touched, TableRight, StateRight
    <3>7. CASE HandleTaskCreated BY <3>7 DEF HandleTaskCreated, Touched, TableRight, StateRight
    <3>8. CASE HandleTaskCompleted
      BY <3>8 DEF HandleTaskCompleted, Touched, TableRight, StateRight
    <3> QED BY <1>11, <3>1, <3>2, <3>3, <3>4, <3>5, <3>6, <3>7, <3>8
  <2>2. PICK what : what # "PostToolUse" /\ Answers(what)
    BY <1>11, Zenon
    DEF HandleUserPromptSubmit, HandleTodoWrite, HandleTaskStart, HandlePreToolUse,
        HandleSessionStart, HandlePreCompact, HandleTaskCreated, HandleTaskCompleted
  <2>3. /\ jobs' = jobs /\ started' = started /\ work' = work
        /\ call.what # "PostToolUse" /\ call'.what = "none"
    BY <2>2 DEF Answers, NoCall, claudeVars
  <2> QED BY <2>1, <2>3, JobsStay
<1>12. CASE UNCHANGED vars BY <1>12, JobsStay DEF vars, claudeVars
<1> QED
  BY <1>1, <1>2, <1>3, <1>4, <1>5, <1>6, <1>7, <1>8, <1>9, <1>10, <1>11, <1>12, NotingKeeps,
     StopKeeps
  DEF Next, Claude, Handler

\* After a Stop every job in the background is shown as what it is, whatever ended, was
\* interrupted or compacted since its id was noted; a monitor passes for a shell only once
\* MonitorCap newer ones were started (MONITOR_IDS_CAP and handle_post_tool_use, device_kind
\* and handle_stop in src/crates/coredeck/src/hooks.rs).
THEOREM BackgroundNamed == Spec => []BackgroundIsNamed
<1>1. Init => JobsKnown
  BY DEF Init, JobsKnown, AllNamed, IdsInOrder, Blank, EmptyDeque, NoCall
<1>2. TableRight /\ JobsKnown /\ [Next]_vars => JobsKnown'
  BY JobsSteps
<1>3. JobsKnown => BackgroundIsNamed
  BY DEF JobsKnown, AllNamed, Named, Forgotten, BackgroundIsNamed
<1> QED BY <1>1, <1>2, <1>3, TableIsRight, PTL DEF Spec

=============================================================================
