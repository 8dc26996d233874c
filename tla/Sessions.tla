------------------------------ MODULE Sessions ------------------------------
(***************************************************************************)
(* What the daemon tells of a Claude session, learnt from its hooks alone: *)
(* whether it works, on which task, how many tools it has used, what runs  *)
(* in the background.  Claude calls a hook and waits for the answer;       *)
(* an interrupted turn calls none.  Ticks of the agent panel come on the   *)
(* side.                                                                   *)
(***************************************************************************)
EXTENDS Naturals, Sequences, FiniteSets, SequencesExt, Deque

CONSTANTS
  Tools,       \* the tools Claude uses
  Tasks,       \* the tasks it may create
  Jobs,        \* what it may start in the background
  Kind,        \* per job: "shell", "monitor" or "artifact", as the user sees it
  MaxTurns,    \* bound: turns of the session
  MaxTools,    \* bound: tool calls of a turn
  MaxParallel, \* bound: tools that run at a time
  MaxCompacts, \* bound: compactions of the session
  MonitorCap,  \* MONITOR_IDS_CAP
  None

ASSUME SessionsAssumption ==
  /\ None \notin Tasks \cup Tools \cup Jobs \cup {"thinking", "compacting"}
  /\ Kind \in [Jobs -> {"shell", "monitor", "artifact"}]
  /\ Tools \subseteq {"Bash", "Agent", "Monitor", "TodoWrite", "TaskStart", "TaskDone",
                "AskUserQuestion"}
  /\ IsFiniteSet(Tasks) /\ IsFiniteSet(Jobs) /\ Tasks \cap {"thinking", "compacting"} = {}
  /\ {MaxTurns, MaxTools, MaxParallel, MaxCompacts} \subseteq Nat /\ MonitorCap \in Nat \ {0}

VARIABLES
  work,        \* what Claude is at
  running,     \* the tools it runs, several in parallel
  used,        \* tools used since the last prompt
  tasks, doing,\* its task list, and the one in progress
  jobs,        \* what it has running in the background
  started,     \* all it ever started there, in order
  resume,      \* what a compaction goes back to
  rest,        \* how the last turn ended, and whether the user was told
  turns, compacts,
  call,        \* the hook call Claude waits for, or NoCall
  tick,        \* a tick of the agent panel on its way: whether it shows a row
  session      \* the daemon's SessionState; Blank while its table has none (~known)

claudeVars == <<work, running, used, tasks, doing, jobs, started, resume, rest, turns,
                compacts>>
vars == <<claudeVars, call, tick, session>>

Blank ==
  [known |-> FALSE, active |-> FALSE, before |-> FALSE, tool |-> None, task |-> None,
   summary |-> None, count |-> 0, todo |-> FALSE, registry |-> {}, pinned |-> None,
   rows |-> FALSE, background |-> <<>>, monitors |-> EmptyDeque]

NoCall == [what |-> "none", on |-> None, seen |-> FALSE]

Init ==
  /\ work = "new" /\ running = {} /\ used = 0 /\ tasks = {} /\ doing = None /\ jobs = {}
  /\ started = EmptyDeque
  /\ resume = None /\ rest = "stopped" /\ turns = 0 /\ compacts = 0
  /\ call = NoCall /\ tick = None /\ session = Blank

-----------------------------------------------------------------------------
\* Claude

Calls(what, on) == call' = [what |-> what, on |-> on, seen |-> FALSE]
Free == call = NoCall

Begin ==
  /\ Free /\ work = "new"
  /\ work' = "rest" /\ Calls("SessionStart", "startup")
  /\ UNCHANGED <<running, used, tasks, doing, jobs, started, resume, rest, turns, compacts,
                 tick, session>>

\* The user's prompt begins a turn, or adds to the one that runs.
Submit ==
  /\ Free /\ work \in {"rest", "turn"} /\ turns < MaxTurns
  /\ work' = "turn" /\ turns' = turns + 1 /\ used' = 0
  /\ Calls("UserPromptSubmit", None)
  /\ UNCHANGED <<running, tasks, doing, jobs, started, resume, rest, compacts, tick, session>>

\* TodoWrite, and the TaskUpdate that starts a task, are not counted as tools.
Counted(t) == t \notin {"TodoWrite", "TaskStart"}

UseTool(t) ==
  /\ Free /\ work = "turn" /\ t \notin running /\ used < MaxTools
  /\ Cardinality(running) < MaxParallel
  /\ running' = running \cup {t}
  /\ used' = used + (IF Counted(t) THEN 1 ELSE 0)
  /\ \E k \in IF t \in {"TaskStart", "TaskDone"} THEN tasks ELSE {None} :
       /\ Calls("PreToolUse", [tool |-> t, task |-> k])
       /\ doing' = IF t = "TaskStart" THEN k ELSE doing
  /\ UNCHANGED <<work, tasks, jobs, started, resume, rest, turns, compacts, tick, session>>

\* A tool ends.  Bash may leave a shell behind, Monitor a watch whose id, a new one, it
\* returns.
Starts(t) == {j \in Jobs \ started.in : IF t = "Bash" THEN Kind[j] # "monitor"
                                        ELSE t = "Monitor" /\ Kind[j] = "monitor"}

EndTool(t) ==
  /\ Free /\ work = "turn" /\ t \in running
  /\ running' = running \ {t}
  /\ \E j \in Starts(t) \cup {None} :
       /\ jobs' = IF j = None THEN jobs ELSE jobs \cup {j}
       /\ started' = IF j = None THEN started ELSE PushBack(started, j)
       /\ Calls("PostToolUse", [tool |-> t, job |-> IF t = "Monitor" THEN j ELSE None])
  /\ UNCHANGED <<work, used, tasks, doing, resume, rest, turns, compacts, tick, session>>

\* TaskCreate and a completing TaskUpdate have hooks of their own.
CreateTask(k) ==
  /\ Free /\ work = "turn" /\ k \notin tasks /\ running # {}
  /\ tasks' = tasks \cup {k} /\ Calls("TaskCreated", k)
  /\ UNCHANGED <<work, running, used, doing, jobs, started, resume, rest, turns, compacts,
                 tick, session>>

CompleteTask(k) ==
  /\ Free /\ work = "turn" /\ k \in tasks /\ "TaskDone" \in running
  /\ tasks' = tasks \ {k} /\ doing' = IF doing = k THEN None ELSE doing
  /\ Calls("TaskCompleted", k)
  /\ UNCHANGED <<work, running, used, jobs, started, resume, rest, turns, compacts, tick,
                 session>>

JobEnds(j) ==
  /\ j \in jobs /\ jobs' = jobs \ {j}
  /\ UNCHANGED <<work, running, used, tasks, doing, started, resume, rest, turns, compacts,
                 call, tick, session>>

\* Stop reports the background jobs; StopFailure does not.
Finish ==
  /\ Free /\ work = "turn" /\ running = {}
  /\ work' = "rest" /\ rest' = "stopped"
  /\ Calls("Stop", jobs) \/ Calls("Stop", None)
  /\ UNCHANGED <<running, used, tasks, doing, jobs, started, resume, turns, compacts, tick,
                 session>>

\* An interrupt calls no hook.
Interrupt ==
  /\ Free /\ work \in {"turn", "compact"}
  /\ work' = "rest" /\ rest' = "interrupted" /\ running' = {}
  /\ UNCHANGED <<used, tasks, doing, jobs, started, resume, turns, compacts, call, tick,
                 session>>

\* A minute after a turn Claude says it waits; ticks on their way are long through.
Notify ==
  /\ Free /\ work = "rest" /\ rest # "told" /\ turns > 0 /\ tick = None
  /\ rest' = "told" /\ Calls("Notification", None)
  /\ UNCHANGED <<work, running, used, tasks, doing, jobs, started, resume, turns, compacts,
                 tick, session>>

\* Not before the first turn: /compact at rest; or by itself, in the middle of a turn or
\* right after its Stop.
Compact(trigger) ==
  /\ Free /\ running = {} /\ turns > 0 /\ compacts < MaxCompacts
  /\ IF trigger = "manual" THEN work = "rest"
     ELSE work = "turn" \/ (work = "rest" /\ rest = "stopped")
  /\ work' = "compact" /\ resume' = work /\ compacts' = compacts + 1
  /\ Calls("PreCompact", trigger)
  /\ UNCHANGED <<running, used, tasks, doing, jobs, started, rest, turns, tick, session>>

Compacted ==
  /\ Free /\ work = "compact"
  /\ work' = resume /\ Calls("SessionStart", "compact")
  /\ UNCHANGED <<running, used, tasks, doing, jobs, started, resume, rest, turns, compacts,
                 tick, session>>

End ==
  /\ Free /\ work = "rest" /\ work' = "ended" /\ Calls("SessionEnd", None)
  /\ UNCHANGED <<running, used, tasks, doing, jobs, started, resume, rest, turns, compacts,
                 tick, session>>

\* The agent panel ticks while a subagent runs or its row is still shown.
Panel ==
  /\ tick = None /\ session.known
  /\ "Agent" \in running \/ session.rows
  /\ tick' = ("Agent" \in running)
  /\ UNCHANGED <<claudeVars, call, session>>

-----------------------------------------------------------------------------
\* The daemon

Touched == [session EXCEPT !.known = TRUE]

\* Every hook first touches its session, under one lock...
Touch ==
  /\ ~Free /\ ~call.seen
  /\ session' = Touched /\ call' = [call EXCEPT !.seen = TRUE]
  /\ UNCHANGED <<claudeVars, tick>>

\* ...and is handled under another.  Then Claude has its answer.
Answers(what) ==
  /\ ~Free /\ call.seen /\ call.what = what /\ call' = NoCall
  /\ UNCHANGED <<claudeVars, tick>>

\* turn_headline: the task pinned, as long as it is registered.
\* (Mutant: the pinned task is forgotten.)
HeadlineThinking(s) == "thinking"
Headline(s) == IF s.pinned \in s.registry THEN s.pinned ELSE "thinking"

\* (Mutant: the tools of the turn before are counted on.)
NewTurnKeepsCount(s) == [s EXCEPT !.active = TRUE, !.tool = None, !.task = Headline(s),
                                  !.summary = None, !.todo = FALSE]
NewTurn(s) == [s EXCEPT !.active = TRUE, !.tool = None, !.task = Headline(s),
                        !.summary = None, !.count = 0, !.todo = FALSE]

HandleUserPromptSubmit == Answers("UserPromptSubmit") /\ session' = NewTurn(Touched)

\* handle_pre_tool_use has three ways: the todo list, a task that starts, any other.
HandleTodoWrite ==
  /\ Answers("PreToolUse") /\ call.on.tool = "TodoWrite"
  /\ \E todo \in BOOLEAN : session' = [Touched EXCEPT !.active = TRUE, !.todo = todo]

HandleTaskStart ==
  LET s == Touched
      k == call.on.task
  IN /\ Answers("PreToolUse") /\ call.on.tool = "TaskStart"
     /\ session' = IF k \notin s.registry THEN s
                   ELSE [s EXCEPT !.pinned = k, !.task = k, !.active = TRUE]

\* A question is shown as a notice of its own; a task tool says nothing of a task unknown.
Summary(s, tool, k) ==
  IF tool = "AskUserQuestion" THEN None
  ELSE IF k \in s.registry \cup {None} THEN tool ELSE s.summary

HandlePreToolUse ==
  LET s == Touched
      t == call.on.tool
  IN /\ Answers("PreToolUse") /\ Counted(t)
     /\ session' = [s EXCEPT !.tool = t, !.task = Headline(s), !.active = TRUE,
                             !.count = @ + 1, !.summary = Summary(s, t, call.on.task)]

\* The newest monitor ids are kept, up to a cap.
\* (Mutant: the newest of them goes for the next one.)
GoesNewest(ids) == {j \in ids.in : \A k \in ids.in : <<j, k>> \notin ids.ahead}
Goes(ids) == {j \in ids.in : IsFront(ids, j)}

Remembered(ids, id) ==
  LET kept == IF Cardinality(ids.in) >= MonitorCap THEN Without(ids, Goes(ids)) ELSE ids
  IN IF id \in ids.in \cup {None} THEN ids ELSE PushBack(kept, id)

HandlePostToolUse ==
  LET s == Touched
  IN /\ Answers("PostToolUse")
     /\ session' = [s EXCEPT !.tool = None, !.task = Headline(s),
                             !.rows = IF call.on.tool = "Agent" THEN FALSE ELSE @,
                             !.monitors = Remembered(@, call.on.job)]

\* settle_idle: the state between turns.
\* (Mutant: the rows of the agent panel stay.)
SettledWithRows(s) == [s EXCEPT !.tool = None, !.task = None, !.active = FALSE,
                                !.summary = None, !.count = 0, !.todo = FALSE]
Settled(s) == [s EXCEPT !.tool = None, !.task = None, !.active = FALSE, !.summary = None,
                        !.count = 0, !.todo = FALSE, !.rows = FALSE]

\* What a job is shown as: an artifact's watch is reported as a monitor, and a
\* Monitor command as a shell, which only its id gives away.
Shown(s, j) ==
  IF j \in s.monitors.in THEN "monitor"
  ELSE IF Kind[j] = "artifact" THEN "artifact" ELSE "shell"

\* Ids of monitors that still run are kept.
\* (Mutant: all are forgotten with the turn.)
StillOnNone(ids, on) == EmptyDeque
StillOn(ids, on) == Without(ids, ids.in \ on)

Stopped(s, on) ==
  IF on = None THEN Settled(s)
  ELSE [Settled(s) EXCEPT !.background = SetToSeq({<<j, Shown(s, j)>> : j \in on}),
                          !.monitors = StillOn(@, on)]

HandleStop == Answers("Stop") /\ session' = Stopped(Touched, call.on)

\* idle_prompt: the turn is over, even if Stop never came.
HandleNotification == Answers("Notification") /\ session' = Stopped(Touched, None)

\* A compaction in the middle of a turn goes on with it, any other ends at rest.
\* (Mutant: any compaction goes on with the turn.)
ResumesAlways(s) == TRUE
Resumes(s) == s.before

HandleSessionStart ==
  LET s == Touched
  IN /\ Answers("SessionStart")
     /\ session' = IF call.on # "compact" THEN s
                   ELSE IF ~Resumes(s) THEN Settled(s)
                   ELSE [s EXCEPT !.active = TRUE,
                                  !.task = IF @ \in {None, "compacting"} THEN Headline(s) ELSE @]

HandlePreCompact ==
  LET s == Touched
  IN /\ Answers("PreCompact")
     /\ session' = [s EXCEPT !.before = s.active /\ call.on # "manual", !.task = "compacting",
                             !.tool = None, !.active = TRUE]

HandleSessionEnd == Answers("SessionEnd") /\ session' = Blank

HandleTaskCreated ==
  Answers("TaskCreated") /\ session' = [Touched EXCEPT !.registry = @ \cup {call.on}]

\* The pin goes with its task.
PinnedAfter(s, k) == IF s.pinned = k THEN None ELSE s.pinned

HandleTaskCompleted ==
  LET s == Touched
      own == s.pinned = call.on
  IN /\ Answers("TaskCompleted")
     /\ session' = [s EXCEPT !.registry = @ \ {call.on},
                             !.pinned = PinnedAfter(s, call.on), !.task = IF own THEN None ELSE @]

\* The rows of the agent panel are replaced as a whole, whatever else goes on.
HandleTick ==
  /\ tick # None /\ tick' = None
  /\ session' = [Touched EXCEPT !.rows = tick]
  /\ UNCHANGED <<claudeVars, call>>

-----------------------------------------------------------------------------
Handler ==
  \/ HandleUserPromptSubmit \/ HandleTodoWrite \/ HandleTaskStart \/ HandlePreToolUse
  \/ HandlePostToolUse \/ HandleStop \/ HandleNotification \/ HandleSessionStart
  \/ HandlePreCompact \/ HandleSessionEnd \/ HandleTaskCreated \/ HandleTaskCompleted

Claude ==
  \/ Begin \/ Submit \/ Finish \/ Interrupt \/ Notify \/ Compacted \/ End
  \/ \E t \in Tools : UseTool(t) \/ EndTool(t)
  \/ \E k \in Tasks : CreateTask(k) \/ CompleteTask(k)
  \/ \E trigger \in {"manual", "auto"} : Compact(trigger)

Next == Claude \/ Panel \/ (\E j \in Jobs : JobEnds(j)) \/ Touch \/ Handler \/ HandleTick

Spec == Init /\ [][Next]_vars

\* Hooks and ticks are handled, and Claude says, in time, that it waits.
Fairness == WF_vars(Touch \/ Handler) /\ WF_vars(HandleTick) /\ SF_vars(Notify)
FairSpec == Spec /\ Fairness

-----------------------------------------------------------------------------
Waited == \E i \in DOMAIN session.background : session.background[i][2] # "artifact"

TabState ==
  IF ~session.known THEN "inactive"
  ELSE IF session.active THEN "working" ELSE IF Waited THEN "background" ELSE "started"

\* Whenever Claude waits for no hook, the tab says whether it works: through
\* compactions, failures and parallel tools; only an interrupt is noticed later.
TabTellsWork ==
  Free /\ work \in {"rest", "turn", "compact"} /\ ~(work = "rest" /\ rest = "interrupted")
    => (TabState = "working" <=> work # "rest")

\* A session shown at rest has nothing of its last turn left on the display, and
\* the tools counted in a turn are those of this turn.
RestIsClean ==
  /\ Free /\ ~session.active =>
       /\ session.tool = None /\ session.task = None /\ session.summary = None
       /\ session.count = 0 /\ ~session.todo
  /\ Free /\ work = "turn" => session.count = used

\* The headline names the task in progress all through its turns, whatever tools,
\* prompts and compactions come between, and "Compacting" only while Claude compacts;
\* and no task is pinned that the session does not have.
HeadlineIsTrue ==
  /\ session.pinned \in session.registry \cup {None}
  /\ Free /\ session.active /\ ~(work = "rest" /\ rest = "interrupted") =>
       /\ session.task = "compacting" <=> work = "compact"
       /\ work = "turn" => IF doing # None THEN session.task = doing
                            ELSE running = {} => session.task = "thinking"
       /\ session.task \in Tasks => session.task = doing

\* After a Stop every job is shown as what it is.  Only a monitor older than the
\* MONITOR_IDS_CAP last ones may pass for a shell: no id is given up for less.
Newer(j) == {k \in started.in : Kind[k] = "monitor" /\ <<j, k>> \in started.ahead}

BackgroundIsNamed ==
  Free =>
    \A i \in DOMAIN session.background :
      LET j     == session.background[i][1]
          shown == session.background[i][2]
      IN \/ shown = Kind[j]
         \/ Kind[j] = "monitor" /\ shown = "shell" /\ Cardinality(Newer(j)) >= MonitorCap

\* A turn that is over is noticed, and so is a subagent's row left over from it.
RestIsNoticed ==
  work = "rest" ~> \/ work # "rest"
                   \/ session.known /\ ~session.active /\ ~session.rows
=============================================================================
