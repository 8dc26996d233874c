---------------------------- MODULE PromptsTypes ----------------------------
(***************************************************************************)
(* Type correctness of Prompts, for any number of requests, notices, tasks *)
(* and sessions, any caps and any surroundings.  TypeOK is not inductive:  *)
(* a queue stays typed only because what a task has in its hands is of the *)
(* right kind wherever it is about to put it.  TasksRight says so; it also *)
(* carries the later proofs (PromptsSafety, PromptsPromise).               *)
(***************************************************************************)
EXTENDS Prompts, FiniteSetTheorems, TLAPS

-----------------------------------------------------------------------------
\* What a task carries matches where it is.

\* Places where a task may have an alert in hand, and where it has a tab to use.
HandPCs == {"check", "install", "place", "requeue", "move"}
TabPCs  == {"wipe", "install", "place", "move", "gate", "park", "purge", "purgeIdle"}
Marking == {"mark", "unmark", "send"}

\* A task has in hand what it is about to install, place or redraw, and nothing
\* anywhere else; and a tab, wherever it is about to write or clear one.
CarriesRight(t) ==
  /\ pc[t] \in {"check", "install"} => hand[t] \in Requests
  /\ pc[t] \in {"place", "requeue"} => hand[t] \in Notices
  /\ pc[t] = "move" => hand[t] \in Alerts
  /\ hand[t] # None => pc[t] \in HandPCs \/ (t = Loop /\ pc[t] \in Marking)
  /\ pc[t] \in {"wipe", "install", "place", "move", "park"} => tabOf[t] # NoTab
  /\ tabOf[t] # NoTab => pc[t] \in TabPCs \/ (t = Loop /\ pc[t] \in Marking)

\* The event loop marks for a prompt in its hands, or for the switch.
LoopRight ==
  /\ pc[Loop] \in {"mark", "unmark"} => arg[Loop] \in Sessions
  /\ pc[Loop] \in {"mark", "unmark"} => (hand[Loop] = None <=> key.what = "on")
  /\ pc[Loop] = "send" => hand[Loop] \in Requests
  /\ pc[Loop] \in Marking => (hand[Loop] = None <=> tabOf[Loop] = NoTab)
  /\ hand[Loop] # None /\ pc[Loop] \in Marking => hand[Loop] \in Requests
  /\ pc[Loop] = "decide" => key.what # "on"

\* Only jobs have something to purge, and what they have yet to purge is theirs.
HookRight(t) ==
  /\ t \notin Hooks => scope[t] = "none"
  /\ pc[t] = "purge" => scope[t] \in {"pending", "all"}
  /\ pc[t] = "purgeIdle" => scope[t] \in {"idle", "all"}
  /\ pc[t] = "purgeIdle" /\ scope[t] = "idle" => tabOf[t] = NoTab
  /\ ret[t] = "purgeIdle" => scope[t] = "idle" \/ pc[t] \in {"cancelIdle", "done"}
  /\ pc[t] \in {"idle", "leaveIn", "leaveOut"} => ret[t] # "purgeIdle"

TasksRight == LoopRight /\ \A t \in Threads : CarriesRight(t) /\ HookRight(t)

-----------------------------------------------------------------------------
\* The operators the steps are built from.

\* What leaves a deque leaves a deque over the same entries.
LEMMA WithoutType ==
  ASSUME NEW S, NEW q \in Deques(S), NEW T
  PROVE  Without(q, T) \in Deques(S)
BY DEF Without, Deques

\* Pushing an entry at either end.
LEMMA PushType ==
  ASSUME NEW S, NEW q \in Deques(S), NEW x \in S
  PROVE  PushBack(q, x) \in Deques(S) /\ PushFront(q, x) \in Deques(S)
BY DEF PushBack, PushFront, Deques

\* An entry updated in place.
LEMMA ReplaceType ==
  ASSUME NEW S, NEW q \in Deques(S), NEW x \in S, NEW y
  PROVE  Replace(q, y, x) \in Deques(S)
BY DEF Replace, Deques

\* The empty deque is a deque over anything.
LEMMA EmptyType == ASSUME NEW S PROVE EmptyDeque \in Deques(S)
BY DEF EmptyDeque, Deques

\* Positions among registered wrappers are tab numbers.
LEMMA PositionType ==
  ASSUME NEW S \in SUBSET Sessions, NEW s
  PROVE  Position(S, s) \in Nat
<1>1. IsFiniteSet({u \in S : Rank[u] < Rank[s]})
  BY SessionsAssumption, FS_Subset
<1> QED BY <1>1, FS_CardinalityType DEF Position

\* Every session has a tab number, 0 if it has no wrapper.
LEMMA TabType == ASSUME WrapperTypes, NEW s PROVE Tab(s) \in Nat
BY PositionType DEF WrapperTypes, Tab

\* Waking or dropping senders yields answers again.
LEMMA WokenType ==
  ASSUME RequestTypes, NEW S, NEW v \in {"allow", "deny", "dropped"}
  PROVE  Woken(S, v) \in [Requests -> {"unsent", "open", "allow", "deny", "dropped", "closed"}]
BY DEF RequestTypes, Woken

\* An alert drawn on a tab.
LEMMA ScreenType ==
  ASSUME DeviceTypes, NEW n \in Nat, NEW a \in Alerts
  PROVE  Shown(n, a) \subseteq Tabs \X Alerts
BY DEF DeviceTypes, Shown, Tabs

\* A tab cleared.
LEMMA ClearedType == ASSUME DeviceTypes, NEW n PROVE Cleared(n) \subseteq Tabs \X Alerts
BY DEF DeviceTypes, Cleared

\* The entries of the queues are of their kinds.
LEMMA QueuedAlerts ==
  ASSUME AlertTypes PROVE pendingQ.in \subseteq Requests /\ idleQ.in \subseteq Notices
BY DEF AlertTypes, Deques

\* Taking an event from the inbox.
LEMMA FirstEvent ==
  ASSUME LoopTypes, inbox # <<>> PROVE Head(inbox) \in Events /\ Tail(inbox) \in Seq(Events)
BY DEF LoopTypes

\* Every place a task can go to is a place.
LEMMA Labels ==
  /\ Rets \subseteq PCs
  /\ {"wipe", "pop", "check", "install", "popIdle", "takeIdle", "place", "requeue", "emit",
      "prune", "relock", "move", "start", "gate", "park", "parked", "respond", "mark", "unmark",
      "done", "idle", "purge", "purgeIdle", "cancelIdle", "leaveIn", "leaveOut", "ready",
      "focusClear", "attend", "decide", "send", "resync", "disarmIn", "disarmOut", "reset"}
       \subseteq PCs
BY DEF PCs, RoutinePCs, RequestPCs, NoticePCs, HookPCs, LoopPCs, Rets

USE DEF queueVars, requestVars, wrapperVars, enrollVars, statusVars, deviceVars, loopVars,
        hookVars, snapVars, Goto, Take, Aim

\* The events the surroundings raise.
LEMMA EventType == \A w \in EventNames : Event(w) \in Events
BY DEF Event, Events

-----------------------------------------------------------------------------
\* Types, step by step.

\* Types are kept by the surroundings.
LEMMA SurroundingsKeepTypes ==
  ASSUME TypeOK, TasksRight, Surroundings
  PROVE  TypeOK'
<1> \A r \in Requests : r \in Threads BY DEF Threads
<1>1. ASSUME NEW k \in Keys, Press(k) PROVE TypeOK'
  <2>1. LoopTypes'
    <3>1. Event(k) \in Events BY EventType, WorldAssumption DEF EventNames
    <3> QED BY <1>1, <3>1 DEF TypeOK, LoopTypes, Press, daemonVars, Room
  <2> QED BY <1>1, <2>1
    DEF TypeOK, AlertTypes, RequestTypes, WrapperTypes, DeviceTypes, TaskTypes, Press,
        daemonVars, Room
<1>2. CASE Unplug
  <2>1. DeviceTypes'
    BY <1>2 DEF TypeOK, DeviceTypes, Unplug, daemonVars, Room
  <2>2. LoopTypes'
    BY <1>2, EventType DEF EventNames, TypeOK, LoopTypes, Unplug, daemonVars
  <2> QED BY <1>2, <2>1, <2>2
    DEF TypeOK, AlertTypes, RequestTypes, WrapperTypes, TaskTypes, Unplug, daemonVars, Room
<1>3. CASE Plug
  <2>1. DeviceTypes'
    BY <1>3 DEF TypeOK, DeviceTypes, Plug, daemonVars, Room, Report
  <2>2. LoopTypes'
    <3>1. Event("up") \in Events /\ Report(switch) \in Events BY EventType DEF Report, EventNames
    <3>2. PICK first \in {<<Event("up"), Report(switch)>>, <<Report(switch), Event("up")>>} :
            inbox' = inbox \o first
      BY <1>3 DEF Plug
    <3>3. first \in Seq(Events)
      <4>1. \A x, y \in Events : <<x, y>> \in Seq(Events) OBVIOUS
      <4> QED BY <3>1, <4>1
    <3>4. inbox' \in Seq(Events) BY <3>2, <3>3 DEF TypeOK, LoopTypes
    <3> QED BY <1>3, <3>4 DEF TypeOK, LoopTypes, Plug, daemonVars
  <2> QED BY <1>3, <2>1, <2>2
    DEF TypeOK, AlertTypes, RequestTypes, WrapperTypes, TaskTypes, Plug, daemonVars, Room, Report
<1>4. CASE Flip
  <2>1. DeviceTypes'
    BY <1>4 DEF TypeOK, DeviceTypes, Flip, daemonVars, Room, Report
  <2>2. LoopTypes'
    BY <1>4, EventType DEF EventNames, TypeOK, LoopTypes, Flip, daemonVars, Report
  <2> QED BY <1>4, <2>1, <2>2
    DEF TypeOK, AlertTypes, RequestTypes, WrapperTypes, TaskTypes, Flip, daemonVars, Room, Report
<1>5. ASSUME NEW r \in Requests, Hangup(r) PROVE TypeOK'
  <2>1. RequestTypes'
    BY <1>5 DEF TypeOK, RequestTypes, Hangup, daemonVars
  <2>2. TaskTypes'
    BY <1>5, Labels DEF TypeOK, TaskTypes, Hangup, daemonVars
  <2> QED BY <1>5, <2>1, <2>2
    DEF TypeOK, AlertTypes, WrapperTypes, DeviceTypes, LoopTypes, Hangup, daemonVars
<1>6. ASSUME NEW t \in Requests \cup Notices, Abandon(t) PROVE TypeOK'
  <2>1. RequestTypes' BY <1>6, WokenType DEF TypeOK, RequestTypes, Abandon
  <2>2. TaskTypes' BY <1>6, Labels DEF TypeOK, TaskTypes, Abandon, Goto, Take, Aim
  <2> QED BY <1>6, <2>1, <2>2
    DEF TypeOK, AlertTypes, WrapperTypes, DeviceTypes, LoopTypes, Abandon
<1> QED BY <1>1, <1>2, <1>3, <1>4, <1>5, <1>6 DEF Surroundings

\* Types are kept by a new job.
LEMMA NewJobKeepsTypes ==
  ASSUME TypeOK, TasksRight, NEW h \in Hooks, NewJob(h)
  PROVE  TypeOK'
<1> h \in Threads BY DEF Threads
<1>0. PICK s \in Sessions :
  \/ Submit(h, s) \/ Progress(h, s) \/ (\E tool \in Tools : ToolStep(h, s, tool)) \/ Tick(h)
  \/ FocusIn(h, s) \/ FocusOut(s) \/ Join(h, s) \/ Exit(h, s)
  BY DEF NewJob
<1>1. CASE Submit(h, s)
  <2>1. AlertTypes'
    BY <1>1 DEF TypeOK, AlertTypes, Alerts, Tabs, Submit, Cancel, Job, FreeSlot
  <2>2. RequestTypes'
    BY <1>1, WokenType DEF TypeOK, RequestTypes, Submit, Cancel, Job, FreeSlot
  <2>3. TaskTypes'
    BY <1>1, Labels DEF TypeOK, TaskTypes, AlertTypes, Tabs, Rets, Submit, Cancel, Job, FreeSlot
  <2> QED BY <1>1, <2>1, <2>2, <2>3
    DEF TypeOK, WrapperTypes, DeviceTypes, LoopTypes, Submit, Cancel, Job, FreeSlot
<1>2. CASE Progress(h, s)
  <2>1. AlertTypes'
    BY <1>2 DEF TypeOK, AlertTypes, Alerts, Tabs, Progress, Cancel, Job, FreeSlot
  <2>2. RequestTypes'
    BY <1>2, WokenType DEF TypeOK, RequestTypes, Progress, Cancel, Job, FreeSlot
  <2>3. TaskTypes'
    BY <1>2, Labels DEF TypeOK, TaskTypes, AlertTypes, Tabs, Rets, Progress, Cancel, Job, FreeSlot
  <2> QED BY <1>2, <2>1, <2>2, <2>3
    DEF TypeOK, WrapperTypes, DeviceTypes, LoopTypes, Progress, Cancel, Job, FreeSlot
<1>3. ASSUME NEW tool \in Tools, ToolStep(h, s, tool) PROVE TypeOK'
  <2>1. AlertTypes'
    BY <1>3 DEF TypeOK, AlertTypes, Alerts, Tabs, ToolStep, Cancel, Job, FreeSlot
  <2>2. RequestTypes'
    BY <1>3, WokenType DEF TypeOK, RequestTypes, ToolStep, Cancel, Job, FreeSlot
  <2>3. TaskTypes'
    BY <1>3, Labels DEF TypeOK, TaskTypes, AlertTypes, Tabs, Rets, ToolStep, Cancel, Job, FreeSlot
  <2> QED BY <1>3, <2>1, <2>2, <2>3
    DEF TypeOK, WrapperTypes, DeviceTypes, LoopTypes, ToolStep, Cancel, Job, FreeSlot
<1>4. CASE Tick(h)
  <2>1. TaskTypes'
    BY <1>4, Labels DEF TypeOK, TaskTypes, Tick
  <2> QED BY <1>4, <2>1
    DEF TypeOK, AlertTypes, RequestTypes, WrapperTypes, DeviceTypes, LoopTypes, Tick
<1>5. CASE FocusIn(h, s)
  <2>1. WrapperTypes'
    BY <1>5 DEF TypeOK, WrapperTypes, FocusIn, Job
  <2>2. TaskTypes'
    BY <1>5, Labels DEF TypeOK, TaskTypes, FocusIn, Job
  <2> QED BY <1>5, <2>1, <2>2
    DEF TypeOK, AlertTypes, RequestTypes, DeviceTypes, LoopTypes, FocusIn, Job
<1>6. CASE FocusOut(s)
  <2>1. WrapperTypes'
    BY <1>6 DEF TypeOK, WrapperTypes, FocusOut
  <2> QED BY <1>6, <2>1
    DEF TypeOK, AlertTypes, RequestTypes, DeviceTypes, LoopTypes, TaskTypes, FocusOut
<1>7. CASE Join(h, s)
  <2>1. WrapperTypes'
    BY <1>7 DEF TypeOK, WrapperTypes, Join
  <2>2. TaskTypes'
    BY <1>7, Labels DEF TypeOK, TaskTypes, Join
  <2> QED BY <1>7, <2>1, <2>2 DEF TypeOK, AlertTypes, RequestTypes, DeviceTypes, LoopTypes, Join
<1>8. CASE Exit(h, s)
  <2>1. WrapperTypes'
    BY <1>8 DEF TypeOK, WrapperTypes, Exit, Job
  <2>2. TaskTypes'
    BY <1>8, Labels DEF TypeOK, TaskTypes, Exit, Job
  <2> QED BY <1>8, <2>1, <2>2
    DEF TypeOK, AlertTypes, RequestTypes, DeviceTypes, LoopTypes, Exit, Job
<1> QED BY <1>0, <1>1, <1>2, <1>3, <1>4, <1>5, <1>6, <1>7, <1>8

\* Types are kept by a notice that is raised.
LEMMA RaiseKeepsTypes ==
  ASSUME TypeOK, TasksRight, NEW n \in Notices, Raise(n)
  PROVE  TypeOK'
<1> n \in Threads BY DEF Threads
<1>1. CASE Raise(n)
  <2>1. TaskTypes'
    BY <1>1, Labels, TabType DEF TypeOK, TaskTypes, WrapperTypes, Tabs, Alerts, Rets, Raise
  <2> QED BY <1>1, <2>1
    DEF TypeOK, AlertTypes, RequestTypes, WrapperTypes, DeviceTypes, LoopTypes, Raise
<1> QED BY <1>1

\* Types are kept by an enrollment mark.
LEMMA MarksKeepTypes ==
  ASSUME TypeOK, TasksRight, NEW t \in Requests \cup {Loop}, Mark(t) \/ Unmark(t)
  PROVE  TypeOK'
<1> t \in Threads BY DEF Threads
<1>0. pc[t] = "mark" => Marked(t) \in Sessions
  BY SessionsAssumption, ThreadsAssumption DEF TasksRight, LoopRight, Marked, Alerts
<1>1. CASE Mark(t)
  <2>1. WrapperTypes'
    BY <1>1, <1>0 DEF TypeOK, WrapperTypes, Mark
  <2>2. TaskTypes'
    BY <1>1, Labels DEF TypeOK, TaskTypes, Mark
  <2> QED BY <1>1, <2>1, <2>2 DEF TypeOK, AlertTypes, RequestTypes, DeviceTypes, LoopTypes, Mark
<1>2. CASE Unmark(t)
  <2>1. WrapperTypes'
    BY <1>2 DEF TypeOK, WrapperTypes, Unmark
  <2>2. TaskTypes'
    BY <1>2, Labels DEF TypeOK, TaskTypes, Unmark
  <2> QED BY <1>2, <2>1, <2>2 DEF TypeOK, AlertTypes, RequestTypes, DeviceTypes, LoopTypes, Unmark
<1> QED BY <1>1, <1>2

\* Types are kept by the routines of AlertSlot.
LEMMA RoutineKeepsTypes ==
  ASSUME TypeOK, TasksRight, NEW t \in Threads, Routine(t)
  PROVE  TypeOK'
<1>1. CASE Wipe(t)
  <2>1. DeviceTypes'
    BY <1>1, ClearedType DEF TypeOK, DeviceTypes, Wipe, AfterWipe
  <2>2. TaskTypes'
    BY <1>1, Labels DEF TypeOK, TaskTypes, Wipe, AfterWipe
  <2> QED BY <1>1, <2>1, <2>2
    DEF TypeOK, AlertTypes, RequestTypes, WrapperTypes, LoopTypes, Wipe, AfterWipe
<1>2. CASE Pop(t)
  <2>1. AlertTypes'
    BY <1>2, WithoutType DEF TypeOK, AlertTypes, Alerts, Tabs, Pop
  <2>2. TaskTypes'
    BY <1>2, Labels, QueuedAlerts DEF TypeOK, TaskTypes, AlertTypes, Alerts, Pop
  <2> QED BY <1>2, <2>1, <2>2 DEF TypeOK, RequestTypes, WrapperTypes, DeviceTypes, LoopTypes, Pop
<1>3. CASE PopNothing(t)
  <2>1. TaskTypes'
    BY <1>3, Labels DEF TypeOK, TaskTypes, PopNothing, AfterPrompts
  <2> QED BY <1>3, <2>1
    DEF TypeOK, AlertTypes, RequestTypes, WrapperTypes, DeviceTypes, LoopTypes, PopNothing,
        AfterPrompts
<1>4. CASE Check(t)
  <2>1. RequestTypes'
    BY <1>4, WokenType DEF TypeOK, RequestTypes, Check, Approves, Declines, Enrollable
  <2>2. TaskTypes'
    BY <1>4, Labels, TabType
    DEF TypeOK, TaskTypes, WrapperTypes, Tabs, Check, Approves, Declines, Enrollable
  <2> QED BY <1>4, <2>1, <2>2
    DEF TypeOK, AlertTypes, WrapperTypes, DeviceTypes, LoopTypes, Check, Approves, Declines,
        Enrollable
<1>5. CASE InstallNext(t)
  <2>1. hand[t] \in Requests /\ tabOf[t] \in Nat
    BY <1>5 DEF TypeOK, TaskTypes, Tabs, NoTab, TasksRight, CarriesRight, InstallNext
  <2>2. AlertTypes'
    BY <1>5, <2>1, PushType DEF TypeOK, AlertTypes, Alerts, Tabs, InstallNext, Install
  <2>3. RequestTypes'
    BY <1>5, WokenType DEF TypeOK, RequestTypes, InstallNext, Install
  <2>4. DeviceTypes'
    BY <1>5, <2>1, ScreenType DEF TypeOK, DeviceTypes, Alerts, InstallNext, Install
  <2>5. TaskTypes'
    BY <1>5, Labels DEF TypeOK, TaskTypes, InstallNext, Install
  <2> QED BY <1>5, <2>2, <2>3, <2>4, <2>5
    DEF TypeOK, WrapperTypes, LoopTypes, InstallNext, Install
<1>6. CASE PeekSlot(t)
  <2>1. TaskTypes'
    BY <1>6, Labels DEF TypeOK, TaskTypes, PeekSlot
  <2> QED BY <1>6, <2>1
    DEF TypeOK, AlertTypes, RequestTypes, WrapperTypes, DeviceTypes, LoopTypes, PeekSlot
<1>7. CASE TakeIdle(t)
  <2>1. AlertTypes'
    BY <1>7, WithoutType DEF TypeOK, AlertTypes, Alerts, Tabs, TakeIdle
  <2>2. TaskTypes'
    BY <1>7, Labels, TabType, QueuedAlerts
    DEF TypeOK, TaskTypes, AlertTypes, Alerts, WrapperTypes, Tabs, TakeIdle
  <2> QED BY <1>7, <2>1, <2>2
    DEF TypeOK, RequestTypes, WrapperTypes, DeviceTypes, LoopTypes, TakeIdle
<1>8. CASE TakeNoIdle(t)
  <2>1. TaskTypes'
    BY <1>8, Labels DEF TypeOK, TaskTypes, TakeNoIdle
  <2> QED BY <1>8, <2>1
    DEF TypeOK, AlertTypes, RequestTypes, WrapperTypes, DeviceTypes, LoopTypes, TakeNoIdle
<1>9. CASE Place(t)
  <2>1. hand[t] \in Notices /\ tabOf[t] \in Nat
    BY <1>9 DEF TypeOK, TaskTypes, Tabs, NoTab, TasksRight, CarriesRight, Place
  <2>2. AlertTypes'
    BY <1>9, <2>1 DEF TypeOK, AlertTypes, Alerts, Tabs, Place, Install, AfterPlace
  <2>3. DeviceTypes'
    BY <1>9, <2>1, ScreenType DEF TypeOK, DeviceTypes, Alerts, Place, Install, AfterPlace
  <2>4. TaskTypes'
    BY <1>9, Labels DEF TypeOK, TaskTypes, Place, Install, AfterPlace
  <2> QED BY <1>9, <2>2, <2>3, <2>4
    DEF TypeOK, RequestTypes, WrapperTypes, LoopTypes, Place, Install, AfterPlace
<1>10. CASE Requeue(t)
  <2>1. hand[t] \in Notices
    BY <1>10 DEF TypeOK, TaskTypes, Tabs, NoTab, TasksRight, CarriesRight, Requeue
  <2>2. AlertTypes'
    BY <1>10, <2>1, WithoutType, PushType, ReplaceType
    DEF TypeOK, AlertTypes, Alerts, Tabs, Requeue, AfterPlace
  <2>3. TaskTypes'
    BY <1>10, Labels DEF TypeOK, TaskTypes, Requeue, AfterPlace
  <2> QED BY <1>10, <2>2, <2>3
    DEF TypeOK, RequestTypes, WrapperTypes, DeviceTypes, LoopTypes, Requeue, AfterPlace
<1>11. CASE Emit(t)
  <2>1. TaskTypes'
    BY <1>11, Labels DEF TypeOK, TaskTypes, WrapperTypes, Alerts, Threads, Rets, Emit, AfterEmit
  <2> QED BY <1>11, <2>1
    DEF TypeOK, AlertTypes, RequestTypes, WrapperTypes, DeviceTypes, LoopTypes, Emit, AfterEmit
<1>12. CASE Prune(t)
  <2>1. slot # None => SessionOf[slot] \in Sessions
    BY SessionsAssumption DEF TypeOK, AlertTypes, Alerts
  <2>2. AlertTypes'
    BY <1>12, WithoutType DEF TypeOK, AlertTypes, Alerts, Tabs, Prune
  <2>3. RequestTypes'
    BY <1>12, WokenType DEF TypeOK, RequestTypes, Prune
  <2>4. TaskTypes'
    BY <1>12, <2>1, Labels DEF TypeOK, TaskTypes, AlertTypes, Alerts, Prune
  <2> QED BY <1>12, <2>2, <2>3, <2>4 DEF TypeOK, WrapperTypes, DeviceTypes, LoopTypes, Prune
<1>13. CASE Relock(t)
  <2>1. Position(snap[t], seen[t]) \in Nat
    BY PositionType DEF TypeOK, TaskTypes
  <2>2. AlertTypes'
    BY <1>13, <2>1, PositionType DEF TypeOK, AlertTypes, Alerts, Tabs, Relock, FreeSlot
  <2>3. RequestTypes'
    BY <1>13, WokenType DEF TypeOK, RequestTypes, Relock, FreeSlot
  <2>4. TaskTypes'
    BY <1>13, Labels DEF TypeOK, TaskTypes, AlertTypes, Tabs, Relock, FreeSlot
  <2> QED BY <1>13, <2>2, <2>3, <2>4
    DEF TypeOK, WrapperTypes, DeviceTypes, LoopTypes, Relock, FreeSlot
<1>14. CASE Move(t)
  <2>1. hand[t] \in Alerts /\ Position(snap[t], seen[t]) \in Nat
    BY <1>14, PositionType DEF TypeOK, TaskTypes, Tabs, NoTab, TasksRight, CarriesRight, Move
  <2>2. DeviceTypes'
    BY <1>14, <2>1, ClearedType, PositionType DEF TypeOK, DeviceTypes, Alerts, Tabs, Move
  <2>3. TaskTypes'
    BY <1>14, Labels DEF TypeOK, TaskTypes, Move
  <2> QED BY <1>14, <2>2, <2>3 DEF TypeOK, AlertTypes, RequestTypes, WrapperTypes, LoopTypes, Move
<1> QED BY <1>1, <1>2, <1>3, <1>4, <1>5, <1>6, <1>7, <1>8, <1>9, <1>10, <1>11, <1>12, <1>13, <1>14
  DEF Routine

\* Types are kept by the permission hook.
LEMMA RequestKeepsTypes ==
  ASSUME TypeOK, TasksRight, NEW r \in Requests, Request(r)
  PROVE  TypeOK'
<1> r \in Threads BY DEF Threads
<1>1. CASE Gate(r)
  <2>1. RequestTypes'
    BY <1>1 DEF TypeOK, RequestTypes, Gate
  <2>2. TaskTypes'
    BY <1>1, Labels, TabType DEF TypeOK, TaskTypes, WrapperTypes, Tabs, Gate
  <2> QED BY <1>1, <2>1, <2>2 DEF TypeOK, AlertTypes, WrapperTypes, DeviceTypes, LoopTypes, Gate
<1>2. CASE Enrolled(r)
  <2>1. RequestTypes'
    BY <1>2 DEF TypeOK, RequestTypes, Enrolled
  <2>2. TaskTypes'
    BY <1>2, Labels, TabType DEF TypeOK, TaskTypes, WrapperTypes, Tabs, Enrolled
  <2> QED BY <1>2, <2>1, <2>2
    DEF TypeOK, AlertTypes, WrapperTypes, DeviceTypes, LoopTypes, Enrolled
<1>3. CASE Park(r)
  <2>1. tabOf[r] \in Nat
    BY <1>3 DEF TypeOK, TaskTypes, Tabs, NoTab, TasksRight, CarriesRight, Park
  <2>2. AlertTypes'
    BY <1>3, <2>1, PushType DEF TypeOK, AlertTypes, Alerts, Tabs, Park, Install
  <2>3. RequestTypes'
    BY <1>3 DEF TypeOK, RequestTypes, Park, Install
  <2>4. DeviceTypes'
    BY <1>3, <2>1, ScreenType DEF TypeOK, DeviceTypes, Alerts, Park, Install
  <2>5. TaskTypes'
    BY <1>3, Labels DEF TypeOK, TaskTypes, Park, Install
  <2> QED BY <1>3, <2>2, <2>3, <2>4, <2>5 DEF TypeOK, WrapperTypes, LoopTypes, Park, Install
<1>4. CASE Timeout(r)
  <2>1. RequestTypes'
    BY <1>4 DEF TypeOK, RequestTypes, Timeout
  <2> QED BY <1>4, <2>1
    DEF TypeOK, AlertTypes, WrapperTypes, DeviceTypes, LoopTypes, TaskTypes, Timeout
<1>5. CASE Settle(r)
  <2>1. AlertTypes'
    BY <1>5 DEF TypeOK, AlertTypes, Alerts, Tabs, Settle, FreeSlot
  <2>2. RequestTypes'
    BY <1>5, WokenType DEF TypeOK, RequestTypes, Settle, FreeSlot
  <2>3. TaskTypes'
    BY <1>5, Labels DEF TypeOK, TaskTypes, AlertTypes, Tabs, Rets, Settle, FreeSlot
  <2> QED BY <1>5, <2>1, <2>2, <2>3
    DEF TypeOK, WrapperTypes, DeviceTypes, LoopTypes, Settle, FreeSlot
<1>6. CASE Respond(r)
  <2>1. RequestTypes'
    BY <1>6 DEF TypeOK, RequestTypes, Respond, ReplyTo
  <2>2. TaskTypes'
    BY <1>6, Labels DEF TypeOK, TaskTypes, Respond, ReplyTo
  <2> QED BY <1>6, <2>1, <2>2
    DEF TypeOK, AlertTypes, WrapperTypes, DeviceTypes, LoopTypes, Respond, ReplyTo
<1> QED BY <1>1, <1>2, <1>3, <1>4, <1>5, <1>6 DEF Request

\* Types are kept by a job under way.
LEMMA HookKeepsTypes ==
  ASSUME TypeOK, TasksRight, NEW h \in Hooks, Hook(h)
  PROVE  TypeOK'
<1> h \in Threads BY DEF Threads
<1>1. CASE PurgePending(h)
  <2>1. AlertTypes'
    BY <1>1, WithoutType DEF TypeOK, AlertTypes, Alerts, Tabs, PurgePending, Job, PromoteIfFreed
  <2>2. RequestTypes'
    BY <1>1, WokenType DEF TypeOK, RequestTypes, PurgePending, Job, PromoteIfFreed
  <2>3. TaskTypes'
    BY <1>1, Labels DEF TypeOK, TaskTypes, PurgePending, Job, PromoteIfFreed
  <2> QED BY <1>1, <2>1, <2>2, <2>3
    DEF TypeOK, WrapperTypes, DeviceTypes, LoopTypes, PurgePending, Job, PromoteIfFreed
<1>2. CASE PurgeIdle(h)
  <2>1. AlertTypes'
    BY <1>2, WithoutType DEF TypeOK, AlertTypes, Alerts, Tabs, PurgeIdle, Job, PromoteIfFreed
  <2>2. TaskTypes'
    BY <1>2, Labels DEF TypeOK, TaskTypes, PurgeIdle, Job, PromoteIfFreed
  <2> QED BY <1>2, <2>1, <2>2
    DEF TypeOK, RequestTypes, WrapperTypes, DeviceTypes, LoopTypes, PurgeIdle, Job, PromoteIfFreed
<1>3. CASE CancelIdle(h)
  <2>1. AlertTypes'
    BY <1>3 DEF TypeOK, AlertTypes, Alerts, Tabs, CancelIdle, FreeSlot, Job
  <2>2. RequestTypes'
    BY <1>3, WokenType DEF TypeOK, RequestTypes, CancelIdle, FreeSlot, Job
  <2>3. TaskTypes'
    BY <1>3, Labels DEF TypeOK, TaskTypes, AlertTypes, Tabs, Rets, CancelIdle, FreeSlot, Job
  <2> QED BY <1>3, <2>1, <2>2, <2>3
    DEF TypeOK, WrapperTypes, DeviceTypes, LoopTypes, CancelIdle, FreeSlot, Job
<1>4. CASE LeaveOptIn(h)
  <2>1. WrapperTypes'
    BY <1>4 DEF TypeOK, WrapperTypes, LeaveOptIn
  <2>2. TaskTypes'
    BY <1>4, Labels DEF TypeOK, TaskTypes, LeaveOptIn
  <2> QED BY <1>4, <2>1, <2>2
    DEF TypeOK, AlertTypes, RequestTypes, DeviceTypes, LoopTypes, LeaveOptIn
<1>5. CASE LeaveOptOut(h)
  <2>1. WrapperTypes'
    BY <1>5 DEF TypeOK, WrapperTypes, LeaveOptOut, Job
  <2>2. TaskTypes'
    BY <1>5, Labels DEF TypeOK, TaskTypes, LeaveOptOut, Job
  <2> QED BY <1>5, <2>1, <2>2
    DEF TypeOK, AlertTypes, RequestTypes, DeviceTypes, LoopTypes, LeaveOptOut, Job
<1> QED BY <1>1, <1>2, <1>3, <1>4, <1>5 DEF Hook

\* Types are kept by the event loop.
LEMMA EventHandlerKeepsTypes ==
  ASSUME TypeOK, TasksRight, EventHandler
  PROVE  TypeOK'
<1> Loop \in Threads BY DEF Threads
<1>1. CASE TakeKey
  <2>1. LoopTypes'
    BY <1>1, FirstEvent DEF TypeOK, LoopTypes, AlertTypes, TakeKey, Receive
  <2>2. TaskTypes'
    BY <1>1, Labels DEF TypeOK, TaskTypes, TakeKey, Receive
  <2> QED BY <1>1, <2>1, <2>2
    DEF TypeOK, AlertTypes, RequestTypes, WrapperTypes, DeviceTypes, TakeKey, Receive
<1>2. CASE FocusClear
  <2>1. AlertTypes'
    BY <1>2 DEF TypeOK, AlertTypes, Alerts, Tabs, FocusClear, FreeSlot
  <2>2. RequestTypes'
    BY <1>2, WokenType DEF TypeOK, RequestTypes, FocusClear, FreeSlot
  <2>3. TaskTypes'
    BY <1>2, Labels DEF TypeOK, TaskTypes, AlertTypes, Tabs, Rets, FocusClear, FreeSlot
  <2> QED BY <1>2, <2>1, <2>2, <2>3
    DEF TypeOK, WrapperTypes, DeviceTypes, LoopTypes, FocusClear, FreeSlot
<1>3. CASE Attend
  <2>1. LoopTypes'
    BY <1>3 DEF TypeOK, LoopTypes, Attend
  <2>2. TaskTypes'
    BY <1>3, Labels DEF TypeOK, TaskTypes, Attend
  <2> QED BY <1>3, <2>1, <2>2
    DEF TypeOK, AlertTypes, RequestTypes, WrapperTypes, DeviceTypes, Attend
<1>4. CASE Decide
  <2>1. AlertTypes'
    BY <1>4 DEF TypeOK, AlertTypes, Alerts, Tabs, Decide, Meets, FreeSlot
  <2>2. RequestTypes'
    BY <1>4, WokenType DEF TypeOK, RequestTypes, Decide, Meets, FreeSlot
  <2>3. LoopTypes'
    BY <1>4 DEF TypeOK, LoopTypes, Decide, Meets, FreeSlot
  <2>4. TaskTypes'
    <3>1. slot \in Requests => SessionOf[slot] \in Sessions BY SessionsAssumption DEF Alerts
    <3> QED BY <1>4, <3>1, Labels
      DEF TypeOK, TaskTypes, AlertTypes, Alerts, Tabs, Rets, Decide, Meets, FreeSlot
  <2> QED BY <1>4, <2>1, <2>2, <2>3, <2>4
      DEF TypeOK, WrapperTypes, DeviceTypes, Decide, Meets, FreeSlot
<1>5. CASE Send
  <2>1. RequestTypes'
    BY <1>5, WokenType DEF TypeOK, RequestTypes, Send
  <2>2. LoopTypes'
    BY <1>5 DEF TypeOK, LoopTypes, Send
  <2>3. TaskTypes'
    BY <1>5, Labels DEF TypeOK, TaskTypes, Send
  <2> QED BY <1>5, <2>1, <2>2, <2>3 DEF TypeOK, AlertTypes, WrapperTypes, DeviceTypes, Send
<1>6. CASE TakeUp
  <2>1. DeviceTypes'
    BY <1>6 DEF TypeOK, DeviceTypes, TakeUp, Receive
  <2>2. LoopTypes'
    BY <1>6, FirstEvent DEF TypeOK, LoopTypes, TakeUp, Receive
  <2>3. TaskTypes'
    BY <1>6, Labels DEF TypeOK, TaskTypes, TakeUp, Receive
  <2> QED BY <1>6, <2>1, <2>2, <2>3
    DEF TypeOK, AlertTypes, RequestTypes, WrapperTypes, TakeUp, Receive
<1>7. CASE Resync
  <2>1. slot # None => <<slotTab, slot>> \in Tabs \X Alerts
    BY DEF TypeOK, AlertTypes
  <2>2. DeviceTypes'
    BY <1>7, <2>1 DEF TypeOK, DeviceTypes, AlertTypes, Alerts, Tabs, Resync, Resynced
  <2>3. TaskTypes'
    BY <1>7, Labels DEF TypeOK, TaskTypes, Resync, Resynced
  <2> QED BY <1>7, <2>2, <2>3
    DEF TypeOK, AlertTypes, RequestTypes, WrapperTypes, LoopTypes, Resync, Resynced
<1>8. CASE TakeDown
  <2>1. DeviceTypes'
    BY <1>8 DEF TypeOK, DeviceTypes, TakeDown, Receive
  <2>2. LoopTypes'
    BY <1>8, FirstEvent DEF TypeOK, LoopTypes, TakeDown, Receive
  <2>3. TaskTypes'
    BY <1>8, Labels DEF TypeOK, TaskTypes, TakeDown, Receive
  <2> QED BY <1>8, <2>1, <2>2, <2>3
    DEF TypeOK, AlertTypes, RequestTypes, WrapperTypes, TakeDown, Receive
<1>9. CASE TakeState
  <2>1. DeviceTypes'
    BY <1>9 DEF TypeOK, DeviceTypes, Receive, TakeState, Receive
  <2>2. LoopTypes'
    BY <1>9, FirstEvent DEF TypeOK, LoopTypes, TakeState, Receive
  <2>3. TaskTypes'
    BY <1>9, Labels DEF TypeOK, TaskTypes, WrapperTypes, TakeState, Receive
  <2> QED BY <1>9, <2>1, <2>2, <2>3
    DEF TypeOK, AlertTypes, RequestTypes, WrapperTypes, TakeState, Receive
<1>10. CASE DisarmIn
  <2>1. WrapperTypes'
    BY <1>10 DEF TypeOK, WrapperTypes, DisarmIn
  <2>2. TaskTypes'
    BY <1>10, Labels DEF TypeOK, TaskTypes, DisarmIn
  <2> QED BY <1>10, <2>1, <2>2
    DEF TypeOK, AlertTypes, RequestTypes, DeviceTypes, LoopTypes, DisarmIn
<1>11. CASE DisarmOut
  <2>1. WrapperTypes'
    BY <1>11 DEF TypeOK, WrapperTypes, DisarmOut
  <2>2. LoopTypes'
    BY <1>11 DEF TypeOK, LoopTypes, DisarmOut
  <2>3. TaskTypes'
    BY <1>11, Labels DEF TypeOK, TaskTypes, DisarmOut
  <2> QED BY <1>11, <2>1, <2>2, <2>3 DEF TypeOK, AlertTypes, RequestTypes, DeviceTypes, DisarmOut
<1>12. CASE Reset
  <2>1. AlertTypes'
    BY <1>12, EmptyType DEF TypeOK, AlertTypes, Alerts, Tabs, Reset, QueueAfterReset
  <2>2. RequestTypes'
    BY <1>12, WokenType DEF TypeOK, RequestTypes, Reset, QueueAfterReset
  <2>3. TaskTypes'
    BY <1>12, Labels DEF TypeOK, TaskTypes, Reset, QueueAfterReset
  <2> QED BY <1>12, <2>1, <2>2, <2>3
    DEF TypeOK, WrapperTypes, DeviceTypes, LoopTypes, Reset, QueueAfterReset
<1> QED BY <1>1, <1>2, <1>3, <1>4, <1>5, <1>6, <1>7, <1>8, <1>9, <1>10, <1>11, <1>12
  DEF EventHandler

-----------------------------------------------------------------------------
\* What tasks carry, step by step.

\* A step of t leaves what every other task carries alone.
Same(u) ==
  /\ pc'[u] = pc[u] /\ ret'[u] = ret[u] /\ hand'[u] = hand[u] /\ tabOf'[u] = tabOf[u]
  /\ scope'[u] = scope[u] /\ arg'[u] = arg[u]
OthersSame(t) == \A u \in Threads \ {t} : Same(u)

\* It is enough to look at the task that moves, and at the key of the event loop.
LEMMA StepRight ==
  ASSUME TasksRight, NEW t \in Threads, OthersSame(t), CarriesRight(t)', HookRight(t)',
         IF t = Loop THEN LoopRight' ELSE key' = key
  PROVE  TasksRight'
<1>1. ASSUME NEW u \in Threads \ {t} PROVE CarriesRight(u)' /\ HookRight(u)'
  BY DEF OthersSame, Same, TasksRight, CarriesRight, HookRight
<1>2. LoopRight'
  <2>1. CASE t = Loop BY <2>1
  <2>2. CASE t # Loop
    <3>1. Same(Loop) /\ key' = key BY <2>2 DEF OthersSame, Threads
    <3> QED BY <3>1 DEF Same, TasksRight, LoopRight
  <2> QED BY <2>1, <2>2
<1> QED BY <1>1, <1>2 DEF TasksRight

\* A step that moves no task and leaves the key in hand alone.
LEMMA AllSameRight ==
  ASSUME TasksRight, \A u \in Threads : Same(u), key' = key
  PROVE  TasksRight'
BY DEF Same, TasksRight, CarriesRight, HookRight, LoopRight, Threads

\* Other tasks do not move with a new job.
LEMMA NewJobOthers ==
  ASSUME TypeOK, NEW h \in Hooks, NewJob(h)
  PROVE  OthersSame(h)
<1> h \in Threads /\ h # Loop BY ThreadsAssumption DEF Threads
<1>0. PICK s \in Sessions :
  \/ Submit(h, s) \/ Progress(h, s) \/ (\E tool \in Tools : ToolStep(h, s, tool)) \/ Tick(h)
  \/ FocusIn(h, s) \/ FocusOut(s) \/ Join(h, s) \/ Exit(h, s)
  BY DEF NewJob
<1>1. CASE Submit(h, s)
  BY <1>1 DEF OthersSame, Same, TypeOK, TaskTypes, Submit, Cancel, Job, FreeSlot
<1>2. CASE Progress(h, s)
  BY <1>2 DEF OthersSame, Same, TypeOK, TaskTypes, Progress, Cancel, Job, FreeSlot
<1>3. ASSUME NEW tool \in Tools, ToolStep(h, s, tool) PROVE OthersSame(h)
  BY <1>3 DEF OthersSame, Same, TypeOK, TaskTypes, ToolStep, Cancel, Job, FreeSlot
<1>4. CASE Tick(h)
  BY <1>4 DEF OthersSame, Same, TypeOK, TaskTypes, Tick
<1>5. CASE FocusIn(h, s)
  BY <1>5 DEF OthersSame, Same, TypeOK, TaskTypes, FocusIn, Job
<1>6. CASE FocusOut(s)
  BY <1>6 DEF OthersSame, Same, FocusOut
<1>7. CASE Join(h, s)
  BY <1>7 DEF OthersSame, Same, TypeOK, TaskTypes, Join
<1>8. CASE Exit(h, s)
  BY <1>8 DEF OthersSame, Same, TypeOK, TaskTypes, Exit, Job
<1> QED BY <1>0, <1>1, <1>2, <1>3, <1>4, <1>5, <1>6, <1>7, <1>8

\* Other tasks do not move with a notice that is raised.
LEMMA RaiseOthers ==
  ASSUME TypeOK, NEW n \in Notices, Raise(n)
  PROVE  OthersSame(n)
<1> n \in Threads /\ n # Loop BY ThreadsAssumption DEF Threads
<1>1. CASE Raise(n)
  BY <1>1 DEF OthersSame, Same, TypeOK, TaskTypes, Raise
<1> QED BY <1>1

\* Other tasks do not move with an enrollment mark.
LEMMA MarksOthers ==
  ASSUME TypeOK, NEW t \in Requests \cup {Loop}, Mark(t) \/ Unmark(t)
  PROVE  OthersSame(t)
<1> t \in Threads BY DEF Threads
<1>1. CASE Mark(t)
  BY <1>1 DEF OthersSame, Same, TypeOK, TaskTypes, Mark, Marked, Allows
<1>2. CASE Unmark(t)
  BY <1>2 DEF OthersSame, Same, TypeOK, TaskTypes, Unmark, Marked, Allows
<1> QED BY <1>1, <1>2

\* Other tasks do not move with the routines of AlertSlot.
LEMMA RoutineOthers ==
  ASSUME TypeOK, NEW t \in Threads, Routine(t)
  PROVE  OthersSame(t)
<1>1. CASE Wipe(t)
  BY <1>1 DEF OthersSame, Same, TypeOK, TaskTypes, Wipe, AfterWipe
<1>2. CASE Pop(t)
  BY <1>2 DEF OthersSame, Same, TypeOK, TaskTypes, Pop
<1>3. CASE PopNothing(t)
  BY <1>3 DEF OthersSame, Same, TypeOK, TaskTypes, PopNothing, AfterPrompts
<1>4. CASE Check(t)
  BY <1>4 DEF OthersSame, Same, TypeOK, TaskTypes, Check, Approves, Declines, Enrollable
<1>5. CASE InstallNext(t)
  BY <1>5 DEF OthersSame, Same, TypeOK, TaskTypes, InstallNext, Install
<1>6. CASE PeekSlot(t)
  BY <1>6 DEF OthersSame, Same, TypeOK, TaskTypes, PeekSlot
<1>7. CASE TakeIdle(t)
  BY <1>7 DEF OthersSame, Same, TypeOK, TaskTypes, TakeIdle
<1>8. CASE TakeNoIdle(t)
  BY <1>8 DEF OthersSame, Same, TypeOK, TaskTypes, TakeNoIdle
<1>9. CASE Place(t)
  BY <1>9 DEF OthersSame, Same, TypeOK, TaskTypes, Place, Install, AfterPlace
<1>10. CASE Requeue(t)
  BY <1>10 DEF OthersSame, Same, TypeOK, TaskTypes, Requeue, AfterPlace
<1>11. CASE Emit(t)
  BY <1>11 DEF OthersSame, Same, TypeOK, TaskTypes, Emit, AfterEmit
<1>12. CASE Prune(t)
  BY <1>12 DEF OthersSame, Same, TypeOK, TaskTypes, Prune
<1>13. CASE Relock(t)
  BY <1>13 DEF OthersSame, Same, TypeOK, TaskTypes, Relock, FreeSlot
<1>14. CASE Move(t)
  BY <1>14 DEF OthersSame, Same, TypeOK, TaskTypes, Move
<1> QED BY <1>1, <1>2, <1>3, <1>4, <1>5, <1>6, <1>7, <1>8, <1>9, <1>10, <1>11, <1>12, <1>13, <1>14
  DEF Routine

\* Other tasks do not move with the permission hook.
LEMMA RequestOthers ==
  ASSUME TypeOK, NEW r \in Requests, Request(r)
  PROVE  OthersSame(r)
<1> r \in Threads /\ r # Loop BY ThreadsAssumption DEF Threads
<1>1. CASE Gate(r)
  BY <1>1 DEF OthersSame, Same, TypeOK, TaskTypes, Gate
<1>2. CASE Enrolled(r)
  BY <1>2 DEF OthersSame, Same, TypeOK, TaskTypes, Enrolled
<1>3. CASE Park(r)
  BY <1>3 DEF OthersSame, Same, TypeOK, TaskTypes, Park, Install
<1>4. CASE Timeout(r)
  BY <1>4 DEF OthersSame, Same, TypeOK, TaskTypes, Timeout
<1>5. CASE Settle(r)
  BY <1>5 DEF OthersSame, Same, TypeOK, TaskTypes, Settle, FreeSlot
<1>6. CASE Respond(r)
  BY <1>6 DEF OthersSame, Same, TypeOK, TaskTypes, Respond, ReplyTo
<1> QED BY <1>1, <1>2, <1>3, <1>4, <1>5, <1>6 DEF Request

\* Other tasks do not move with a job under way.
LEMMA HookOthers ==
  ASSUME TypeOK, NEW h \in Hooks, Hook(h)
  PROVE  OthersSame(h)
<1> h \in Threads /\ h # Loop BY ThreadsAssumption DEF Threads
<1>1. CASE PurgePending(h)
  BY <1>1 DEF OthersSame, Same, TypeOK, TaskTypes, PurgePending, Job, PromoteIfFreed
<1>2. CASE PurgeIdle(h)
  BY <1>2 DEF OthersSame, Same, TypeOK, TaskTypes, PurgeIdle, Job, PromoteIfFreed
<1>3. CASE CancelIdle(h)
  BY <1>3 DEF OthersSame, Same, TypeOK, TaskTypes, CancelIdle, FreeSlot, Job
<1>4. CASE LeaveOptIn(h)
  BY <1>4 DEF OthersSame, Same, TypeOK, TaskTypes, LeaveOptIn
<1>5. CASE LeaveOptOut(h)
  BY <1>5 DEF OthersSame, Same, TypeOK, TaskTypes, LeaveOptOut, Job
<1> QED BY <1>1, <1>2, <1>3, <1>4, <1>5 DEF Hook

\* Other tasks do not move with the event loop.
LEMMA EventHandlerOthers ==
  ASSUME TypeOK, EventHandler
  PROVE  OthersSame(Loop)
<1> Loop \in Threads BY DEF Threads
<1>1. CASE TakeKey
  BY <1>1 DEF OthersSame, Same, TypeOK, TaskTypes, TakeKey, Receive
<1>2. CASE FocusClear
  BY <1>2 DEF OthersSame, Same, TypeOK, TaskTypes, FocusClear, FreeSlot
<1>3. CASE Attend
  BY <1>3 DEF OthersSame, Same, TypeOK, TaskTypes, Attend
<1>4. CASE Decide
  BY <1>4 DEF OthersSame, Same, TypeOK, TaskTypes, Decide, Meets, FreeSlot
<1>5. CASE Send
  BY <1>5 DEF OthersSame, Same, TypeOK, TaskTypes, Send
<1>6. CASE TakeUp
  BY <1>6 DEF OthersSame, Same, TypeOK, TaskTypes, TakeUp, Receive
<1>7. CASE Resync
  BY <1>7 DEF OthersSame, Same, TypeOK, TaskTypes, Resync, Resynced
<1>8. CASE TakeDown
  BY <1>8 DEF OthersSame, Same, TypeOK, TaskTypes, TakeDown, Receive
<1>9. CASE TakeState
  BY <1>9 DEF OthersSame, Same, TypeOK, TaskTypes, TakeState, Receive
<1>10. CASE DisarmIn
  BY <1>10 DEF OthersSame, Same, TypeOK, TaskTypes, DisarmIn
<1>11. CASE DisarmOut
  BY <1>11 DEF OthersSame, Same, TypeOK, TaskTypes, DisarmOut
<1>12. CASE Reset
  BY <1>12 DEF OthersSame, Same, TypeOK, TaskTypes, Reset, QueueAfterReset
<1> QED BY <1>1, <1>2, <1>3, <1>4, <1>5, <1>6, <1>7, <1>8, <1>9, <1>10, <1>11, <1>12
  DEF EventHandler

\* What tasks carry stays right under the surroundings.
LEMMA SurroundingsKeepTasksRight ==
  ASSUME TypeOK, TasksRight, Surroundings
  PROVE  TasksRight'
<1>1. ASSUME NEW k \in Keys, Press(k) PROVE TasksRight'
  BY <1>1, AllSameRight DEF Same, Press, daemonVars, Room
<1>2. CASE Unplug
  BY <1>2, AllSameRight DEF Same, Unplug, daemonVars, Room
<1>3. CASE Plug
  BY <1>3, AllSameRight DEF Same, Plug, daemonVars, Room, Report
<1>4. CASE Flip
  BY <1>4, AllSameRight DEF Same, Flip, daemonVars, Room, Report
<1>5. ASSUME NEW r \in Requests, Hangup(r) PROVE TasksRight'
  <2> r \in Threads /\ r # Loop BY ThreadsAssumption DEF Threads
  <2>0. OthersSame(r) BY <1>5 DEF OthersSame, Same, TypeOK, TaskTypes, Hangup
  <2>1. CarriesRight(r)'
    BY <1>5, ThreadsAssumption
    DEF TasksRight, CarriesRight, HandPCs, TabPCs, Marking, Rets, TypeOK, TaskTypes, Hangup,
        daemonVars
  <2>2. HookRight(r)'
    BY <1>5, ThreadsAssumption
    DEF TasksRight, HookRight, TypeOK, TaskTypes, Hangup, daemonVars
  <2> QED BY <1>5, <2>0, <2>1, <2>2, StepRight DEF Hangup, daemonVars
<1>6. ASSUME NEW t \in Requests \cup Notices, Abandon(t) PROVE TasksRight'
  <2> t \in Threads /\ t # Loop BY ThreadsAssumption DEF Threads
  <2>0. OthersSame(t)
    BY <1>6 DEF OthersSame, Same, TypeOK, TaskTypes, Abandon, Goto, Take, Aim
  <2>1. CarriesRight(t)'
    BY <1>6, ThreadsAssumption
    DEF TasksRight, CarriesRight, HandPCs, TabPCs, Marking, TypeOK, TaskTypes, Abandon, Goto,
        Take, Aim
  <2>2. HookRight(t)'
    BY <1>6, ThreadsAssumption DEF TasksRight, HookRight, TypeOK, TaskTypes, Abandon, Goto
  <2> QED BY <1>6, <2>0, <2>1, <2>2, StepRight DEF Abandon
<1> QED BY <1>1, <1>2, <1>3, <1>4, <1>5, <1>6 DEF Surroundings

\* What tasks carry stays right under a new job.
LEMMA NewJobKeepsTasksRight ==
  ASSUME TypeOK, TasksRight, NEW h \in Hooks, NewJob(h)
  PROVE  TasksRight'
<1> h \in Threads /\ h # Loop BY ThreadsAssumption DEF Threads
<1>0. OthersSame(h) BY NewJobOthers
<1>00. PICK s \in Sessions :
  \/ Submit(h, s) \/ Progress(h, s) \/ (\E tool \in Tools : ToolStep(h, s, tool)) \/ Tick(h)
  \/ FocusIn(h, s) \/ FocusOut(s) \/ Join(h, s) \/ Exit(h, s)
  BY DEF NewJob
<1>1. CASE Submit(h, s)
  <2>1. CarriesRight(h)'
    BY <1>1, ThreadsAssumption
    DEF TasksRight, CarriesRight, HandPCs, TabPCs, Marking, Rets, TypeOK, TaskTypes,
        AlertTypes, Tabs, NoTab, Submit, Cancel, Job, FreeSlot
  <2>2. HookRight(h)'
    BY <1>1, ThreadsAssumption
    DEF TasksRight, HookRight, TypeOK, TaskTypes, Submit, Cancel, Job, FreeSlot
  <2> QED BY <1>1, <1>0, <2>1, <2>2, StepRight DEF Submit, Cancel, Job, FreeSlot
<1>2. CASE Progress(h, s)
  <2>1. CarriesRight(h)'
    BY <1>2, ThreadsAssumption
    DEF TasksRight, CarriesRight, HandPCs, TabPCs, Marking, Rets, TypeOK, TaskTypes,
        AlertTypes, Tabs, NoTab, Progress, Cancel, Job, FreeSlot
  <2>2. HookRight(h)'
    BY <1>2, ThreadsAssumption
    DEF TasksRight, HookRight, TypeOK, TaskTypes, Progress, Cancel, Job, FreeSlot
  <2> QED BY <1>2, <1>0, <2>1, <2>2, StepRight DEF Progress, Cancel, Job, FreeSlot
<1>3. ASSUME NEW tool \in Tools, ToolStep(h, s, tool) PROVE TasksRight'
  <2>1. CarriesRight(h)'
    BY <1>3, ThreadsAssumption
    DEF TasksRight, CarriesRight, HandPCs, TabPCs, Marking, Rets, TypeOK, TaskTypes,
        AlertTypes, Tabs, NoTab, ToolStep, Cancel, Job, FreeSlot
  <2>2. HookRight(h)'
    BY <1>3, ThreadsAssumption
    DEF TasksRight, HookRight, TypeOK, TaskTypes, ToolStep, Cancel, Job, FreeSlot
  <2> QED BY <1>3, <1>0, <2>1, <2>2, StepRight DEF ToolStep, Cancel, Job, FreeSlot
<1>4. CASE Tick(h)
  <2>1. CarriesRight(h)'
    BY <1>4, ThreadsAssumption
    DEF TasksRight, CarriesRight, HandPCs, TabPCs, Marking, Rets, TypeOK, TaskTypes, Tick
  <2>2. HookRight(h)'
    BY <1>4, ThreadsAssumption
    DEF TasksRight, HookRight, TypeOK, TaskTypes, Tick
  <2> QED BY <1>4, <1>0, <2>1, <2>2, StepRight DEF Tick
<1>5. CASE FocusIn(h, s)
  <2>1. CarriesRight(h)'
    BY <1>5, ThreadsAssumption
    DEF TasksRight, CarriesRight, HandPCs, TabPCs, Marking, Rets, TypeOK, TaskTypes, FocusIn, Job
  <2>2. HookRight(h)'
    BY <1>5, ThreadsAssumption
    DEF TasksRight, HookRight, TypeOK, TaskTypes, FocusIn, Job
  <2> QED BY <1>5, <1>0, <2>1, <2>2, StepRight DEF FocusIn, Job
<1>6. CASE FocusOut(s)
  BY <1>6, AllSameRight DEF Same, FocusOut
<1>7. CASE Join(h, s)
  <2>1. CarriesRight(h)'
    BY <1>7, ThreadsAssumption
    DEF TasksRight, CarriesRight, HandPCs, TabPCs, Marking, Rets, TypeOK, TaskTypes, Join
  <2>2. HookRight(h)'
    BY <1>7, ThreadsAssumption
    DEF TasksRight, HookRight, TypeOK, TaskTypes, Join
  <2> QED BY <1>7, <1>0, <2>1, <2>2, StepRight DEF Join
<1>8. CASE Exit(h, s)
  <2>1. CarriesRight(h)'
    BY <1>8, ThreadsAssumption
    DEF TasksRight, CarriesRight, HandPCs, TabPCs, Marking, Rets, TypeOK, TaskTypes, Exit, Job
  <2>2. HookRight(h)'
    BY <1>8, ThreadsAssumption
    DEF TasksRight, HookRight, CarriesRight, TabPCs, Marking, Rets, TypeOK, TaskTypes, Exit, Job
  <2> QED BY <1>8, <1>0, <2>1, <2>2, StepRight DEF Exit, Job
<1> QED BY <1>00, <1>1, <1>2, <1>3, <1>4, <1>5, <1>6, <1>7, <1>8

\* What tasks carry stays right under a notice that is raised.
LEMMA RaiseKeepsTasksRight ==
  ASSUME TypeOK, TasksRight, NEW n \in Notices, Raise(n)
  PROVE  TasksRight'
<1> n \in Threads /\ n # Loop BY ThreadsAssumption DEF Threads
<1>0. OthersSame(n) BY RaiseOthers
<1>1. CASE Raise(n)
  <2>1. CarriesRight(n)'
    BY <1>1, ThreadsAssumption, TabType
    DEF TasksRight, CarriesRight, HandPCs, TabPCs, Marking, Rets, TypeOK, TaskTypes,
        WrapperTypes, NoTab, Raise
  <2>2. HookRight(n)'
    BY <1>1, ThreadsAssumption
    DEF TasksRight, HookRight, TypeOK, TaskTypes, Raise
  <2> QED BY <1>1, <1>0, <2>1, <2>2, StepRight DEF Raise
<1> QED BY <1>1

\* What tasks carry stays right under an enrollment mark.
LEMMA MarksKeepTasksRight ==
  ASSUME TypeOK, TasksRight, NEW t \in Requests \cup {Loop}, Mark(t) \/ Unmark(t)
  PROVE  TasksRight'
<1> t \in Threads BY DEF Threads
<1>0. OthersSame(t) BY MarksOthers
<1>1. CASE Mark(t)
  <2>1. CarriesRight(t)'
    BY <1>1, ThreadsAssumption
    DEF TasksRight, CarriesRight, HandPCs, TabPCs, Marking, Rets, TypeOK, TaskTypes, Mark,
        Marked, Allows
  <2>2. HookRight(t)'
    BY <1>1, ThreadsAssumption
    DEF TasksRight, HookRight, TypeOK, TaskTypes, Mark, Marked, Allows
  <2>3. IF t = Loop THEN LoopRight' ELSE key' = key
    BY <1>1
    DEF TasksRight, LoopRight, CarriesRight, HandPCs, Rets, Marking, TypeOK, TaskTypes, Mark,
        Marked, Allows
  <2> QED BY <1>0, <2>1, <2>2, <2>3, StepRight
<1>2. CASE Unmark(t)
  <2>1. CarriesRight(t)'
    BY <1>2, ThreadsAssumption
    DEF TasksRight, CarriesRight, HandPCs, TabPCs, Marking, Rets, TypeOK, TaskTypes, LoopRight,
        Unmark, Marked, Allows
  <2>2. HookRight(t)'
    BY <1>2, ThreadsAssumption
    DEF TasksRight, HookRight, TypeOK, TaskTypes, Unmark, Marked, Allows
  <2>3. IF t = Loop THEN LoopRight' ELSE key' = key
    BY <1>2
    DEF TasksRight, LoopRight, CarriesRight, HandPCs, Rets, Marking, TypeOK, TaskTypes, Unmark,
        Marked, Allows
  <2> QED BY <1>0, <2>1, <2>2, <2>3, StepRight
<1> QED BY <1>1, <1>2

\* What tasks carry stays right under the routines of AlertSlot.
LEMMA RoutineKeepsTasksRight ==
  ASSUME TypeOK, TasksRight, NEW t \in Threads, Routine(t)
  PROVE  TasksRight'
<1>0. OthersSame(t) BY RoutineOthers
<1>1. CASE Wipe(t)
  <2>1. CarriesRight(t)'
    BY <1>1, ThreadsAssumption
    DEF TasksRight, CarriesRight, HandPCs, TabPCs, Marking, Rets, TypeOK, TaskTypes, Wipe,
        AfterWipe
  <2>2. HookRight(t)'
    BY <1>1, ThreadsAssumption
    DEF TasksRight, HookRight, TypeOK, TaskTypes, Wipe, AfterWipe
  <2>3. IF t = Loop THEN LoopRight' ELSE key' = key
    BY <1>1
    DEF TasksRight, LoopRight, CarriesRight, HandPCs, Rets, Marking, TypeOK, TaskTypes, Wipe,
        AfterWipe
  <2> QED BY <1>0, <2>1, <2>2, <2>3, StepRight
<1>2. CASE Pop(t)
  <2>1. CarriesRight(t)'
    BY <1>2, ThreadsAssumption, QueuedAlerts
    DEF TasksRight, CarriesRight, HandPCs, TabPCs, Marking, Rets, TypeOK, TaskTypes,
        AlertTypes, Pop
  <2>2. HookRight(t)'
    BY <1>2, ThreadsAssumption
    DEF TasksRight, HookRight, TypeOK, TaskTypes, Pop
  <2>3. IF t = Loop THEN LoopRight' ELSE key' = key
    BY <1>2
    DEF TasksRight, LoopRight, CarriesRight, HandPCs, Rets, Marking, TypeOK, TaskTypes, Pop
  <2> QED BY <1>0, <2>1, <2>2, <2>3, StepRight
<1>3. CASE PopNothing(t)
  <2>1. CarriesRight(t)'
    BY <1>3, ThreadsAssumption
    DEF TasksRight, CarriesRight, HandPCs, TabPCs, Marking, Rets, TypeOK, TaskTypes,
        PopNothing, AfterPrompts
  <2>2. HookRight(t)'
    BY <1>3, ThreadsAssumption
    DEF TasksRight, HookRight, CarriesRight, TabPCs, Marking, Rets, TypeOK, TaskTypes,
        PopNothing, AfterPrompts
  <2>3. IF t = Loop THEN LoopRight' ELSE key' = key
    BY <1>3
    DEF TasksRight, LoopRight, CarriesRight, HandPCs, Rets, Marking, TypeOK, TaskTypes,
        PopNothing, AfterPrompts
  <2> QED BY <1>0, <2>1, <2>2, <2>3, StepRight
<1>4. CASE Check(t)
  <2>1. CarriesRight(t)'
    BY <1>4, ThreadsAssumption, TabType
    DEF TasksRight, CarriesRight, HandPCs, TabPCs, Marking, Rets, TypeOK, TaskTypes,
        WrapperTypes, NoTab, Check, Approves, Declines, Enrollable
  <2>2. HookRight(t)'
    BY <1>4, ThreadsAssumption
    DEF TasksRight, HookRight, TypeOK, TaskTypes, Check, Approves, Declines, Enrollable
  <2>3. IF t = Loop THEN LoopRight' ELSE key' = key
    BY <1>4
    DEF TasksRight, LoopRight, CarriesRight, HandPCs, Rets, Marking, TypeOK, TaskTypes, Check,
        Approves, Declines, Enrollable
  <2> QED BY <1>0, <2>1, <2>2, <2>3, StepRight
<1>5. CASE InstallNext(t)
  <2>1. CarriesRight(t)'
    BY <1>5, ThreadsAssumption
    DEF TasksRight, CarriesRight, HandPCs, TabPCs, Marking, Rets, TypeOK, TaskTypes,
        InstallNext, Install
  <2>2. HookRight(t)'
    BY <1>5, ThreadsAssumption
    DEF TasksRight, HookRight, CarriesRight, TabPCs, Marking, Rets, TypeOK, TaskTypes,
        InstallNext, Install
  <2>3. IF t = Loop THEN LoopRight' ELSE key' = key
    BY <1>5
    DEF TasksRight, LoopRight, CarriesRight, HandPCs, Rets, Marking, TypeOK, TaskTypes,
        InstallNext, Install
  <2> QED BY <1>0, <2>1, <2>2, <2>3, StepRight
<1>6. CASE PeekSlot(t)
  <2>1. CarriesRight(t)'
    BY <1>6, ThreadsAssumption
    DEF TasksRight, CarriesRight, HandPCs, TabPCs, Marking, Rets, TypeOK, TaskTypes, PeekSlot
  <2>2. HookRight(t)'
    BY <1>6, ThreadsAssumption
    DEF TasksRight, HookRight, CarriesRight, TabPCs, Marking, Rets, TypeOK, TaskTypes, PeekSlot
  <2>3. IF t = Loop THEN LoopRight' ELSE key' = key
    BY <1>6
    DEF TasksRight, LoopRight, CarriesRight, HandPCs, Rets, Marking, TypeOK, TaskTypes, PeekSlot
  <2> QED BY <1>0, <2>1, <2>2, <2>3, StepRight
<1>7. CASE TakeIdle(t)
  <2>1. CarriesRight(t)'
    BY <1>7, ThreadsAssumption, TabType, QueuedAlerts
    DEF TasksRight, CarriesRight, HandPCs, TabPCs, Marking, Rets, TypeOK, TaskTypes,
        WrapperTypes, NoTab, AlertTypes, TakeIdle
  <2>2. HookRight(t)'
    BY <1>7, ThreadsAssumption
    DEF TasksRight, HookRight, TypeOK, TaskTypes, TakeIdle
  <2>3. IF t = Loop THEN LoopRight' ELSE key' = key
    BY <1>7
    DEF TasksRight, LoopRight, CarriesRight, HandPCs, Rets, Marking, TypeOK, TaskTypes, TakeIdle
  <2> QED BY <1>0, <2>1, <2>2, <2>3, StepRight
<1>8. CASE TakeNoIdle(t)
  <2>1. CarriesRight(t)'
    BY <1>8, ThreadsAssumption
    DEF TasksRight, CarriesRight, HandPCs, TabPCs, Marking, Rets, TypeOK, TaskTypes, TakeNoIdle
  <2>2. HookRight(t)'
    BY <1>8, ThreadsAssumption
    DEF TasksRight, HookRight, CarriesRight, TabPCs, Marking, Rets, TypeOK, TaskTypes, TakeNoIdle
  <2>3. IF t = Loop THEN LoopRight' ELSE key' = key
    BY <1>8
    DEF TasksRight, LoopRight, CarriesRight, HandPCs, Rets, Marking, TypeOK, TaskTypes, TakeNoIdle
  <2> QED BY <1>0, <2>1, <2>2, <2>3, StepRight
<1>9. CASE Place(t)
  <2>1. CarriesRight(t)'
    BY <1>9, ThreadsAssumption
    DEF TasksRight, CarriesRight, HandPCs, TabPCs, Marking, Rets, TypeOK, TaskTypes, Place,
        Install, AfterPlace
  <2>2. HookRight(t)'
    BY <1>9, ThreadsAssumption
    DEF TasksRight, HookRight, TypeOK, TaskTypes, Place, Install, AfterPlace
  <2>3. IF t = Loop THEN LoopRight' ELSE key' = key
    BY <1>9
    DEF TasksRight, LoopRight, CarriesRight, HandPCs, Rets, Marking, TypeOK, TaskTypes, Place,
        Install, AfterPlace
  <2> QED BY <1>0, <2>1, <2>2, <2>3, StepRight
<1>10. CASE Requeue(t)
  <2>1. CarriesRight(t)'
    BY <1>10, ThreadsAssumption
    DEF TasksRight, CarriesRight, HandPCs, TabPCs, Marking, Rets, TypeOK, TaskTypes, Requeue,
        AfterPlace
  <2>2. HookRight(t)'
    BY <1>10, ThreadsAssumption
    DEF TasksRight, HookRight, TypeOK, TaskTypes, Requeue, AfterPlace
  <2>3. IF t = Loop THEN LoopRight' ELSE key' = key
    BY <1>10
    DEF TasksRight, LoopRight, CarriesRight, HandPCs, Rets, Marking, TypeOK, TaskTypes,
        Requeue, AfterPlace
  <2> QED BY <1>0, <2>1, <2>2, <2>3, StepRight
<1>11. CASE Emit(t)
  <2>1. CarriesRight(t)'
    BY <1>11, ThreadsAssumption
    DEF TasksRight, CarriesRight, HandPCs, TabPCs, Marking, Rets, TypeOK, TaskTypes, Emit,
        AfterEmit
  <2>2. HookRight(t)'
    BY <1>11, ThreadsAssumption
    DEF TasksRight, HookRight, TypeOK, TaskTypes, Emit, AfterEmit
  <2>3. IF t = Loop THEN LoopRight' ELSE key' = key
    BY <1>11
    DEF TasksRight, LoopRight, CarriesRight, HandPCs, Rets, Marking, TypeOK, TaskTypes, Emit,
        AfterEmit
  <2> QED BY <1>0, <2>1, <2>2, <2>3, StepRight
<1>12. CASE Prune(t)
  <2>1. CarriesRight(t)'
    BY <1>12, ThreadsAssumption
    DEF TasksRight, CarriesRight, HandPCs, TabPCs, Marking, Rets, TypeOK, TaskTypes, Prune
  <2>2. HookRight(t)'
    BY <1>12, ThreadsAssumption
    DEF TasksRight, HookRight, TypeOK, TaskTypes, Prune
  <2>3. IF t = Loop THEN LoopRight' ELSE key' = key
    BY <1>12
    DEF TasksRight, LoopRight, CarriesRight, HandPCs, Rets, Marking, TypeOK, TaskTypes, Prune
  <2> QED BY <1>0, <2>1, <2>2, <2>3, StepRight
<1>13. CASE Relock(t)
  <2>1. CarriesRight(t)'
    BY <1>13, ThreadsAssumption
    DEF TasksRight, CarriesRight, HandPCs, TabPCs, Marking, Rets, TypeOK, TaskTypes,
        AlertTypes, Tabs, NoTab, Relock, FreeSlot
  <2>2. HookRight(t)'
    BY <1>13, ThreadsAssumption
    DEF TasksRight, HookRight, CarriesRight, TabPCs, Marking, Rets, TypeOK, TaskTypes, Relock,
        FreeSlot
  <2>3. IF t = Loop THEN LoopRight' ELSE key' = key
    BY <1>13
    DEF TasksRight, LoopRight, CarriesRight, HandPCs, Rets, Marking, TypeOK, TaskTypes, Relock,
        FreeSlot
  <2> QED BY <1>0, <2>1, <2>2, <2>3, StepRight
<1>14. CASE Move(t)
  <2>1. CarriesRight(t)'
    BY <1>14, ThreadsAssumption
    DEF TasksRight, CarriesRight, HandPCs, TabPCs, Marking, Rets, TypeOK, TaskTypes, Move
  <2>2. HookRight(t)'
    BY <1>14, ThreadsAssumption
    DEF TasksRight, HookRight, CarriesRight, TabPCs, Marking, Rets, TypeOK, TaskTypes, Move
  <2>3. IF t = Loop THEN LoopRight' ELSE key' = key
    BY <1>14
    DEF TasksRight, LoopRight, CarriesRight, HandPCs, Rets, Marking, TypeOK, TaskTypes, Move
  <2> QED BY <1>0, <2>1, <2>2, <2>3, StepRight
<1> QED BY <1>1, <1>2, <1>3, <1>4, <1>5, <1>6, <1>7, <1>8, <1>9, <1>10, <1>11, <1>12, <1>13, <1>14
  DEF Routine

\* What tasks carry stays right under the permission hook.
LEMMA RequestKeepsTasksRight ==
  ASSUME TypeOK, TasksRight, NEW r \in Requests, Request(r)
  PROVE  TasksRight'
<1> r \in Threads /\ r # Loop BY ThreadsAssumption DEF Threads
<1>0. OthersSame(r) BY RequestOthers
<1>1. CASE Gate(r)
  <2>1. CarriesRight(r)'
    BY <1>1, ThreadsAssumption, TabType
    DEF TasksRight, CarriesRight, HandPCs, TabPCs, Marking, Rets, TypeOK, TaskTypes,
        WrapperTypes, NoTab, Gate
  <2>2. HookRight(r)'
    BY <1>1, ThreadsAssumption
    DEF TasksRight, HookRight, TypeOK, TaskTypes, Gate
  <2> QED BY <1>1, <1>0, <2>1, <2>2, StepRight DEF Gate
<1>2. CASE Enrolled(r)
  <2>1. CarriesRight(r)'
    BY <1>2, ThreadsAssumption, TabType
    DEF TasksRight, CarriesRight, HandPCs, TabPCs, Marking, Rets, TypeOK, TaskTypes,
        WrapperTypes, NoTab, Enrolled
  <2>2. HookRight(r)'
    BY <1>2, ThreadsAssumption
    DEF TasksRight, HookRight, TypeOK, TaskTypes, Enrolled
  <2> QED BY <1>2, <1>0, <2>1, <2>2, StepRight DEF Enrolled
<1>3. CASE Park(r)
  <2>1. CarriesRight(r)'
    BY <1>3, ThreadsAssumption
    DEF TasksRight, CarriesRight, HandPCs, TabPCs, Marking, Rets, TypeOK, TaskTypes, Park, Install
  <2>2. HookRight(r)'
    BY <1>3, ThreadsAssumption
    DEF TasksRight, HookRight, TypeOK, TaskTypes, Park, Install
  <2> QED BY <1>3, <1>0, <2>1, <2>2, StepRight DEF Park, Install
<1>4. CASE Timeout(r)
  BY <1>4, AllSameRight DEF Same, Timeout
<1>5. CASE Settle(r)
  <2>1. CarriesRight(r)'
    BY <1>5, ThreadsAssumption
    DEF TasksRight, CarriesRight, HandPCs, TabPCs, Marking, Rets, TypeOK, TaskTypes,
        AlertTypes, Tabs, NoTab, Settle, FreeSlot
  <2>2. HookRight(r)'
    BY <1>5, ThreadsAssumption
    DEF TasksRight, HookRight, TypeOK, TaskTypes, Settle, FreeSlot
  <2> QED BY <1>5, <1>0, <2>1, <2>2, StepRight DEF Settle, FreeSlot
<1>6. CASE Respond(r)
  <2>1. CarriesRight(r)'
    BY <1>6, ThreadsAssumption
    DEF TasksRight, CarriesRight, HandPCs, TabPCs, Marking, Rets, TypeOK, TaskTypes, Respond,
        ReplyTo
  <2>2. HookRight(r)'
    BY <1>6, ThreadsAssumption
    DEF TasksRight, HookRight, TypeOK, TaskTypes, Respond, ReplyTo
  <2> QED BY <1>6, <1>0, <2>1, <2>2, StepRight DEF Respond, ReplyTo
<1> QED BY <1>1, <1>2, <1>3, <1>4, <1>5, <1>6 DEF Request

\* What tasks carry stays right under a job under way.
LEMMA HookKeepsTasksRight ==
  ASSUME TypeOK, TasksRight, NEW h \in Hooks, Hook(h)
  PROVE  TasksRight'
<1> h \in Threads /\ h # Loop BY ThreadsAssumption DEF Threads
<1>0. OthersSame(h) BY HookOthers
<1>1. CASE PurgePending(h)
  <2>1. CarriesRight(h)'
    BY <1>1, ThreadsAssumption
    DEF TasksRight, CarriesRight, HandPCs, TabPCs, Marking, Rets, TypeOK, TaskTypes,
        PurgePending, Job, PromoteIfFreed
  <2>2. HookRight(h)'
    BY <1>1, ThreadsAssumption
    DEF TasksRight, HookRight, TypeOK, TaskTypes, PurgePending, Job, PromoteIfFreed
  <2> QED BY <1>1, <1>0, <2>1, <2>2, StepRight DEF PurgePending, Job, PromoteIfFreed
<1>2. CASE PurgeIdle(h)
  <2>1. CarriesRight(h)'
    BY <1>2, ThreadsAssumption
    DEF TasksRight, CarriesRight, HandPCs, TabPCs, Marking, Rets, TypeOK, TaskTypes, HookRight,
        PurgeIdle, Job, PromoteIfFreed
  <2>2. HookRight(h)'
    BY <1>2, ThreadsAssumption
    DEF TasksRight, HookRight, TypeOK, TaskTypes, PurgeIdle, Job, PromoteIfFreed
  <2> QED BY <1>2, <1>0, <2>1, <2>2, StepRight DEF PurgeIdle, Job, PromoteIfFreed
<1>3. CASE CancelIdle(h)
  <2>1. CarriesRight(h)'
    BY <1>3, ThreadsAssumption
    DEF TasksRight, CarriesRight, HandPCs, TabPCs, Marking, Rets, TypeOK, TaskTypes,
        AlertTypes, Tabs, NoTab, CancelIdle, FreeSlot, Job
  <2>2. HookRight(h)'
    BY <1>3, ThreadsAssumption
    DEF TasksRight, HookRight, TypeOK, TaskTypes, CancelIdle, FreeSlot, Job
  <2> QED BY <1>3, <1>0, <2>1, <2>2, StepRight DEF CancelIdle, FreeSlot, Job
<1>4. CASE LeaveOptIn(h)
  <2>1. CarriesRight(h)'
    BY <1>4, ThreadsAssumption
    DEF TasksRight, CarriesRight, HandPCs, TabPCs, Marking, Rets, TypeOK, TaskTypes, LeaveOptIn
  <2>2. HookRight(h)'
    BY <1>4, ThreadsAssumption
    DEF TasksRight, HookRight, TypeOK, TaskTypes, LeaveOptIn
  <2> QED BY <1>4, <1>0, <2>1, <2>2, StepRight DEF LeaveOptIn
<1>5. CASE LeaveOptOut(h)
  <2>1. CarriesRight(h)'
    BY <1>5, ThreadsAssumption
    DEF TasksRight, CarriesRight, HandPCs, TabPCs, Marking, Rets, TypeOK, TaskTypes,
        LeaveOptOut, Job
  <2>2. HookRight(h)'
    BY <1>5, ThreadsAssumption
    DEF TasksRight, HookRight, CarriesRight, TabPCs, Marking, Rets, TypeOK, TaskTypes,
        LeaveOptOut, Job
  <2> QED BY <1>5, <1>0, <2>1, <2>2, StepRight DEF LeaveOptOut, Job
<1> QED BY <1>1, <1>2, <1>3, <1>4, <1>5 DEF Hook

\* What tasks carry stays right under the event loop.
LEMMA EventHandlerKeepsTasksRight ==
  ASSUME TypeOK, TasksRight, EventHandler
  PROVE  TasksRight'
<1> Loop \in Threads BY DEF Threads
<1>0. OthersSame(Loop) BY EventHandlerOthers
<1>1. CASE TakeKey
  <2>1. CarriesRight(Loop)'
    BY <1>1, ThreadsAssumption
    DEF TasksRight, CarriesRight, HandPCs, TabPCs, Marking, Rets, TypeOK, TaskTypes, TakeKey,
        Receive
  <2>2. HookRight(Loop)'
    BY <1>1, ThreadsAssumption
    DEF TasksRight, HookRight, TypeOK, TaskTypes, TakeKey, Receive
  <2>3. LoopRight'
    BY <1>1
    DEF TasksRight, LoopRight, CarriesRight, HandPCs, Rets, Marking, TypeOK, TaskTypes,
        WrapperTypes, KeyNames, TakeKey, Receive
  <2> QED BY <1>0, <2>1, <2>2, <2>3, StepRight
<1>2. CASE FocusClear
  <2>1. CarriesRight(Loop)'
    BY <1>2, ThreadsAssumption
    DEF TasksRight, CarriesRight, HandPCs, TabPCs, Marking, Rets, TypeOK, TaskTypes,
        AlertTypes, Tabs, NoTab, FocusClear, FreeSlot
  <2>2. HookRight(Loop)'
    BY <1>2, ThreadsAssumption
    DEF TasksRight, HookRight, TypeOK, TaskTypes, FocusClear, FreeSlot
  <2>3. LoopRight'
    BY <1>2
    DEF TasksRight, LoopRight, CarriesRight, HandPCs, Rets, Marking, TypeOK, TaskTypes,
        FocusClear, FreeSlot
  <2> QED BY <1>0, <2>1, <2>2, <2>3, StepRight
<1>3. CASE Attend
  <2>1. CarriesRight(Loop)'
    BY <1>3, ThreadsAssumption
    DEF TasksRight, CarriesRight, HandPCs, TabPCs, Marking, Rets, TypeOK, TaskTypes, Attend
  <2>2. HookRight(Loop)'
    BY <1>3, ThreadsAssumption
    DEF TasksRight, HookRight, TypeOK, TaskTypes, Attend
  <2>3. LoopRight'
    BY <1>3
    DEF TasksRight, LoopRight, CarriesRight, HandPCs, Rets, Marking, TypeOK, TaskTypes, Attend
  <2> QED BY <1>0, <2>1, <2>2, <2>3, StepRight
<1>4. CASE Decide
  <2>1. CarriesRight(Loop)'
    BY <1>4, ThreadsAssumption
    DEF TasksRight, CarriesRight, HandPCs, TabPCs, Marking, Rets, TypeOK, TaskTypes,
        AlertTypes, Tabs, NoTab, Decide, Meets, FreeSlot
  <2>2. HookRight(Loop)'
    BY <1>4, ThreadsAssumption
    DEF TasksRight, HookRight, TypeOK, TaskTypes, Decide, Meets, FreeSlot
  <2>3. LoopRight'
    BY <1>4, ThreadsAssumption
    DEF TasksRight, LoopRight, Marking, TypeOK, TaskTypes, AlertTypes, WrapperTypes, Alerts, Tabs,
        NoTab, Decide, Meets, FreeSlot
  <2> QED BY <1>0, <2>1, <2>2, <2>3, StepRight
<1>5. CASE Send
  <2>1. CarriesRight(Loop)'
    BY <1>5, ThreadsAssumption
    DEF TasksRight, CarriesRight, HandPCs, TabPCs, Marking, Rets, TypeOK, TaskTypes, LoopRight,
        Alerts, Send
  <2>2. HookRight(Loop)'
    BY <1>5, ThreadsAssumption
    DEF TasksRight, HookRight, TypeOK, TaskTypes, Send
  <2>3. LoopRight'
    BY <1>5
    DEF TasksRight, LoopRight, CarriesRight, HandPCs, Rets, Marking, TypeOK, TaskTypes, Send
  <2> QED BY <1>0, <2>1, <2>2, <2>3, StepRight
<1>6. CASE TakeUp
  <2>1. CarriesRight(Loop)'
    BY <1>6, ThreadsAssumption
    DEF TasksRight, CarriesRight, HandPCs, TabPCs, Marking, Rets, TypeOK, TaskTypes, TakeUp,
        Receive
  <2>2. HookRight(Loop)'
    BY <1>6, ThreadsAssumption
    DEF TasksRight, HookRight, TypeOK, TaskTypes, TakeUp, Receive
  <2>3. LoopRight'
    BY <1>6
    DEF TasksRight, LoopRight, CarriesRight, HandPCs, Rets, Marking, TypeOK, TaskTypes, TakeUp,
        Receive
  <2> QED BY <1>0, <2>1, <2>2, <2>3, StepRight
<1>7. CASE Resync
  <2>1. CarriesRight(Loop)'
    BY <1>7, ThreadsAssumption
    DEF TasksRight, CarriesRight, HandPCs, TabPCs, Marking, Rets, TypeOK, TaskTypes, Resync,
        Resynced
  <2>2. HookRight(Loop)'
    BY <1>7, ThreadsAssumption
    DEF TasksRight, HookRight, TypeOK, TaskTypes, Resync, Resynced
  <2>3. LoopRight'
    BY <1>7
    DEF TasksRight, LoopRight, CarriesRight, HandPCs, Rets, Marking, TypeOK, TaskTypes, Resync,
        Resynced
  <2> QED BY <1>0, <2>1, <2>2, <2>3, StepRight
<1>8. CASE TakeDown
  <2>1. CarriesRight(Loop)'
    BY <1>8, ThreadsAssumption
    DEF TasksRight, CarriesRight, HandPCs, TabPCs, Marking, Rets, TypeOK, TaskTypes, TakeDown,
        Receive
  <2>2. HookRight(Loop)'
    BY <1>8, ThreadsAssumption
    DEF TasksRight, HookRight, TypeOK, TaskTypes, TakeDown, Receive
  <2>3. LoopRight'
    BY <1>8
    DEF TasksRight, LoopRight, CarriesRight, HandPCs, Rets, Marking, TypeOK, TaskTypes,
        TakeDown, Receive
  <2> QED BY <1>0, <2>1, <2>2, <2>3, StepRight
<1>9. CASE TakeState
  <2>1. CarriesRight(Loop)'
    BY <1>9, ThreadsAssumption
    DEF TasksRight, CarriesRight, HandPCs, TabPCs, Marking, Rets, TypeOK, TaskTypes, TakeState,
        Receive
  <2>2. HookRight(Loop)'
    BY <1>9, ThreadsAssumption
    DEF TasksRight, HookRight, TypeOK, TaskTypes, TakeState, Receive
  <2>3. LoopRight'
    <3>1. CASE pc'[Loop] = "mark" /\ Head(inbox).what = "on" /\ key' = Head(inbox)
      <4>1. PICK s \in live : arg' = [arg EXCEPT ![Loop] = s]
        BY <1>9, <3>1 DEF TakeState, Receive, TypeOK, TaskTypes
      <4>2. arg'[Loop] \in Sessions BY <4>1 DEF TypeOK, TaskTypes, WrapperTypes
      <4>3. hand'[Loop] = None /\ tabOf'[Loop] = NoTab
        BY <1>9 DEF TasksRight, CarriesRight, HandPCs, TabPCs, Marking, TakeState, Receive
      <4> QED BY <3>1, <4>2, <4>3 DEF LoopRight
    <3>2. CASE pc'[Loop] \in {"ready", "disarmIn"}
      BY <3>2 DEF LoopRight, Marking
    <3> QED BY <1>9, <3>1, <3>2 DEF TakeState, Receive, TypeOK, TaskTypes
  <2> QED BY <1>0, <2>1, <2>2, <2>3, StepRight
<1>10. CASE DisarmIn
  <2>1. CarriesRight(Loop)'
    BY <1>10, ThreadsAssumption
    DEF TasksRight, CarriesRight, HandPCs, TabPCs, Marking, Rets, TypeOK, TaskTypes, DisarmIn
  <2>2. HookRight(Loop)'
    BY <1>10, ThreadsAssumption
    DEF TasksRight, HookRight, TypeOK, TaskTypes, DisarmIn
  <2>3. LoopRight'
    BY <1>10
    DEF TasksRight, LoopRight, CarriesRight, HandPCs, Rets, Marking, TypeOK, TaskTypes, DisarmIn
  <2> QED BY <1>0, <2>1, <2>2, <2>3, StepRight
<1>11. CASE DisarmOut
  <2>1. CarriesRight(Loop)'
    BY <1>11, ThreadsAssumption
    DEF TasksRight, CarriesRight, HandPCs, TabPCs, Marking, Rets, TypeOK, TaskTypes, DisarmOut
  <2>2. HookRight(Loop)'
    BY <1>11, ThreadsAssumption
    DEF TasksRight, HookRight, TypeOK, TaskTypes, DisarmOut
  <2>3. LoopRight'
    BY <1>11
    DEF TasksRight, LoopRight, CarriesRight, HandPCs, Rets, Marking, TypeOK, TaskTypes, DisarmOut
  <2> QED BY <1>0, <2>1, <2>2, <2>3, StepRight
<1>12. CASE Reset
  <2>1. CarriesRight(Loop)'
    BY <1>12, ThreadsAssumption
    DEF TasksRight, CarriesRight, HandPCs, TabPCs, Marking, Rets, TypeOK, TaskTypes, Reset,
        QueueAfterReset
  <2>2. HookRight(Loop)'
    BY <1>12, ThreadsAssumption
    DEF TasksRight, HookRight, TypeOK, TaskTypes, Reset, QueueAfterReset
  <2>3. LoopRight'
    BY <1>12
    DEF TasksRight, LoopRight, CarriesRight, HandPCs, Rets, Marking, TypeOK, TaskTypes, Reset,
        QueueAfterReset
  <2> QED BY <1>0, <2>1, <2>2, <2>3, StepRight
<1> QED BY <1>1, <1>2, <1>3, <1>4, <1>5, <1>6, <1>7, <1>8, <1>9, <1>10, <1>11, <1>12
  DEF EventHandler

-----------------------------------------------------------------------------
\* The induction.

Typed == TypeOK /\ TasksRight

\* The initial states.
LEMMA InitTyped == Init => Typed
<1> SUFFICES ASSUME Init PROVE Typed OBVIOUS
<1>1. AlertTypes BY EmptyType DEF Init, AlertTypes, Tabs
<1>2. RequestTypes /\ WrapperTypes BY DEF Init, RequestTypes, WrapperTypes
<1>3. DeviceTypes /\ LoopTypes BY WorldAssumption DEF Init, DeviceTypes, LoopTypes
<1>4. TaskTypes BY Labels DEF Init, TaskTypes, Rets
<1>5. TasksRight
  BY ThreadsAssumption
  DEF Init, TasksRight, LoopRight, CarriesRight, HookRight, Marking, HandPCs, TabPCs, Threads
<1> QED BY <1>1, <1>2, <1>3, <1>4, <1>5 DEF Typed, TypeOK

\* Every step.
LEMMA NextTyped == Typed /\ [Next]_vars => Typed'
<1> SUFFICES ASSUME Typed, [Next]_vars PROVE Typed' OBVIOUS
<1> USE DEF Typed
<1>1. ASSUME NEW r \in Requests, RequestStep(r) PROVE Typed'
  <2>1. r \in Threads /\ r \in Requests \cup {Loop} BY DEF Threads
  <2>2. TypeOK'
    BY <1>1, <2>1, RoutineKeepsTypes, RequestKeepsTypes, MarksKeepTypes DEF RequestStep
  <2>3. TasksRight'
    BY <1>1, <2>1, RoutineKeepsTasksRight, RequestKeepsTasksRight, MarksKeepTasksRight
    DEF RequestStep
  <2> QED BY <2>2, <2>3
<1>2. ASSUME NEW n \in Notices, NoticeStep(n) PROVE Typed'
  <2>1. n \in Threads BY DEF Threads
  <2>2. TypeOK' BY <1>2, <2>1, RoutineKeepsTypes, RaiseKeepsTypes DEF NoticeStep
  <2>3. TasksRight' BY <1>2, <2>1, RoutineKeepsTasksRight, RaiseKeepsTasksRight DEF NoticeStep
  <2> QED BY <2>2, <2>3
<1>3. ASSUME NEW h \in Hooks, HookStep(h) \/ NewJob(h) PROVE Typed'
  <2>1. h \in Threads BY DEF Threads
  <2>2. TypeOK'
    BY <1>3, <2>1, RoutineKeepsTypes, HookKeepsTypes, NewJobKeepsTypes DEF HookStep
  <2>3. TasksRight'
    BY <1>3, <2>1, RoutineKeepsTasksRight, HookKeepsTasksRight, NewJobKeepsTasksRight
    DEF HookStep
  <2> QED BY <2>2, <2>3
<1>4. CASE LoopStep
  <2>1. Loop \in Threads /\ Loop \in Requests \cup {Loop} BY DEF Threads
  <2>2. TypeOK'
    BY <1>4, <2>1, RoutineKeepsTypes, EventHandlerKeepsTypes, MarksKeepTypes DEF LoopStep
  <2>3. TasksRight'
    BY <1>4, <2>1, RoutineKeepsTasksRight, EventHandlerKeepsTasksRight, MarksKeepTasksRight
    DEF LoopStep
  <2> QED BY <2>2, <2>3
<1>5. CASE Surroundings
  BY <1>5, SurroundingsKeepTypes, SurroundingsKeepTasksRight
<1>6. CASE UNCHANGED vars
  BY <1>6
  DEF vars, TypeOK, AlertTypes, RequestTypes, WrapperTypes, DeviceTypes, LoopTypes, TaskTypes,
      TasksRight, LoopRight, CarriesRight, HookRight
<1> QED BY <1>1, <1>2, <1>3, <1>4, <1>5, <1>6 DEF Next

\* Types, and what tasks carry, in every behaviour.
LEMMA AlwaysTyped == Spec => []Typed
BY InitTyped, NextTyped, PTL DEF Spec

\* Every variable has its type: no prompt ever gets into the queue of notices,
\* no notice into that of prompts, and no alert is drawn on the tab "none"
\* (alerts.rs).
THEOREM TypeCorrect == Spec => []TypeOK
BY AlwaysTyped, PTL DEF Typed
=============================================================================
