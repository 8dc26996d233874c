--------------------------- MODULE PromptsSafety ---------------------------
(***************************************************************************)
(* What waits in the queues, who is enrolled, and what the device shows.   *)
(* Nothing is stranded: a prompt or a notice behind an empty slot always   *)
(* has a task on its way to promote it, as a step that would strand it     *)
(* leaves the task that took it on that way.  The idle queue holds one     *)
(* notice per session, within its cap.  Enrollment in Auto-approve stays   *)
(* exclusive: no lock covers both sets; a mark adds to one and then        *)
(* removes from the other, so the invariant names the task in between.     *)
(* And the device shows the live alert, what a task has yet to clear, or   *)
(* what it kept while it was away.  All of it needs the tasks to be right  *)
(* (PromptsTypes).                                                         *)
(***************************************************************************)
EXTENDS PromptsTypes

USE DEF queueVars, requestVars, wrapperVars, enrollVars, statusVars, deviceVars, loopVars,
        hookVars, snapVars, Goto, Take, Aim

-----------------------------------------------------------------------------
\* Nobody is stranded.

Stranded == slot = None /\ pendingQ.in # {}

\* A notice waits behind an empty slot; the thread will look at the idle queue.
Forgotten == slot = None /\ idleQ.in # {}
Attending(t) ==
  Promoting(t) \/ pc[t] \in {"popIdle", "takeIdle", "place", "requeue", "emit", "prune"}

NobodyWaitsInVain == NobodyStranded /\ (Forgotten => \E t \in Threads : Attending(t))

\* A step of t that leaves prompts behind an empty slot leaves t on its way to
\* promote them, or found them there and was not the one to promote them; and the
\* same for notices.
Passed(t) ==
  /\ Stranded' => Promoting(t)' \/ (Stranded /\ ~Promoting(t))
  /\ Forgotten' => Attending(t)' \/ (Forgotten /\ ~Attending(t))

\* Passing on is enough, as other tasks keep promoting.
LEMMA PassedOn ==
  ASSUME NobodyWaitsInVain, NEW t \in Threads, OthersSame(t), Passed(t)
  PROVE  NobodyWaitsInVain'
<1>1. ASSUME Stranded' PROVE \E u \in Threads : Promoting(u)'
  <2>1. CASE Promoting(t)' BY <2>1
  <2>2. CASE Stranded /\ ~Promoting(t)
    <3>1. PICK u \in Threads \ {t} : Promoting(u)
      BY <2>2 DEF NobodyWaitsInVain, NobodyStranded, Stranded
    <3>2. Promoting(u)' BY <3>1 DEF OthersSame, Same, Promoting
    <3> QED BY <3>2
  <2> QED BY <1>1, <2>1, <2>2 DEF Passed
<1>2. ASSUME Forgotten' PROVE \E u \in Threads : Attending(u)'
  <2>1. CASE Attending(t)' BY <2>1
  <2>2. CASE Forgotten /\ ~Attending(t)
    <3>1. PICK u \in Threads \ {t} : Attending(u) BY <2>2 DEF NobodyWaitsInVain
    <3>2. Attending(u)' BY <3>1 DEF OthersSame, Same, Attending, Promoting
    <3> QED BY <3>2
  <2> QED BY <1>2, <2>1, <2>2 DEF Passed
<1> QED BY <1>1, <1>2 DEF NobodyWaitsInVain, NobodyStranded, Stranded

\* What waits is passed on by a new job.
LEMMA NewJobPasses ==
  ASSUME TypeOK, TasksRight, NEW h \in Hooks, NewJob(h)
  PROVE  Passed(h)
<1> h \in Threads /\ h # Loop BY ThreadsAssumption DEF Threads
<1>0. PICK s \in Sessions :
  \/ Submit(h, s) \/ Progress(h, s) \/ (\E tool \in Tools : ToolStep(h, s, tool)) \/ Tick(h)
  \/ FocusIn(h, s) \/ FocusOut(s) \/ Join(h, s) \/ Exit(h, s)
  BY DEF NewJob
<1>1. CASE Submit(h, s)
  BY <1>1, ThreadsAssumption
  DEF TasksRight, AlertTypes, Tabs, NoTab, CarriesRight, Passed, Stranded, Promoting, Forgotten,
      Attending, TypeOK, TaskTypes, Submit, Cancel, Job, FreeSlot
<1>2. CASE Progress(h, s)
  BY <1>2, ThreadsAssumption
  DEF TasksRight, AlertTypes, Tabs, NoTab, CarriesRight, Passed, Stranded, Promoting, Forgotten,
      Attending, TypeOK, TaskTypes, Progress, Cancel, Job, FreeSlot
<1>3. ASSUME NEW tool \in Tools, ToolStep(h, s, tool) PROVE Passed(h)
  BY <1>3, ThreadsAssumption
  DEF TasksRight, AlertTypes, Tabs, NoTab, CarriesRight, Passed, Stranded, Promoting, Forgotten,
      Attending, TypeOK, TaskTypes, ToolStep, Cancel, Job, FreeSlot
<1>4. CASE Tick(h)
  BY <1>4, ThreadsAssumption
  DEF TasksRight, Passed, Stranded, Promoting, Forgotten, Attending, TypeOK, TaskTypes, Tick
<1>5. CASE FocusIn(h, s)
  BY <1>5, ThreadsAssumption
  DEF TasksRight, Passed, Stranded, Promoting, Forgotten, Attending, TypeOK, TaskTypes, FocusIn,
      Job
<1>6. CASE FocusOut(s)
  BY <1>6, ThreadsAssumption
  DEF TasksRight, Passed, Stranded, Promoting, Forgotten, Attending, TypeOK, TaskTypes, FocusOut
<1>7. CASE Join(h, s)
  BY <1>7, ThreadsAssumption
  DEF TasksRight, Passed, Stranded, Promoting, Forgotten, Attending, TypeOK, TaskTypes, Join
<1>8. CASE Exit(h, s)
  BY <1>8, ThreadsAssumption
  DEF TasksRight, Passed, Stranded, Promoting, Forgotten, Attending, TypeOK, TaskTypes, Exit, Job
<1> QED BY <1>0, <1>1, <1>2, <1>3, <1>4, <1>5, <1>6, <1>7, <1>8

\* What waits is passed on by a notice that is raised.
LEMMA RaisePasses ==
  ASSUME TypeOK, TasksRight, NEW n \in Notices, Raise(n)
  PROVE  Passed(n)
<1> n \in Threads /\ n # Loop BY ThreadsAssumption DEF Threads
<1>1. CASE Raise(n)
  BY <1>1, ThreadsAssumption
  DEF TasksRight, Passed, Stranded, Promoting, Forgotten, Attending, TypeOK, TaskTypes, Raise
<1> QED BY <1>1

\* What waits is passed on by an enrollment mark.
LEMMA MarksPass ==
  ASSUME TypeOK, TasksRight, NEW t \in Requests \cup {Loop}, Mark(t) \/ Unmark(t)
  PROVE  Passed(t)
<1> t \in Threads BY DEF Threads
<1>1. CASE Mark(t)
  BY <1>1, ThreadsAssumption
  DEF TasksRight, CarriesRight, LoopRight, HookRight, Marking, Passed, Stranded, Promoting,
      Forgotten, Attending, TypeOK, TaskTypes, Mark, Marked, Allows
<1>2. CASE Unmark(t)
  BY <1>2, ThreadsAssumption
  DEF TasksRight, CarriesRight, LoopRight, HookRight, Marking, Passed, Stranded, Promoting,
      Forgotten, Attending, TypeOK, TaskTypes, Unmark, Marked, Allows
<1> QED BY <1>1, <1>2

\* What waits is passed on by the routines of AlertSlot.
LEMMA RoutinePasses ==
  ASSUME TypeOK, TasksRight, NEW t \in Threads, Routine(t)
  PROVE  Passed(t)
<1>1. CASE Wipe(t)
  BY <1>1, ThreadsAssumption
  DEF TasksRight, CarriesRight, LoopRight, HookRight, Marking, Passed, Stranded, Promoting,
      Forgotten, Attending, TypeOK, TaskTypes, Wipe, AfterWipe
<1>2. CASE Pop(t)
  BY <1>2, ThreadsAssumption
  DEF TasksRight, CarriesRight, HandPCs, Marking, Passed, Stranded, Promoting, Forgotten,
      Attending, TypeOK, TaskTypes, Pop
<1>3. CASE PopNothing(t)
  BY <1>3, ThreadsAssumption
  DEF TasksRight, Passed, Stranded, Promoting, Forgotten, Attending, TypeOK, TaskTypes,
      PopNothing, AfterPrompts
<1>4. CASE Check(t)
  BY <1>4, ThreadsAssumption
  DEF TasksRight, Passed, Stranded, Promoting, Forgotten, Attending, TypeOK, TaskTypes, Check,
      Approves, Declines, Enrollable
<1>5. CASE InstallNext(t)
  BY <1>5, ThreadsAssumption
  DEF TasksRight, CarriesRight, Alerts, Passed, Stranded, Promoting, Forgotten, Attending,
      TypeOK, TaskTypes, InstallNext, Install
<1>6. CASE PeekSlot(t)
  BY <1>6, ThreadsAssumption
  DEF TasksRight, Passed, Stranded, Promoting, Forgotten, Attending, TypeOK, TaskTypes, PeekSlot
<1>7. CASE TakeIdle(t)
  BY <1>7, ThreadsAssumption
  DEF TasksRight, Passed, Stranded, Promoting, Forgotten, Attending, TypeOK, TaskTypes, TakeIdle,
      Without
<1>8. CASE TakeNoIdle(t)
  BY <1>8, ThreadsAssumption
  DEF TasksRight, Passed, Stranded, Promoting, Forgotten, Attending, TypeOK, TaskTypes,
      TakeNoIdle
<1>9. CASE Place(t)
  BY <1>9, ThreadsAssumption
  DEF TasksRight, CarriesRight, Without, Alerts, Passed, Stranded, Promoting, Forgotten,
      Attending, TypeOK, TaskTypes, Place, Install, AfterPlace
<1>10. CASE Requeue(t)
  BY <1>10, ThreadsAssumption
  DEF TasksRight, Passed, Stranded, Promoting, Forgotten, Attending, TypeOK, TaskTypes, Requeue,
      AfterPlace
<1>11. CASE Emit(t)
  BY <1>11, ThreadsAssumption
  DEF TasksRight, Passed, Stranded, Promoting, Forgotten, Attending, TypeOK, TaskTypes, Emit,
      AfterEmit
<1>12. CASE Prune(t)
  BY <1>12, ThreadsAssumption
  DEF TasksRight, CarriesRight, Without, Alerts, Passed, Stranded, Promoting, Forgotten,
      Attending, TypeOK, TaskTypes, Prune
<1>13. CASE Relock(t)
  BY <1>13, ThreadsAssumption
  DEF TasksRight, AlertTypes, Tabs, NoTab, CarriesRight, Passed, Stranded, Promoting, Forgotten,
      Attending, TypeOK, TaskTypes, Relock, FreeSlot
<1>14. CASE Move(t)
  BY <1>14, ThreadsAssumption
  DEF TasksRight, Passed, Stranded, Promoting, Forgotten, Attending, TypeOK, TaskTypes, Move
<1> QED BY <1>1, <1>2, <1>3, <1>4, <1>5, <1>6, <1>7, <1>8, <1>9, <1>10, <1>11, <1>12, <1>13, <1>14
  DEF Routine

\* What waits is passed on by the permission hook.
LEMMA RequestPasses ==
  ASSUME TypeOK, TasksRight, NEW r \in Requests, Request(r)
  PROVE  Passed(r)
<1> r \in Threads /\ r # Loop BY ThreadsAssumption DEF Threads
<1>1. CASE Gate(r)
  BY <1>1, ThreadsAssumption
  DEF TasksRight, Passed, Stranded, Promoting, Forgotten, Attending, TypeOK, TaskTypes, Gate
<1>2. CASE Enrolled(r)
  BY <1>2, ThreadsAssumption
  DEF TasksRight, Passed, Stranded, Promoting, Forgotten, Attending, TypeOK, TaskTypes, Enrolled
<1>3. CASE Park(r)
  BY <1>3, ThreadsAssumption
  DEF TasksRight, Alerts, Passed, Stranded, Promoting, Forgotten, Attending, TypeOK, TaskTypes,
      Park, Install
<1>4. CASE Timeout(r)
  BY <1>4, ThreadsAssumption
  DEF TasksRight, Passed, Stranded, Promoting, Forgotten, Attending, TypeOK, TaskTypes, Timeout
<1>5. CASE Settle(r)
  BY <1>5, ThreadsAssumption
  DEF TasksRight, AlertTypes, Tabs, NoTab, CarriesRight, Passed, Stranded, Promoting, Forgotten,
      Attending, TypeOK, TaskTypes, Settle, FreeSlot
<1>6. CASE Respond(r)
  BY <1>6, ThreadsAssumption
  DEF TasksRight, Passed, Stranded, Promoting, Forgotten, Attending, TypeOK, TaskTypes, Respond,
      ReplyTo
<1> QED BY <1>1, <1>2, <1>3, <1>4, <1>5, <1>6 DEF Request

\* What waits is passed on by a job under way.
LEMMA HookPasses ==
  ASSUME TypeOK, TasksRight, NEW h \in Hooks, Hook(h)
  PROVE  Passed(h)
<1> h \in Threads /\ h # Loop BY ThreadsAssumption DEF Threads
<1>1. CASE PurgePending(h)
  BY <1>1, ThreadsAssumption
  DEF TasksRight, CarriesRight, LoopRight, HookRight, Marking, Without, Passed, Stranded,
      Promoting, Forgotten, Attending, TypeOK, TaskTypes, PurgePending, Job, PromoteIfFreed
<1>2. CASE PurgeIdle(h)
  BY <1>2, ThreadsAssumption
  DEF TasksRight, CarriesRight, LoopRight, HookRight, Marking, Passed, Stranded, Promoting,
      Forgotten, Attending, TypeOK, TaskTypes, PurgeIdle, Job, PromoteIfFreed, Without
<1>3. CASE CancelIdle(h)
  BY <1>3, ThreadsAssumption
  DEF TasksRight, AlertTypes, Tabs, NoTab, CarriesRight, Passed, Stranded, Promoting, Forgotten,
      Attending, TypeOK, TaskTypes, CancelIdle, FreeSlot, Job
<1>4. CASE LeaveOptIn(h)
  BY <1>4, ThreadsAssumption
  DEF TasksRight, Passed, Stranded, Promoting, Forgotten, Attending, TypeOK, TaskTypes,
      LeaveOptIn
<1>5. CASE LeaveOptOut(h)
  BY <1>5, ThreadsAssumption
  DEF TasksRight, Passed, Stranded, Promoting, Forgotten, Attending, TypeOK, TaskTypes,
      LeaveOptOut, Job
<1> QED BY <1>1, <1>2, <1>3, <1>4, <1>5 DEF Hook

\* What waits is passed on by the event loop.
LEMMA EventHandlerPasses ==
  ASSUME TypeOK, TasksRight, EventHandler
  PROVE  Passed(Loop)
<1> Loop \in Threads BY DEF Threads
<1>1. CASE TakeKey
  BY <1>1, ThreadsAssumption
  DEF TasksRight, CarriesRight, HandPCs, Marking, Passed, Stranded, Promoting, Forgotten,
      Attending, TypeOK, TaskTypes, TakeKey, Receive
<1>2. CASE FocusClear
  BY <1>2, ThreadsAssumption
  DEF TasksRight, AlertTypes, Tabs, NoTab, CarriesRight, Passed, Stranded, Promoting, Forgotten,
      Attending, TypeOK, TaskTypes, FocusClear, FreeSlot
<1>3. CASE Attend
  BY <1>3, ThreadsAssumption
  DEF TasksRight, Passed, Stranded, Promoting, Forgotten, Attending, TypeOK, TaskTypes, Attend
<1>4. CASE Decide
  BY <1>4, ThreadsAssumption
  DEF TasksRight, CarriesRight, LoopRight, HookRight, Marking, AlertTypes, Alerts, Tabs, NoTab,
      Passed, Stranded, Promoting, Forgotten, Attending, TypeOK, TaskTypes, Decide, Meets, FreeSlot
<1>5. CASE Send
  BY <1>5, ThreadsAssumption
  DEF TasksRight, CarriesRight, LoopRight, HookRight, Marking, Passed, Stranded, Promoting,
      Forgotten, Attending, TypeOK, TaskTypes, Send
<1>6. CASE TakeUp
  BY <1>6, ThreadsAssumption
  DEF TasksRight, Passed, Stranded, Promoting, Forgotten, Attending, TypeOK, TaskTypes, TakeUp,
      Receive
<1>7. CASE Resync
  BY <1>7, ThreadsAssumption
  DEF TasksRight, Passed, Stranded, Promoting, Forgotten, Attending, TypeOK, TaskTypes, Resync,
      Resynced
<1>8. CASE TakeDown
  BY <1>8, ThreadsAssumption
  DEF TasksRight, Passed, Stranded, Promoting, Forgotten, Attending, TypeOK, TaskTypes, TakeDown,
      Receive
<1>9. CASE TakeState
  BY <1>9, ThreadsAssumption
  DEF TasksRight, CarriesRight, HandPCs, Marking, Passed, Stranded, Promoting, Forgotten,
      Attending, TypeOK, TaskTypes, TakeState, Receive
<1>10. CASE DisarmIn
  BY <1>10, ThreadsAssumption
  DEF TasksRight, Passed, Stranded, Promoting, Forgotten, Attending, TypeOK, TaskTypes, DisarmIn
<1>11. CASE DisarmOut
  BY <1>11, ThreadsAssumption
  DEF TasksRight, Passed, Stranded, Promoting, Forgotten, Attending, TypeOK, TaskTypes, DisarmOut
<1>12. CASE Reset
  BY <1>12, ThreadsAssumption
  DEF TasksRight, EmptyDeque, Passed, Stranded, Promoting, Forgotten, Attending, TypeOK,
      TaskTypes, Reset, QueueAfterReset
<1> QED BY <1>1, <1>2, <1>3, <1>4, <1>5, <1>6, <1>7, <1>8, <1>9, <1>10, <1>11, <1>12
  DEF EventHandler

\* The surroundings.
LEMMA SurroundingsPass ==
  ASSUME TypeOK, NobodyWaitsInVain, Surroundings, "abandon" \notin World
  PROVE  NobodyWaitsInVain'
<1>1. CASE ~\E r \in Requests : Hangup(r)
  BY <1>1 DEF Surroundings, Press, Unplug, Plug, Flip, Abandon, daemonVars,
      NobodyWaitsInVain, NobodyStranded, Promoting, Forgotten, Attending
<1>2. ASSUME NEW r \in Requests, Hangup(r) PROVE NobodyWaitsInVain'
  <2>1. r \in Threads BY DEF Threads
  <2>2. OthersSame(r) BY <1>2 DEF OthersSame, Same, TypeOK, TaskTypes, Hangup
  <2>3. Passed(r)
    BY <1>2, <2>1, ThreadsAssumption
    DEF Passed, Stranded, Promoting, Forgotten, Attending, TypeOK, TaskTypes, Hangup
  <2> QED BY <2>1, <2>2, <2>3, PassedOn
<1> QED BY <1>1, <1>2

\* Every step.
LEMMA NextPassesOn ==
  ASSUME "abandon" \notin World
  PROVE  Typed /\ NobodyWaitsInVain /\ [Next]_vars => NobodyWaitsInVain'
<1> SUFFICES ASSUME TypeOK, TasksRight, NobodyWaitsInVain, [Next]_vars PROVE NobodyWaitsInVain'
  BY DEF Typed
<1>1. ASSUME NEW r \in Requests, RequestStep(r) PROVE NobodyWaitsInVain'
  <2>1. r \in Threads /\ r \in Requests \cup {Loop} BY DEF Threads
  <2>2. OthersSame(r) BY <1>1, <2>1, RoutineOthers, RequestOthers, MarksOthers DEF RequestStep
  <2>3. Passed(r) BY <1>1, <2>1, RoutinePasses, RequestPasses, MarksPass DEF RequestStep
  <2> QED BY <2>1, <2>2, <2>3, PassedOn
<1>2. ASSUME NEW n \in Notices, NoticeStep(n) PROVE NobodyWaitsInVain'
  <2>1. n \in Threads BY DEF Threads
  <2>2. OthersSame(n) BY <1>2, <2>1, RoutineOthers, RaiseOthers DEF NoticeStep
  <2>3. Passed(n) BY <1>2, <2>1, RoutinePasses, RaisePasses DEF NoticeStep
  <2> QED BY <2>1, <2>2, <2>3, PassedOn
<1>3. ASSUME NEW h \in Hooks, HookStep(h) \/ NewJob(h) PROVE NobodyWaitsInVain'
  <2>1. h \in Threads BY DEF Threads
  <2>2. OthersSame(h) BY <1>3, <2>1, RoutineOthers, HookOthers, NewJobOthers DEF HookStep
  <2>3. Passed(h) BY <1>3, <2>1, RoutinePasses, HookPasses, NewJobPasses DEF HookStep
  <2> QED BY <2>1, <2>2, <2>3, PassedOn
<1>4. CASE LoopStep
  <2>1. Loop \in Threads /\ Loop \in Requests \cup {Loop} BY DEF Threads
  <2>2. OthersSame(Loop) BY <1>4, <2>1, RoutineOthers, EventHandlerOthers, MarksOthers
    DEF LoopStep
  <2>3. Passed(Loop) BY <1>4, <2>1, RoutinePasses, EventHandlerPasses, MarksPass DEF LoopStep
  <2> QED BY <2>1, <2>2, <2>3, PassedOn
<1>5. CASE Surroundings BY <1>5, SurroundingsPass
<1>6. CASE UNCHANGED vars
  BY <1>6 DEF vars, NobodyWaitsInVain, NobodyStranded, Promoting, Forgotten, Attending
<1> QED BY <1>1, <1>2, <1>3, <1>4, <1>5, <1>6 DEF Next

\* A task attends to whatever waits, in every behaviour.
LEMMA AlwaysPassedOn ==
  ASSUME "abandon" \notin World
  PROVE  Spec => []NobodyWaitsInVain
<1>1. Init => NobodyWaitsInVain
  BY DEF Init, NobodyWaitsInVain, NobodyStranded, Forgotten, EmptyDeque
<1> QED BY <1>1, AlwaysTyped, NextPassesOn, PTL DEF Spec

\* Prompts behind an empty slot always have a task on its way to promote them,
\* however many hooks, wrappers and keys interleave (try_install_next_pending
\* and everyone that frees the slot, alerts.rs), as long as no task is dropped
\* on that way.
THEOREM PromptsAreNotStranded ==
  ASSUME "abandon" \notin World
  PROVE  Spec => []NobodyStranded
BY AlwaysPassedOn, PTL DEF NobodyWaitsInVain

\* A daemon at rest with an empty slot has shown or discarded every prompt and
\* every notice (promote_queued_idle, alerts.rs), again as long as no task is
\* dropped on its way to promote one.
THEOREM NothingIsForgotten ==
  ASSUME "abandon" \notin World
  PROVE  Spec => []NothingWaitsWhenQuiet
<1>1. NobodyWaitsInVain => NothingWaitsWhenQuiet
  BY ThreadsAssumption
  DEF NobodyWaitsInVain, NobodyStranded, Forgotten, Attending, NothingWaitsWhenQuiet, Quiet,
      AtRest, Promoting
<1> QED BY <1>1, AlwaysPassedOn, PTL

-----------------------------------------------------------------------------
\* What the operations of a deque keep.

\* A finite deque that is not empty has a front: pop_front finds an entry.
LEMMA FrontExists ==
  ASSUME NEW q, IsDeque(q), IsFiniteSet(q.in), q.in # {}
  PROVE  \E x \in q.in : IsFront(q, x)
<1> DEFINE Ahead(x) == {y \in q.in : <<y, x>> \in q.ahead}
           T == {Ahead(x) : x \in q.in}
<1>1. T # {} OBVIOUS
<1>2. T \subseteq FiniteSubsetsOf(q.in)
  <2>1. \A x \in q.in : Ahead(x) \in SUBSET q.in /\ IsFiniteSet(Ahead(x)) BY FS_Subset
  <2> QED BY <2>1 DEF FiniteSubsetsOf
<1>3. PICK A \in T : \A B \in T : <<B, A>> \notin StrictSubsetOrdering(q.in)
  <2> HIDE DEF T
  <2> QED BY <1>1, <1>2, FS_StrictSubsetOrderingWellFounded, WFMin
<1>4. PICK x \in q.in : A = Ahead(x) OBVIOUS
<1>5. ASSUME NEW y \in q.in, <<y, x>> \in q.ahead PROVE FALSE
  <2>1. Ahead(y) \subseteq Ahead(x) /\ y \in Ahead(x) /\ y \notin Ahead(y) BY <1>5 DEF IsDeque
  <2>2. <<Ahead(y), Ahead(x)>> \in StrictSubsetOrdering(q.in)
    BY <2>1 DEF StrictSubsetOrdering
  <2> QED BY <1>3, <1>4, <2>2
<1> QED BY <1>5 DEF IsFront

\* It has one front only.
LEMMA FrontUnique ==
  ASSUME NEW q, IsDeque(q), NEW x, NEW y, IsFront(q, x), IsFront(q, y)
  PROVE  x = y
BY DEF IsDeque, IsFront

\* What stays keeps its order.
LEMMA WithoutDeque == ASSUME NEW q, IsDeque(q), NEW S PROVE IsDeque(Without(q, S))
BY DEF IsDeque, Without

\* A new entry goes last.
LEMMA PushBackDeque ==
  ASSUME NEW q, IsDeque(q), NEW x, x \notin q.in
  PROVE  IsDeque(PushBack(q, x))
BY DEF IsDeque, PushBack

\* An entry updated in place stands where the old one stood.
LEMMA ReplaceDeque ==
  ASSUME NEW q, IsDeque(q), NEW y \in q.in, NEW x, x \notin q.in \/ x = y
  PROVE  /\ IsDeque(Replace(q, y, x))
         /\ Replace(q, y, x).in = (q.in \ {y}) \cup {x}
<1> DEFINE put(z) == IF z = y THEN x ELSE z
           R == Replace(q, y, x)
<1>1. R.in = {put(z) : z \in q.in} /\ R.ahead = {<<put(p[1]), put(p[2])>> : p \in q.ahead}
  BY DEF Replace
<1>2. R.in = (q.in \ {y}) \cup {x} BY <1>1
<1>3. \A a, b \in q.in : put(a) = put(b) => a = b OBVIOUS
<1>4. q.ahead \subseteq q.in \X q.in BY DEF IsDeque
<1>5. \A a, b \in q.in : <<put(a), put(b)>> \in R.ahead <=> <<a, b>> \in q.ahead
  BY <1>1, <1>3, <1>4
<1>6. R.ahead \subseteq R.in \X R.in BY <1>1, <1>4
<1>7. \A u \in R.in : \E a \in q.in : u = put(a) BY <1>1
<1> HIDE DEF put, R
<1>8. \A u \in R.in : <<u, u>> \notin R.ahead BY <1>5, <1>7 DEF IsDeque
<1>9. \A u, v \in R.in : u # v => <<u, v>> \in R.ahead \/ <<v, u>> \in R.ahead
  BY <1>5, <1>7 DEF IsDeque
<1>10. ASSUME NEW u \in R.in, NEW v \in R.in, NEW w \in R.in,
              <<u, v>> \in R.ahead, <<v, w>> \in R.ahead
       PROVE  <<u, w>> \in R.ahead
  <2>1. PICK a \in q.in, b \in q.in, c \in q.in : u = put(a) /\ v = put(b) /\ w = put(c)
    BY <1>7
  <2>2. <<a, b>> \in q.ahead /\ <<b, c>> \in q.ahead BY <1>5, <1>10, <2>1
  <2>3. <<a, c>> \in q.ahead BY <2>2 DEF IsDeque
  <2> QED BY <1>5, <2>1, <2>3
<1>11. IsDeque(R) BY <1>6, <1>8, <1>9, <1>10 DEF IsDeque
<1> QED BY <1>2, <1>11 DEF R

-----------------------------------------------------------------------------
\* One idle notice per session.

\* The idle queue is a queue, so that the oldest notice is one notice.
NoticesRight == IsDeque(idleQ) /\ IsFiniteSet(idleQ.in) /\ OneNoticePerSession

\* Fewer notices are no harm.
LEMMA FewerNotices ==
  ASSUME NoticesRight, NEW S, idleQ' = Without(idleQ, S)
  PROVE  NoticesRight'
<1>1. idleQ'.in \in SUBSET idleQ.in BY DEF Without
<1>2. IsFiniteSet(idleQ'.in) /\ Cardinality(idleQ'.in) <= Cardinality(idleQ.in)
  BY <1>1, FS_Subset DEF NoticesRight
<1>3. Cardinality(idleQ.in) \in Nat /\ Cardinality(idleQ'.in) \in Nat
  BY <1>2, FS_CardinalityType DEF NoticesRight
<1>4. Cardinality(idleQ'.in) <= IdleCap
  BY <1>2, <1>3, CapAssumption DEF NoticesRight, OneNoticePerSession
<1> QED BY <1>1, <1>2, <1>4, WithoutDeque DEF NoticesRight, OneNoticePerSession

\* queue_idle keeps the queue within its cap, one notice per session.
LEMMA RequeueKeepsNotices ==
  ASSUME TypeOK, TasksRight, NoticesRight, NEW t \in Threads, Requeue(t)
  PROVE  NoticesRight'
<1> DEFINE n == hand[t]
           oldest == {m \in idleQ.in : IsFront(idleQ, m)}
           rest == IF Cardinality(idleQ.in) >= IdleCap THEN Without(idleQ, oldest) ELSE idleQ
<1>0. Cardinality(idleQ.in) \in Nat /\ Cardinality(idleQ.in) <= IdleCap
  BY FS_CardinalityType DEF NoticesRight, OneNoticePerSession
<1>1. ASSUME NEW m \in QueuedFor(n), idleQ' = Replace(idleQ, m, n) PROVE NoticesRight'
  <2>1. m \in idleQ.in /\ SessionOf[m] = SessionOf[n] BY <1>1 DEF QueuedFor
  <2>2. n \notin idleQ.in \/ n = m BY <2>1 DEF NoticesRight, OneNoticePerSession
  <2>3. IsDeque(idleQ') /\ idleQ'.in = (idleQ.in \ {m}) \cup {n}
    BY <1>1, <2>1, <2>2, ReplaceDeque DEF NoticesRight
  <2>4. IsFiniteSet(idleQ.in \ {m}) /\ Cardinality(idleQ.in \ {m}) = Cardinality(idleQ.in) - 1
    BY <2>1, FS_RemoveElement DEF NoticesRight
  <2>5. IsFiniteSet(idleQ'.in) /\ Cardinality(idleQ'.in) = Cardinality(idleQ.in)
    <3> DEFINE S == idleQ.in \ {m}
    <3>1. n \notin S BY <2>2
    <3> HIDE DEF S
    <3>2. IsFiniteSet(S) => IsFiniteSet(S \cup {n}) /\ Cardinality(S \cup {n}) = Cardinality(S) + 1
      BY <3>1, FS_AddElement
    <3> QED BY <1>0, <2>3, <2>4, <3>2 DEF S
  <2>6. \A a, b \in idleQ'.in : SessionOf[a] = SessionOf[b] => a = b
    BY <2>1, <2>3 DEF NoticesRight, OneNoticePerSession
  <2> QED BY <1>0, <2>3, <2>5, <2>6 DEF NoticesRight, OneNoticePerSession
<1>2. CASE QueuedFor(n) = {} /\ idleQ' = PushBack(rest, n)
  <2>1. IsDeque(rest) BY WithoutDeque DEF NoticesRight
  <2>2. rest.in \in SUBSET idleQ.in /\ n \notin rest.in BY <1>2 DEF Without, QueuedFor
  <2>3. IsFiniteSet(rest.in) /\ Cardinality(rest.in) < IdleCap
    <3>1. CASE Cardinality(idleQ.in) >= IdleCap
      <4>1. idleQ.in # {} BY <1>0, <3>1, FS_EmptySet, CapAssumption
      <4>2. PICK x \in idleQ.in : oldest = {x}
        BY <4>1, FrontExists, FrontUnique DEF NoticesRight
      <4>3. rest.in = idleQ.in \ {x} BY <3>1, <4>2 DEF Without
      <4>4. /\ IsFiniteSet(idleQ.in \ {x})
            /\ Cardinality(idleQ.in \ {x}) = Cardinality(idleQ.in) - 1
        BY FS_RemoveElement DEF NoticesRight
      <4> HIDE DEF rest
      <4> QED BY <1>0, <4>3, <4>4, CapAssumption
    <3>2. CASE ~(Cardinality(idleQ.in) >= IdleCap)
      BY <1>0, <3>2, CapAssumption DEF NoticesRight
    <3> QED BY <3>1, <3>2
  <2> HIDE DEF rest
  <2>4. IsDeque(idleQ') /\ idleQ'.in = rest.in \cup {n}
    <3>1. IsDeque(idleQ') BY <1>2, <2>1, <2>2, PushBackDeque
    <3> QED BY <1>2, <3>1 DEF PushBack
  <2>5. Cardinality(rest.in) \in Nat BY <2>3, FS_CardinalityType
  <2>6. IsFiniteSet(idleQ'.in) /\ Cardinality(idleQ'.in) <= IdleCap
    <3>1. /\ IsFiniteSet(rest.in \cup {n})
          /\ Cardinality(rest.in \cup {n}) = Cardinality(rest.in) + 1
      BY <2>2, <2>3, FS_AddElement
    <3> QED BY <2>3, <2>4, <2>5, <3>1, CapAssumption
  <2>7. \A m \in idleQ.in : SessionOf[m] # SessionOf[n] BY <1>2 DEF QueuedFor
  <2>8. \A a, b \in idleQ'.in : SessionOf[a] = SessionOf[b] => a = b
    BY <2>2, <2>4, <2>7 DEF NoticesRight, OneNoticePerSession
  <2> QED BY <2>4, <2>6, <2>8 DEF NoticesRight, OneNoticePerSession
<1> QED BY <1>1, <1>2 DEF Requeue

\* No other step adds a notice.
LEMMA OthersKeepNotices ==
  ASSUME NoticesRight, [Next]_vars, \A t \in Threads : ~Requeue(t)
  PROVE  idleQ' = idleQ \/ \E S : idleQ' = Without(idleQ, S)
<1>1. ASSUME NEW t \in Threads, Routine(t) PROVE idleQ' = idleQ \/ \E S : idleQ' = Without(idleQ, S)
  BY <1>1
  DEF Routine, Wipe, Pop, PopNothing, Check, InstallNext, PeekSlot, TakeIdle, TakeNoIdle, Place,
      Emit, Prune, Relock, Move
<1>2. ASSUME NEW h \in Hooks, NewJob(h) PROVE idleQ' = idleQ
  BY <1>2
  DEF NewJob, Submit, Progress, ToolStep, Cancel, Tick, FocusIn, FocusOut, Join, Exit
<1>3. ASSUME NEW h \in Hooks, Hook(h) PROVE idleQ' = idleQ \/ \E S : idleQ' = Without(idleQ, S)
  BY <1>3 DEF Hook, PurgePending, PurgeIdle, CancelIdle, LeaveOptIn, LeaveOptOut
<1>4. ASSUME NEW r \in Requests, Request(r) PROVE idleQ' = idleQ
  BY <1>4 DEF Request, Gate, Enrolled, Park, Timeout, Settle, Respond
<1>5. ASSUME NEW t \in Requests \cup {Loop}, Mark(t) \/ Unmark(t) PROVE idleQ' = idleQ
  BY <1>5 DEF Mark, Unmark
<1>6. ASSUME NEW n \in Notices, Raise(n) PROVE idleQ' = idleQ BY <1>6 DEF Raise
<1>7. CASE EventHandler
  <2>1. Reset => idleQ' = Without(idleQ, idleQ.in)
    <3>1. idleQ.ahead \subseteq idleQ.in \X idleQ.in
      BY DEF NoticesRight, IsDeque
    <3> QED BY <3>1 DEF Reset, EmptyDeque, Without
  <2> QED BY <1>7, <2>1
    DEF EventHandler, TakeKey, FocusClear, Attend, Decide, Meets, Send, TakeUp, Resync, TakeDown,
        TakeState, DisarmIn, DisarmOut
<1>8. CASE Surroundings
  BY <1>8 DEF Surroundings, Press, Unplug, Plug, Flip, Hangup, Abandon, daemonVars
<1>9. CASE UNCHANGED vars BY <1>9 DEF vars
<1> QED BY <1>1, <1>2, <1>3, <1>4, <1>5, <1>6, <1>7, <1>8, <1>9
  DEF Next, RequestStep, NoticeStep, HookStep, LoopStep, Threads

\* Every step.
LEMMA NextKeepsNotices == Typed /\ NoticesRight /\ [Next]_vars => NoticesRight'
<1> SUFFICES ASSUME TypeOK, TasksRight, NoticesRight, [Next]_vars PROVE NoticesRight'
  BY DEF Typed
<1>1. CASE \E t \in Threads : Requeue(t) BY <1>1, RequeueKeepsNotices
<1>2. CASE idleQ' = idleQ BY <1>2 DEF NoticesRight, OneNoticePerSession
<1> QED BY <1>1, <1>2, OthersKeepNotices, FewerNotices

\* The idle queue never holds two notices of a session, nor more than its cap,
\* however tasks take, put back and purge notices at once (queue_idle, alerts.rs).
THEOREM NoticesAreOnePerSession == Spec => []OneNoticePerSession
<1>1. Init => NoticesRight
  BY FS_EmptySet, CapAssumption DEF Init, NoticesRight, OneNoticePerSession, EmptyDeque, IsDeque
<1> QED BY <1>1, NextKeepsNotices, AlwaysTyped, PTL DEF Spec, NoticesRight

-----------------------------------------------------------------------------
\* Enrollment stays exclusive.

\* A step of t that leaves s in both sets leaves t at s's mark, or found s in
\* both and was not the one at its mark.
Halved(t) ==
  \A s \in optIn' \cap optOut' :
    \/ pc'[t] = "unmark" /\ Marked(t)' = s
    \/ s \in optIn \cap optOut /\ ~(pc[t] = "unmark" /\ Marked(t) = s)

\* So is halving, as other tasks keep their marks.
LEMMA HalfMarked ==
  ASSUME ExclusiveUnlessMarking, NEW t \in Threads, OthersSame(t), Halved(t)
  PROVE  ExclusiveUnlessMarking'
<1> SUFFICES ASSUME NEW s \in optIn' \cap optOut'
             PROVE  \E u \in Threads : pc'[u] = "unmark" /\ Marked(u)' = s
  BY DEF ExclusiveUnlessMarking
<1>1. CASE pc'[t] = "unmark" /\ Marked(t)' = s BY <1>1
<1>2. CASE s \in optIn \cap optOut /\ ~(pc[t] = "unmark" /\ Marked(t) = s)
  <2>1. PICK u \in Threads \ {t} : pc[u] = "unmark" /\ Marked(u) = s
    BY <1>2 DEF ExclusiveUnlessMarking
  <2>2. pc'[u] = "unmark" /\ Marked(u)' = s BY <2>1 DEF OthersSame, Same, Marked
  <2> QED BY <2>2
<1> QED BY <1>1, <1>2 DEF Halved

\* Marks are made in halves by a new job.
LEMMA NewJobHalves ==
  ASSUME TypeOK, NEW h \in Hooks, NewJob(h)
  PROVE  Halved(h)
<1> h \in Threads /\ h # Loop BY ThreadsAssumption DEF Threads
<1>0. PICK s \in Sessions :
  \/ Submit(h, s) \/ Progress(h, s) \/ (\E tool \in Tools : ToolStep(h, s, tool)) \/ Tick(h)
  \/ FocusIn(h, s) \/ FocusOut(s) \/ Join(h, s) \/ Exit(h, s)
  BY DEF NewJob
<1>1. CASE Submit(h, s)
  BY <1>1, ThreadsAssumption DEF Halved, Marked, TypeOK, TaskTypes, Submit, Cancel, Job, FreeSlot
<1>2. CASE Progress(h, s)
  BY <1>2, ThreadsAssumption
  DEF Halved, Marked, TypeOK, TaskTypes, Progress, Cancel, Job, FreeSlot
<1>3. ASSUME NEW tool \in Tools, ToolStep(h, s, tool) PROVE Halved(h)
  BY <1>3, ThreadsAssumption
  DEF Halved, Marked, TypeOK, TaskTypes, ToolStep, Cancel, Job, FreeSlot
<1>4. CASE Tick(h)
  BY <1>4, ThreadsAssumption DEF Halved, Marked, TypeOK, TaskTypes, Tick
<1>5. CASE FocusIn(h, s)
  BY <1>5, ThreadsAssumption DEF Halved, Marked, TypeOK, TaskTypes, FocusIn, Job
<1>6. CASE FocusOut(s)
  BY <1>6, ThreadsAssumption DEF Halved, Marked, TypeOK, TaskTypes, FocusOut
<1>7. CASE Join(h, s)
  BY <1>7, ThreadsAssumption DEF Halved, Marked, TypeOK, TaskTypes, Join
<1>8. CASE Exit(h, s)
  BY <1>8, ThreadsAssumption DEF Halved, Marked, TypeOK, TaskTypes, Exit, Job
<1> QED BY <1>0, <1>1, <1>2, <1>3, <1>4, <1>5, <1>6, <1>7, <1>8

\* Marks are made in halves by a notice that is raised.
LEMMA RaiseHalves ==
  ASSUME TypeOK, NEW n \in Notices, Raise(n)
  PROVE  Halved(n)
<1> n \in Threads /\ n # Loop BY ThreadsAssumption DEF Threads
<1>1. CASE Raise(n)
  BY <1>1, ThreadsAssumption DEF Halved, Marked, TypeOK, TaskTypes, Raise
<1> QED BY <1>1

\* Marks are made in halves by an enrollment mark.
LEMMA MarksHalve ==
  ASSUME TypeOK, NEW t \in Requests \cup {Loop}, Mark(t) \/ Unmark(t)
  PROVE  Halved(t)
<1> t \in Threads BY DEF Threads
<1>1. CASE Mark(t)
  BY <1>1, ThreadsAssumption DEF Halved, Marked, TypeOK, TaskTypes, Mark, Allows
<1>2. CASE Unmark(t)
  BY <1>2, ThreadsAssumption DEF Halved, Marked, TypeOK, TaskTypes, Unmark, Allows
<1> QED BY <1>1, <1>2

\* Marks are made in halves by the routines of AlertSlot.
LEMMA RoutineHalves ==
  ASSUME TypeOK, NEW t \in Threads, Routine(t)
  PROVE  Halved(t)
<1>1. CASE Wipe(t)
  BY <1>1, ThreadsAssumption DEF Halved, Marked, TypeOK, TaskTypes, Wipe, AfterWipe
<1>2. CASE Pop(t)
  BY <1>2, ThreadsAssumption DEF Halved, Marked, TypeOK, TaskTypes, Pop
<1>3. CASE PopNothing(t)
  BY <1>3, ThreadsAssumption DEF Halved, Marked, TypeOK, TaskTypes, PopNothing, AfterPrompts
<1>4. CASE Check(t)
  BY <1>4, ThreadsAssumption
  DEF Halved, Marked, TypeOK, TaskTypes, Check, Approves, Declines, Enrollable
<1>5. CASE InstallNext(t)
  BY <1>5, ThreadsAssumption DEF Halved, Marked, TypeOK, TaskTypes, InstallNext, Install
<1>6. CASE PeekSlot(t)
  BY <1>6, ThreadsAssumption DEF Halved, Marked, TypeOK, TaskTypes, PeekSlot
<1>7. CASE TakeIdle(t)
  BY <1>7, ThreadsAssumption DEF Halved, Marked, TypeOK, TaskTypes, TakeIdle
<1>8. CASE TakeNoIdle(t)
  BY <1>8, ThreadsAssumption DEF Halved, Marked, TypeOK, TaskTypes, TakeNoIdle
<1>9. CASE Place(t)
  BY <1>9, ThreadsAssumption DEF Halved, Marked, TypeOK, TaskTypes, Place, Install, AfterPlace
<1>10. CASE Requeue(t)
  BY <1>10, ThreadsAssumption DEF Halved, Marked, TypeOK, TaskTypes, Requeue, AfterPlace
<1>11. CASE Emit(t)
  BY <1>11, ThreadsAssumption DEF Halved, Marked, TypeOK, TaskTypes, Emit, AfterEmit
<1>12. CASE Prune(t)
  BY <1>12, ThreadsAssumption DEF Halved, Marked, TypeOK, TaskTypes, Prune
<1>13. CASE Relock(t)
  BY <1>13, ThreadsAssumption DEF Halved, Marked, TypeOK, TaskTypes, Relock, FreeSlot
<1>14. CASE Move(t)
  BY <1>14, ThreadsAssumption DEF Halved, Marked, TypeOK, TaskTypes, Move
<1> QED BY <1>1, <1>2, <1>3, <1>4, <1>5, <1>6, <1>7, <1>8, <1>9, <1>10, <1>11, <1>12, <1>13, <1>14
  DEF Routine

\* Marks are made in halves by the permission hook.
LEMMA RequestHalves ==
  ASSUME TypeOK, NEW r \in Requests, Request(r)
  PROVE  Halved(r)
<1> r \in Threads /\ r # Loop BY ThreadsAssumption DEF Threads
<1>1. CASE Gate(r)
  BY <1>1, ThreadsAssumption DEF Halved, Marked, TypeOK, TaskTypes, Gate
<1>2. CASE Enrolled(r)
  BY <1>2, ThreadsAssumption DEF Halved, Marked, TypeOK, TaskTypes, Enrolled
<1>3. CASE Park(r)
  BY <1>3, ThreadsAssumption DEF Halved, Marked, TypeOK, TaskTypes, Park, Install
<1>4. CASE Timeout(r)
  BY <1>4, ThreadsAssumption DEF Halved, Marked, TypeOK, TaskTypes, Timeout
<1>5. CASE Settle(r)
  BY <1>5, ThreadsAssumption DEF Halved, Marked, TypeOK, TaskTypes, Settle, FreeSlot
<1>6. CASE Respond(r)
  BY <1>6, ThreadsAssumption DEF Halved, Marked, TypeOK, TaskTypes, Respond, ReplyTo
<1> QED BY <1>1, <1>2, <1>3, <1>4, <1>5, <1>6 DEF Request

\* Marks are made in halves by a job under way.
LEMMA HookHalves ==
  ASSUME TypeOK, NEW h \in Hooks, Hook(h)
  PROVE  Halved(h)
<1> h \in Threads /\ h # Loop BY ThreadsAssumption DEF Threads
<1>1. CASE PurgePending(h)
  BY <1>1, ThreadsAssumption
  DEF Halved, Marked, TypeOK, TaskTypes, PurgePending, Job, PromoteIfFreed
<1>2. CASE PurgeIdle(h)
  BY <1>2, ThreadsAssumption DEF Halved, Marked, TypeOK, TaskTypes, PurgeIdle, Job, PromoteIfFreed
<1>3. CASE CancelIdle(h)
  BY <1>3, ThreadsAssumption DEF Halved, Marked, TypeOK, TaskTypes, CancelIdle, FreeSlot, Job
<1>4. CASE LeaveOptIn(h)
  BY <1>4, ThreadsAssumption DEF Halved, Marked, TypeOK, TaskTypes, LeaveOptIn
<1>5. CASE LeaveOptOut(h)
  BY <1>5, ThreadsAssumption DEF Halved, Marked, TypeOK, TaskTypes, LeaveOptOut, Job
<1> QED BY <1>1, <1>2, <1>3, <1>4, <1>5 DEF Hook

\* Marks are made in halves by the event loop.
LEMMA EventHandlerHalves ==
  ASSUME TypeOK, EventHandler
  PROVE  Halved(Loop)
<1> Loop \in Threads BY DEF Threads
<1>1. CASE TakeKey
  BY <1>1, ThreadsAssumption DEF Halved, Marked, TypeOK, TaskTypes, TakeKey, Receive
<1>2. CASE FocusClear
  BY <1>2, ThreadsAssumption DEF Halved, Marked, TypeOK, TaskTypes, FocusClear, FreeSlot
<1>3. CASE Attend
  BY <1>3, ThreadsAssumption DEF Halved, Marked, TypeOK, TaskTypes, Attend
<1>4. CASE Decide
  BY <1>4, ThreadsAssumption DEF Halved, Marked, TypeOK, TaskTypes, Decide, Meets, FreeSlot
<1>5. CASE Send
  BY <1>5, ThreadsAssumption DEF Halved, Marked, TypeOK, TaskTypes, Send
<1>6. CASE TakeUp
  BY <1>6, ThreadsAssumption DEF Halved, Marked, TypeOK, TaskTypes, TakeUp, Receive
<1>7. CASE Resync
  BY <1>7, ThreadsAssumption DEF Halved, Marked, TypeOK, TaskTypes, Resync, Resynced
<1>8. CASE TakeDown
  BY <1>8, ThreadsAssumption DEF Halved, Marked, TypeOK, TaskTypes, TakeDown, Receive
<1>9. CASE TakeState
  BY <1>9, ThreadsAssumption DEF Halved, Marked, TypeOK, TaskTypes, TakeState, Receive
<1>10. CASE DisarmIn
  BY <1>10, ThreadsAssumption DEF Halved, Marked, TypeOK, TaskTypes, DisarmIn
<1>11. CASE DisarmOut
  BY <1>11, ThreadsAssumption DEF Halved, Marked, TypeOK, TaskTypes, DisarmOut
<1>12. CASE Reset
  BY <1>12, ThreadsAssumption DEF Halved, Marked, TypeOK, TaskTypes, Reset, QueueAfterReset
<1> QED BY <1>1, <1>2, <1>3, <1>4, <1>5, <1>6, <1>7, <1>8, <1>9, <1>10, <1>11, <1>12
  DEF EventHandler

-----------------------------------------------------------------------------
\* The induction.

\* The surroundings.
LEMMA SurroundingsHalve ==
  ASSUME TypeOK, ExclusiveUnlessMarking, Surroundings, "abandon" \notin World
  PROVE  ExclusiveUnlessMarking'
<1>1. CASE ~\E r \in Requests : Hangup(r)
  BY <1>1 DEF Surroundings, Press, Unplug, Plug, Flip, Abandon, daemonVars, ExclusiveUnlessMarking, Marked
<1>2. ASSUME NEW r \in Requests, Hangup(r) PROVE ExclusiveUnlessMarking'
  <2>1. r \in Threads BY DEF Threads
  <2>2. OthersSame(r) BY <1>2 DEF OthersSame, Same, TypeOK, TaskTypes, Hangup
  <2>3. Halved(r)
    BY <1>2, <2>1, ThreadsAssumption DEF Halved, TypeOK, TaskTypes, Hangup
  <2> QED BY <2>1, <2>2, <2>3, HalfMarked
<1> QED BY <1>1, <1>2

\* Every step.
LEMMA NextHalvesMarks ==
  ASSUME "abandon" \notin World
  PROVE  Typed /\ ExclusiveUnlessMarking /\ [Next]_vars => ExclusiveUnlessMarking'
<1> SUFFICES ASSUME TypeOK, TasksRight, ExclusiveUnlessMarking,
    [Next]_vars PROVE ExclusiveUnlessMarking'
  BY DEF Typed
<1>1. ASSUME NEW r \in Requests, RequestStep(r) PROVE ExclusiveUnlessMarking'
  <2>1. r \in Threads /\ r \in Requests \cup {Loop} BY DEF Threads
  <2>2. OthersSame(r) BY <1>1, <2>1, RoutineOthers, RequestOthers, MarksOthers DEF RequestStep
  <2>3. Halved(r) BY <1>1, <2>1, RoutineHalves, RequestHalves, MarksHalve DEF RequestStep
  <2> QED BY <2>1, <2>2, <2>3, HalfMarked
<1>2. ASSUME NEW n \in Notices, NoticeStep(n) PROVE ExclusiveUnlessMarking'
  <2>1. n \in Threads BY DEF Threads
  <2>2. OthersSame(n) BY <1>2, <2>1, RoutineOthers, RaiseOthers DEF NoticeStep
  <2>3. Halved(n) BY <1>2, <2>1, RoutineHalves, RaiseHalves DEF NoticeStep
  <2> QED BY <2>1, <2>2, <2>3, HalfMarked
<1>3. ASSUME NEW h \in Hooks, HookStep(h) \/ NewJob(h) PROVE ExclusiveUnlessMarking'
  <2>1. h \in Threads BY DEF Threads
  <2>2. OthersSame(h) BY <1>3, <2>1, RoutineOthers, HookOthers, NewJobOthers DEF HookStep
  <2>3. Halved(h) BY <1>3, <2>1, RoutineHalves, HookHalves, NewJobHalves DEF HookStep
  <2> QED BY <2>1, <2>2, <2>3, HalfMarked
<1>4. CASE LoopStep
  <2>1. Loop \in Threads /\ Loop \in Requests \cup {Loop} BY DEF Threads
  <2>2. OthersSame(Loop) BY <1>4, <2>1, RoutineOthers, EventHandlerOthers, MarksOthers
    DEF LoopStep
  <2>3. Halved(Loop) BY <1>4, <2>1, RoutineHalves, EventHandlerHalves, MarksHalve DEF LoopStep
  <2> QED BY <2>1, <2>2, <2>3, HalfMarked
<1>5. CASE Surroundings BY <1>5, SurroundingsHalve
<1>6. CASE UNCHANGED vars BY <1>6 DEF vars, ExclusiveUnlessMarking, Marked
<1> QED BY <1>1, <1>2, <1>3, <1>4, <1>5, <1>6 DEF Next

\* A wrapper is in both enrollment sets only between the two halves of a mark
\* (mark_yolo_opt_in, mark_yolo_opt_out, wrapper.rs), as long as no task is
\* dropped between them.
THEOREM EnrollmentIsExclusive ==
  ASSUME "abandon" \notin World
  PROVE  Spec => []ExclusiveUnlessMarking
<1>1. Init => ExclusiveUnlessMarking BY DEF Init, ExclusiveUnlessMarking
<1> QED BY <1>1, AlwaysTyped, NextHalvesMarks, PTL DEF Spec

-----------------------------------------------------------------------------
\* What the device shows.

\* The alerts are all of one session, and its tab stays where it is: no wrapper
\* comes or goes, or the session is the oldest.
OneTab ==
  \A a, b \in Alerts :
    /\ SessionOf[a] = SessionOf[b]
    /\ "wrapper" \in Jobs => \A s \in Sessions : Rank[SessionOf[a]] <= Rank[s]
Home == Position(Sessions, SessionOf[CHOOSE a \in Alerts : TRUE])

\* Whatever draws an alert draws it there, and refresh_for_tabs has no reason
\* to move one.
HomeRight(t) ==
  /\ pc[t] # "move"
  /\ pc[t] \in {"install", "place", "park"} => tabOf[t] = Home
  /\ pc[t] \in {"prune", "relock"} /\ "wrapper" \notin Jobs => snap[t] = Sessions
  /\ pc[t] = "relock" => \E a \in Alerts : seen[t] = SessionOf[a]

IsUp(i)   == inbox[i].what = "up"
IsDown(i) == inbox[i].what = "down"
Coming    == \E i \in 1 .. Len(inbox) : IsUp(i)

\* What the device shows is not the daemon's doing: it is away, or it is back
\* and has yet to be resynced.
Stale == ~hidUp \/ Coming \/ pc[Loop] = "resync"

\* The loop is on its way to drop the alerts, because the device went away.
Dropping == pc[Loop] = "reset" \/ (pc[Loop] \in {"disarmIn", "disarmOut"} /\ key.what = "down")

\* A device that went away has not come back, or a resync is on its way behind
\* the loss.
Followed ==
  \A i \in 1 .. Len(inbox) : IsDown(i) => ~hidUp \/ \E j \in i + 1 .. Len(inbox) : IsUp(j)
LinkRight ==
  /\ Dropping => ~hidUp \/ Coming
  /\ Followed
  /\ "plug" \notin World => ~Stale

ScreenRight ==
  /\ "wrapper" \notin Jobs => live = Sessions
  /\ \A t \in Threads : HomeRight(t)
  /\ slot # None => slotTab = Home
  /\ \A p \in screen :
       /\ p[1] = Home
       /\ p = <<slotTab, slot>> \/ Stale \/ \E t \in Threads : Wiping(t, p[1])

\* A step of t keeps tabs where they are.
HomeKept(t) ==
  /\ "wrapper" \notin Jobs => live' = live
  /\ HomeRight(t)'
  /\ \A u \in Threads \ {t} : snap'[u] = snap[u] /\ seen'[u] = seen[u]
  /\ slot' # None => slotTab' = Home

\* It draws the live alert and nothing else, or leaves what was there, as well
\* accounted for as it was: an alert that is live no longer is t's to clear.
Clearing(t) == Wiping(t, Home)
Drawn(t) ==
  \/ \A p \in screen' : p = <<Home, slot'>> /\ slot' # None
  \/ /\ screen' \subseteq screen
     /\ Stale => Stale'
     /\ Clearing(t) => Clearing(t)' \/ Stale'
     /\ slot' # slot => slot = None \/ Clearing(t)' \/ Stale'

\* That is enough, as what other tasks have to clear they still have.
LEMMA DrawnRight ==
  ASSUME ScreenRight, TypeOK, NEW t \in Threads, OthersSame(t), HomeKept(t), Drawn(t)
  PROVE  ScreenRight'
<1>1. "wrapper" \notin Jobs => live' = Sessions BY DEF ScreenRight, HomeKept
<1>2. ASSUME NEW u \in Threads PROVE HomeRight(u)'
  <2>1. CASE u = t BY <2>1 DEF HomeKept
  <2>2. CASE u # t
    <3>1. pc'[u] = pc[u] /\ tabOf'[u] = tabOf[u] /\ snap'[u] = snap[u] /\ seen'[u] = seen[u]
      BY <2>2 DEF OthersSame, Same, HomeKept
    <3>2. HomeRight(u) BY DEF ScreenRight
    <3> QED BY <3>1, <3>2 DEF HomeRight
  <2> QED BY <2>1, <2>2
<1>3. slot' # None => slotTab' = Home BY DEF HomeKept
<1>4. ASSUME NEW p \in screen'
      PROVE  /\ p[1] = Home
             /\ p = <<slotTab', slot'>> \/ Stale' \/ \E u \in Threads : Wiping(u, p[1])'
  <2>1. CASE p = <<Home, slot'>> /\ slot' # None BY <1>3, <2>1
  <2>2. CASE /\ p \in screen
             /\ Stale => Stale'
             /\ Clearing(t) => Clearing(t)' \/ Stale'
             /\ slot' # slot => slot = None \/ Clearing(t)' \/ Stale'
    <3>1. p[1] = Home BY <2>2 DEF ScreenRight
    <3>2. CASE p = <<slotTab, slot>>
      <4>1. slot # None BY <2>2, <3>2, ThreadsAssumption DEF TypeOK, DeviceTypes
      <4>2. p = <<slotTab', slot'>> \/ Stale' \/ Wiping(t, p[1])'
        BY <1>3, <2>2, <3>1, <3>2, <4>1 DEF Clearing, ScreenRight
      <4> QED BY <3>1, <4>2
    <3>3. ASSUME NEW u \in Threads, Wiping(u, p[1]) PROVE Stale' \/ Wiping(u, p[1])'
      <4>1. CASE u = t BY <2>2, <3>1, <3>3, <4>1 DEF Clearing
      <4>2. CASE u # t BY <3>3, <4>2 DEF OthersSame, Same, Wiping
      <4> QED BY <4>1, <4>2
    <3> QED BY <2>2, <3>1, <3>2, <3>3 DEF ScreenRight
  <2> QED BY <2>1, <2>2 DEF Drawn
<1> QED BY <1>1, <1>2, <1>3, <1>4 DEF ScreenRight

\* Most steps draw nothing: what t has to clear it still has, and if it freed
\* the slot, it has the tab to clear.
Undrawn(t) ==
  /\ UNCHANGED <<screen, hidUp, inbox>>
  /\ pc[Loop] = "resync" => pc'[Loop] = "resync"
  /\ Clearing(t) => Clearing(t)'
  /\ slot' = slot \/ slot = None \/ Clearing(t)'

LEMMA NothingDrawn == ASSUME NEW t, Undrawn(t) PROVE Drawn(t)
BY DEF Undrawn, Drawn, Stale, Coming, IsUp

\* An alert that goes live takes the place of whatever the device showed.
LEMMA AlertDrawn ==
  ASSUME ScreenRight, NEW t, NEW a \in Alerts, Install(a, Home)
  PROVE  Drawn(t)
BY ThreadsAssumption DEF ScreenRight, Drawn, Install, Shown

\* Home is a tab.
LEMMA HomeType == Home \in Nat
BY PositionType DEF Home

\* The tab of the alerts' session, in any tab list there is.
LEMMA PositionHome ==
  ASSUME OneTab, NEW a \in Alerts, NEW S \in SUBSET Sessions, SessionOf[a] \in S,
         "wrapper" \in Jobs \/ S = Sessions
  PROVE  Position(S, SessionOf[a]) = Home
<1> DEFINE b == CHOOSE x \in Alerts : TRUE
           s == SessionOf[a]
<1>1. SessionOf[b] = s BY DEF OneTab
<1>2. CASE S = Sessions BY <1>1, <1>2 DEF Home
<1>3. CASE "wrapper" \in Jobs
  <2>1. \A u \in Sessions : Rank[s] <= Rank[u] BY <1>3 DEF OneTab
  <2>2. \A u \in Sessions : ~(Rank[u] < Rank[s])
    <3> s \in Sessions BY SessionsAssumption
    <3> QED BY <2>1, SessionsAssumption
  <2>3. {u \in S : Rank[u] < Rank[s]} = {} /\ {u \in Sessions : Rank[u] < Rank[s]} = {}
    BY <2>2
  <2> QED BY <1>1, <2>3, FS_EmptySet DEF Position, Home
<1> QED BY <1>2, <1>3

\* So it is in the registry's.
LEMMA TabHome ==
  ASSUME OneTab, TypeOK, ScreenRight, NEW a \in Alerts
  PROVE  Tab(SessionOf[a]) = Home
<1>1. live \in SUBSET Sessions BY DEF TypeOK, WrapperTypes
<1>2. CASE SessionOf[a] \in live BY <1>1, <1>2, PositionHome DEF Tab, ScreenRight
<1>3. CASE SessionOf[a] \notin live
  <2>1. SessionOf[a] \in Sessions BY SessionsAssumption
  <2>2. "wrapper" \in Jobs BY <1>3, <2>1 DEF ScreenRight
  <2>3. \A u \in Sessions : Rank[SessionOf[a]] <= Rank[u] BY <2>2 DEF OneTab
  <2>4. {u \in {SessionOf[a]} : Rank[u] < Rank[SessionOf[a]]} = {}
    BY <2>1, <2>3, SessionsAssumption
  <2>5. Position({SessionOf[a]}, SessionOf[a]) = 0 BY <2>4, FS_EmptySet DEF Position
  <2>6. Home = 0 BY <2>1, <2>2, <2>5, PositionHome
  <2> QED BY <1>3, <2>6 DEF Tab
<1> QED BY <1>2, <1>3

\* Events that are taken from the queue, but for a connection.
LEMMA HeadDraws ==
  ASSUME TypeOK, TasksRight, TakeKey \/ TakeDown \/ TakeState
  PROVE  Drawn(Loop)
<1> Loop \in Threads BY DEF Threads
<1>1. /\ inbox # <<>> /\ inbox' = Tail(inbox) /\ Head(inbox).what # "up" /\ pc[Loop] = "ready"
      /\ UNCHANGED <<screen, hidUp, slot, tabOf>>
  BY DEF TakeKey, TakeDown, TakeState, Receive, KeyNames
<1>2. Coming => Coming'
  <2>1. inbox \in Seq(Events) BY DEF TypeOK, LoopTypes
  <2>2. SUFFICES ASSUME NEW i \in 1 .. Len(inbox), IsUp(i) PROVE Coming' BY DEF Coming
  <2>3. i # 1 BY <1>1, <2>2 DEF IsUp
  <2>4. i - 1 \in 1 .. Len(inbox') /\ inbox'[i - 1] = inbox[i] BY <1>1, <2>1, <2>2, <2>3
  <2> QED BY <2>2, <2>4 DEF Coming, IsUp
<1>3. ~Clearing(Loop) BY <1>1 DEF Clearing, Wiping
<1> QED BY <1>1, <1>2, <1>3 DEF Drawn, Stale

\* What the device shows, after a new job.
LEMMA NewJobDraws ==
  ASSUME OneTab, TypeOK, TasksRight, ScreenRight, NEW h \in Hooks,
         NewJob(h)
  PROVE  HomeKept(h) /\ Drawn(h)
<1> h \in Threads /\ h # Loop /\ Loop \in Threads BY ThreadsAssumption DEF Threads
<1>0. PICK s \in Sessions :
  \/ Submit(h, s) \/ Progress(h, s) \/ (\E tool \in Tools : ToolStep(h, s, tool)) \/ Tick(h)
  \/ FocusIn(h, s) \/ FocusOut(s) \/ ("wrapper" \in Jobs /\ (Join(h, s) \/ Exit(h, s)))
  BY DEF NewJob
<1>s. slot # None => slotTab = Home BY DEF ScreenRight
<1>c. CarriesRight(h) BY DEF TasksRight
<1>1. CASE Submit(h, s)
  <2>1. HomeKept(h)
    BY <1>1, ThreadsAssumption
      DEF HomeKept, HomeRight, ScreenRight, TypeOK, TaskTypes, Submit, Cancel, FreeSlot
  <2>2. Undrawn(h)
    BY <1>1, <1>s, <1>c, ThreadsAssumption
      DEF Undrawn, Clearing, Wiping, TypeOK, TaskTypes, Submit, Cancel, FreeSlot
  <2> QED BY <2>1, <2>2, NothingDrawn
<1>2. CASE Progress(h, s)
  <2>1. HomeKept(h)
    BY <1>2, ThreadsAssumption
      DEF HomeKept, HomeRight, ScreenRight, TypeOK, TaskTypes, Progress, Cancel, FreeSlot
  <2>2. Undrawn(h)
    BY <1>2, <1>s, <1>c, ThreadsAssumption
      DEF Undrawn, Clearing, Wiping, TypeOK, TaskTypes, Progress, Cancel, FreeSlot
  <2> QED BY <2>1, <2>2, NothingDrawn
<1>3. ASSUME NEW tool \in Tools, ToolStep(h, s, tool)
      PROVE  HomeKept(h) /\ Drawn(h)
  <2>1. HomeKept(h)
    BY <1>3, ThreadsAssumption
      DEF HomeKept, HomeRight, ScreenRight, TypeOK, TaskTypes, ToolStep, Cancel, FreeSlot
  <2>2. Undrawn(h)
    BY <1>3, <1>s, <1>c, ThreadsAssumption
      DEF Undrawn, Clearing, Wiping, TypeOK, TaskTypes, ToolStep, Cancel, FreeSlot
  <2> QED BY <2>1, <2>2, NothingDrawn
<1>4. CASE Tick(h)
  <2>1. HomeKept(h)
    BY <1>4, ThreadsAssumption DEF HomeKept, HomeRight, ScreenRight, Tick
  <2>2. Undrawn(h)
    BY <1>4, <1>s, <1>c, ThreadsAssumption DEF Undrawn, Clearing, Wiping, Tick
  <2> QED BY <2>1, <2>2, NothingDrawn
<1>5. CASE FocusIn(h, s)
  <2>1. HomeKept(h)
    BY <1>5, ThreadsAssumption DEF HomeKept, HomeRight, ScreenRight, FocusIn
  <2>2. Undrawn(h)
    BY <1>5, <1>s, <1>c, ThreadsAssumption DEF Undrawn, Clearing, Wiping, FocusIn
  <2> QED BY <2>1, <2>2, NothingDrawn
<1>6. CASE FocusOut(s)
  <2>1. HomeKept(h)
    BY <1>6, ThreadsAssumption DEF HomeKept, HomeRight, ScreenRight, FocusOut
  <2>2. Undrawn(h)
    BY <1>6, <1>s, <1>c, ThreadsAssumption DEF Undrawn, Clearing, Wiping, FocusOut
  <2> QED BY <2>1, <2>2, NothingDrawn
<1>7. CASE "wrapper" \in Jobs /\ Join(h, s)
  <2>1. HomeKept(h)
    BY <1>7, ThreadsAssumption DEF HomeKept, HomeRight, ScreenRight, Join
  <2>2. Undrawn(h)
    BY <1>7, <1>s, <1>c, ThreadsAssumption DEF Undrawn, Clearing, Wiping, Join
  <2> QED BY <2>1, <2>2, NothingDrawn
<1>8. CASE "wrapper" \in Jobs /\ Exit(h, s)
  <2>1. HomeKept(h)
    BY <1>8, ThreadsAssumption DEF HomeKept, HomeRight, ScreenRight, Exit
  <2>2. Undrawn(h)
    BY <1>8, <1>s, <1>c, ThreadsAssumption DEF Undrawn, Clearing, Wiping, Exit
  <2> QED BY <2>1, <2>2, NothingDrawn
<1> QED BY <1>0, <1>1, <1>2, <1>3, <1>4, <1>5, <1>6, <1>7, <1>8

\* What the device shows, after a notice that is raised.
LEMMA RaiseDraws ==
  ASSUME OneTab, TypeOK, TasksRight, ScreenRight, NEW n \in Notices,
         Raise(n)
  PROVE  HomeKept(n) /\ Drawn(n)
<1> n \in Threads /\ n # Loop /\ Loop \in Threads BY ThreadsAssumption DEF Threads
<1>t. \A a \in Alerts : Tab(SessionOf[a]) = Home BY TabHome
<1>c. CarriesRight(n) BY DEF TasksRight
<1>1. CASE Raise(n)
  <2>1. HomeKept(n)
    BY <1>1, ThreadsAssumption, <1>t
      DEF HomeKept, HomeRight, ScreenRight, TypeOK, TaskTypes, Alerts, Raise
  <2>2. Undrawn(n)
    BY <1>1, <1>c, ThreadsAssumption DEF Undrawn, Clearing, Wiping, TypeOK, TaskTypes, Raise
  <2> QED BY <2>1, <2>2, NothingDrawn
<1> QED BY <1>1

\* What the device shows, after an enrollment mark.
LEMMA MarksDraws ==
  ASSUME OneTab, TypeOK, TasksRight, ScreenRight, NEW t \in Requests \cup {Loop},
         Mark(t) \/ Unmark(t)
  PROVE  HomeKept(t) /\ Drawn(t)
<1> t \in Threads /\ Loop \in Threads BY DEF Threads
<1>s. slot # None => slotTab = Home BY DEF ScreenRight
<1>c. CarriesRight(t) BY DEF TasksRight
<1>1. CASE Mark(t)
  <2>1. HomeKept(t)
    BY <1>1, ThreadsAssumption DEF HomeKept, HomeRight, ScreenRight, Mark
  <2>2. Undrawn(t)
    BY <1>1, <1>s, <1>c, ThreadsAssumption, HomeType DEF Undrawn, Clearing, Wiping, Mark
  <2> QED BY <2>1, <2>2, NothingDrawn
<1>2. CASE Unmark(t)
  <2>1. HomeKept(t)
    BY <1>2, ThreadsAssumption DEF HomeKept, HomeRight, ScreenRight, Unmark
  <2>2. Undrawn(t)
    BY <1>2, <1>s, <1>c, ThreadsAssumption, HomeType
      DEF Undrawn, Clearing, Wiping, CarriesRight, TasksRight, NoTab, Unmark, LoopRight, TabPCs
  <2> QED BY <2>1, <2>2, NothingDrawn
<1> QED BY <1>1, <1>2

\* What the device shows, after the routines of AlertSlot.
LEMMA RoutineDraws ==
  ASSUME OneTab, TypeOK, TasksRight, ScreenRight, NEW t \in Threads,
         Routine(t)
  PROVE  HomeKept(t) /\ Drawn(t)
<1> Loop \in Threads BY DEF Threads
<1>t. \A a \in Alerts : Tab(SessionOf[a]) = Home BY TabHome
<1>s. slot # None => slotTab = Home BY DEF ScreenRight
<1>c. CarriesRight(t) BY DEF TasksRight
<1>1. CASE Wipe(t)
  <2>1. HomeKept(t)
    BY <1>1, ThreadsAssumption DEF HomeKept, HomeRight, ScreenRight, Wipe, AfterWipe
  <2>2. Drawn(t)
    BY <1>1, <1>s, <1>c, ThreadsAssumption
      DEF Drawn, Clearing, Wiping, Stale, Coming, IsUp, ScreenRight, Wipe, Cleared
  <2> QED BY <2>1, <2>2
<1>2. CASE Pop(t)
  <2>1. HomeKept(t)
    BY <1>2, ThreadsAssumption DEF HomeKept, HomeRight, ScreenRight, Pop
  <2>2. Undrawn(t)
    BY <1>2, <1>s, <1>c, ThreadsAssumption DEF Undrawn, Clearing, Wiping, Pop
  <2> QED BY <2>1, <2>2, NothingDrawn
<1>3. CASE PopNothing(t)
  <2>1. HomeKept(t)
    BY <1>3, ThreadsAssumption
      DEF HomeKept, HomeRight, ScreenRight, TypeOK, TaskTypes, Rets, PopNothing, AfterPrompts
  <2>2. Undrawn(t)
    BY <1>3, <1>s, <1>c, ThreadsAssumption DEF Undrawn, Clearing, Wiping, PopNothing
  <2> QED BY <2>1, <2>2, NothingDrawn
<1>4. CASE Check(t)
  <2>1. HomeKept(t)
    BY <1>4, ThreadsAssumption, <1>t
      DEF HomeKept, HomeRight, ScreenRight, TasksRight, CarriesRight, TypeOK, TaskTypes, Alerts,
          Check
  <2>2. Undrawn(t)
    BY <1>4, <1>s, <1>c, ThreadsAssumption DEF Undrawn, Clearing, Wiping, TypeOK, TaskTypes, Check
  <2> QED BY <2>1, <2>2, NothingDrawn
<1>5. CASE InstallNext(t)
  <2>1. HomeKept(t)
    BY <1>5, ThreadsAssumption
      DEF HomeKept, HomeRight, ScreenRight, TypeOK, TaskTypes, Rets, InstallNext, Install
  <2>2. CASE Install(hand[t], Home)
    <3>1. hand[t] \in Alerts BY <1>5 DEF InstallNext, TasksRight, CarriesRight, Alerts
    <3> QED BY <2>1, <2>2, <3>1, AlertDrawn
  <2>3. CASE slot' = slot /\ screen' = screen
    <3>1. Undrawn(t)
      BY <2>3, <1>5, <1>s, <1>c, ThreadsAssumption
      DEF Undrawn, Clearing, Wiping, TypeOK, TaskTypes, InstallNext
    <3> QED BY <2>1, <3>1, NothingDrawn
  <2>4. (slot' = slot /\ screen' = screen) \/ Install(hand[t], Home)
    BY <1>5 DEF InstallNext, ScreenRight, HomeRight
  <2> QED BY <2>1, <2>2, <2>3, <2>4
<1>6. CASE PeekSlot(t)
  <2>1. HomeKept(t)
    BY <1>6, ThreadsAssumption
      DEF HomeKept, HomeRight, ScreenRight, TypeOK, TaskTypes, Rets, PeekSlot
  <2>2. Undrawn(t)
    BY <1>6, <1>s, <1>c, ThreadsAssumption DEF Undrawn, Clearing, Wiping, PeekSlot
  <2> QED BY <2>1, <2>2, NothingDrawn
<1>7. CASE TakeIdle(t)
  <2>1. HomeKept(t)
    BY <1>7, ThreadsAssumption, <1>t, QueuedAlerts
      DEF HomeKept, HomeRight, ScreenRight, TypeOK, TaskTypes, Alerts, TakeIdle
  <2>2. Undrawn(t)
    BY <1>7, <1>s, <1>c, ThreadsAssumption
      DEF Undrawn, Clearing, Wiping, TypeOK, TaskTypes, TakeIdle
  <2> QED BY <2>1, <2>2, NothingDrawn
<1>8. CASE TakeNoIdle(t)
  <2>1. HomeKept(t)
    BY <1>8, ThreadsAssumption
      DEF HomeKept, HomeRight, ScreenRight, TypeOK, TaskTypes, Rets, TakeNoIdle
  <2>2. Undrawn(t)
    BY <1>8, <1>s, <1>c, ThreadsAssumption DEF Undrawn, Clearing, Wiping, TakeNoIdle
  <2> QED BY <2>1, <2>2, NothingDrawn
<1>9. CASE Place(t)
  <2>1. HomeKept(t)
    BY <1>9, ThreadsAssumption
      DEF HomeKept, HomeRight, ScreenRight, TypeOK, TaskTypes, Place, Install, AfterPlace
  <2>2. CASE Install(hand[t], Home)
    <3>1. hand[t] \in Alerts BY <1>9 DEF Place, TasksRight, CarriesRight, Alerts
    <3> QED BY <2>1, <2>2, <3>1, AlertDrawn
  <2>3. CASE slot' = slot /\ screen' = screen
    <3>1. Undrawn(t)
      BY <2>3, <1>9, <1>s, <1>c, ThreadsAssumption
      DEF Undrawn, Clearing, Wiping, TypeOK, TaskTypes, Place
    <3> QED BY <2>1, <3>1, NothingDrawn
  <2>4. (slot' = slot /\ screen' = screen) \/ Install(hand[t], Home)
    BY <1>9 DEF Place, ScreenRight, HomeRight
  <2> QED BY <2>1, <2>2, <2>3, <2>4
<1>10. CASE Requeue(t)
  <2>1. HomeKept(t)
    BY <1>10, ThreadsAssumption DEF HomeKept, HomeRight, ScreenRight, Requeue, AfterPlace
  <2>2. Undrawn(t)
    BY <1>10, <1>s, <1>c, ThreadsAssumption DEF Undrawn, Clearing, Wiping, Requeue
  <2> QED BY <2>1, <2>2, NothingDrawn
<1>11. CASE Emit(t)
  <2>1. HomeKept(t)
    BY <1>11, ThreadsAssumption DEF HomeKept, HomeRight, ScreenRight, TypeOK, TaskTypes, Emit
  <2>2. Undrawn(t)
    BY <1>11, <1>s, <1>c, ThreadsAssumption DEF Undrawn, Clearing, Wiping, Emit
  <2> QED BY <2>1, <2>2, NothingDrawn
<1>12. CASE Prune(t)
  <2>1. HomeKept(t)
    BY <1>12, ThreadsAssumption
      DEF HomeKept, HomeRight, ScreenRight, TypeOK, TaskTypes, AlertTypes, Prune
  <2>2. Undrawn(t)
    BY <1>12, <1>s, <1>c, ThreadsAssumption
      DEF Undrawn, Clearing, Wiping, TypeOK, TaskTypes, Prune
  <2> QED BY <2>1, <2>2, NothingDrawn
<1>13. CASE Relock(t)
  <2>1. HomeKept(t)
    BY <1>13, ThreadsAssumption, PositionHome
      DEF HomeKept, HomeRight, ScreenRight, TypeOK, TaskTypes, Rets, Relock, FreeSlot
  <2>2. Undrawn(t)
    BY <1>13, <1>s, <1>c, ThreadsAssumption
      DEF Undrawn, Clearing, Wiping, TypeOK, TaskTypes, Relock, FreeSlot
  <2> QED BY <2>1, <2>2, NothingDrawn
<1>14. ~Move(t) BY DEF Move, ScreenRight, HomeRight
<1> QED BY <1>1, <1>2, <1>3, <1>4, <1>5, <1>6, <1>7, <1>8, <1>9, <1>10, <1>11, <1>12, <1>13, <1>14
  DEF Routine

\* What the device shows, after the permission hook.
LEMMA RequestDraws ==
  ASSUME OneTab, TypeOK, TasksRight, ScreenRight, NEW r \in Requests,
         Request(r)
  PROVE  HomeKept(r) /\ Drawn(r)
<1> r \in Threads /\ r # Loop /\ Loop \in Threads BY ThreadsAssumption DEF Threads
<1>t. \A a \in Alerts : Tab(SessionOf[a]) = Home BY TabHome
<1>s. slot # None => slotTab = Home BY DEF ScreenRight
<1>c. CarriesRight(r) BY DEF TasksRight
<1>1. CASE Gate(r)
  <2>1. HomeKept(r)
    BY <1>1, ThreadsAssumption, <1>t
      DEF HomeKept, HomeRight, ScreenRight, TypeOK, TaskTypes, Alerts, Gate
  <2>2. Undrawn(r)
    BY <1>1, <1>s, <1>c, ThreadsAssumption DEF Undrawn, Clearing, Wiping, TypeOK, TaskTypes, Gate
  <2> QED BY <2>1, <2>2, NothingDrawn
<1>2. CASE Enrolled(r)
  <2>1. HomeKept(r)
    BY <1>2, ThreadsAssumption, <1>t
      DEF HomeKept, HomeRight, ScreenRight, TypeOK, TaskTypes, Alerts, Enrolled
  <2>2. Undrawn(r)
    BY <1>2, <1>s, <1>c, ThreadsAssumption
      DEF Undrawn, Clearing, Wiping, TypeOK, TaskTypes, Enrolled
  <2> QED BY <2>1, <2>2, NothingDrawn
<1>3. CASE Park(r)
  <2>1. HomeKept(r)
    BY <1>3, ThreadsAssumption
      DEF HomeKept, HomeRight, ScreenRight, TypeOK, TaskTypes, Park, Install
  <2>2. CASE Install(r, Home)
    <3>1. r \in Alerts BY DEF Alerts
    <3> QED BY <2>1, <2>2, <3>1, AlertDrawn
  <2>3. CASE slot' = slot /\ screen' = screen
    <3>1. Undrawn(r)
      BY <2>3, <1>3, <1>s, <1>c, ThreadsAssumption
      DEF Undrawn, Clearing, Wiping, TypeOK, TaskTypes, Park
    <3> QED BY <2>1, <3>1, NothingDrawn
  <2>4. (slot' = slot /\ screen' = screen) \/ Install(r, Home)
    BY <1>3 DEF Park, ScreenRight, HomeRight
  <2> QED BY <2>1, <2>2, <2>3, <2>4
<1>4. CASE Timeout(r)
  <2>1. HomeKept(r)
    BY <1>4, ThreadsAssumption DEF HomeKept, HomeRight, ScreenRight, Timeout
  <2>2. Undrawn(r)
    BY <1>4, <1>s, <1>c, ThreadsAssumption DEF Undrawn, Clearing, Wiping, Timeout
  <2> QED BY <2>1, <2>2, NothingDrawn
<1>5. CASE Settle(r)
  <2>1. HomeKept(r)
    BY <1>5, ThreadsAssumption
      DEF HomeKept, HomeRight, ScreenRight, TypeOK, TaskTypes, Settle, FreeSlot
  <2>2. Undrawn(r)
    BY <1>5, <1>s, <1>c, ThreadsAssumption
      DEF Undrawn, Clearing, Wiping, TypeOK, TaskTypes, Settle, FreeSlot
  <2> QED BY <2>1, <2>2, NothingDrawn
<1>6. CASE Respond(r)
  <2>1. HomeKept(r)
    BY <1>6, ThreadsAssumption DEF HomeKept, HomeRight, ScreenRight, Respond
  <2>2. Undrawn(r)
    BY <1>6, <1>s, <1>c, ThreadsAssumption DEF Undrawn, Clearing, Wiping, Respond
  <2> QED BY <2>1, <2>2, NothingDrawn
<1> QED BY <1>1, <1>2, <1>3, <1>4, <1>5, <1>6 DEF Request

\* What the device shows, after a job under way.
LEMMA HookDraws ==
  ASSUME OneTab, TypeOK, TasksRight, ScreenRight, NEW h \in Hooks,
         Hook(h)
  PROVE  HomeKept(h) /\ Drawn(h)
<1> h \in Threads /\ h # Loop /\ Loop \in Threads BY ThreadsAssumption DEF Threads
<1>s. slot # None => slotTab = Home BY DEF ScreenRight
<1>c. CarriesRight(h) BY DEF TasksRight
<1>1. CASE PurgePending(h)
  <2>1. HomeKept(h)
    BY <1>1, ThreadsAssumption
      DEF HomeKept, HomeRight, ScreenRight, TypeOK, TaskTypes, PurgePending, PromoteIfFreed
  <2>2. Undrawn(h)
    BY <1>1, <1>s, <1>c, ThreadsAssumption
      DEF Undrawn, Clearing, Wiping, TypeOK, TaskTypes, PurgePending, PromoteIfFreed
  <2> QED BY <2>1, <2>2, NothingDrawn
<1>2. CASE PurgeIdle(h)
  <2>1. HomeKept(h)
    BY <1>2, ThreadsAssumption
      DEF HomeKept, HomeRight, ScreenRight, TypeOK, TaskTypes, PurgeIdle, PromoteIfFreed
  <2>2. Undrawn(h)
    BY <1>2, <1>s, <1>c, ThreadsAssumption
      DEF Undrawn, Clearing, Wiping, TypeOK, TaskTypes, PurgeIdle, PromoteIfFreed
  <2> QED BY <2>1, <2>2, NothingDrawn
<1>3. CASE CancelIdle(h)
  <2>1. HomeKept(h)
    BY <1>3, ThreadsAssumption
      DEF HomeKept, HomeRight, ScreenRight, TypeOK, TaskTypes, CancelIdle, FreeSlot
  <2>2. Undrawn(h)
    BY <1>3, <1>s, <1>c, ThreadsAssumption
      DEF Undrawn, Clearing, Wiping, TypeOK, TaskTypes, CancelIdle, FreeSlot
  <2> QED BY <2>1, <2>2, NothingDrawn
<1>4. CASE LeaveOptIn(h)
  <2>1. HomeKept(h)
    BY <1>4, ThreadsAssumption DEF HomeKept, HomeRight, ScreenRight, LeaveOptIn
  <2>2. Undrawn(h)
    BY <1>4, <1>s, <1>c, ThreadsAssumption DEF Undrawn, Clearing, Wiping, LeaveOptIn
  <2> QED BY <2>1, <2>2, NothingDrawn
<1>5. CASE LeaveOptOut(h)
  <2>1. HomeKept(h)
    BY <1>5, ThreadsAssumption DEF HomeKept, HomeRight, ScreenRight, LeaveOptOut
  <2>2. Undrawn(h)
    BY <1>5, <1>s, <1>c, ThreadsAssumption DEF Undrawn, Clearing, Wiping, LeaveOptOut
  <2> QED BY <2>1, <2>2, NothingDrawn
<1> QED BY <1>1, <1>2, <1>3, <1>4, <1>5 DEF Hook

\* What the device shows, after the event loop.
LEMMA EventHandlerDraws ==
  ASSUME OneTab, TypeOK, TasksRight, ScreenRight, LinkRight, EventHandler
  PROVE  HomeKept(Loop) /\ Drawn(Loop)
<1> Loop \in Threads BY DEF Threads
<1>s. slot # None => slotTab = Home BY DEF ScreenRight
<1>c. CarriesRight(Loop) BY DEF TasksRight
<1>1. CASE TakeKey
  <2>1. HomeKept(Loop)
    BY <1>1, ThreadsAssumption DEF HomeKept, HomeRight, ScreenRight, TypeOK, TaskTypes, TakeKey
  <2>2. Drawn(Loop) BY <1>1, HeadDraws
  <2> QED BY <2>1, <2>2
<1>2. CASE FocusClear
  <2>1. HomeKept(Loop)
    BY <1>2, ThreadsAssumption
      DEF HomeKept, HomeRight, ScreenRight, TypeOK, TaskTypes, FocusClear, FreeSlot
  <2>2. Undrawn(Loop)
    BY <1>2, <1>s, <1>c, ThreadsAssumption
      DEF Undrawn, Clearing, Wiping, TypeOK, TaskTypes, FocusClear, FreeSlot
  <2> QED BY <2>1, <2>2, NothingDrawn
<1>3. CASE Attend
  <2>1. HomeKept(Loop)
    BY <1>3, ThreadsAssumption DEF HomeKept, HomeRight, ScreenRight, Attend
  <2>2. Undrawn(Loop)
    BY <1>3, <1>s, <1>c, ThreadsAssumption DEF Undrawn, Clearing, Wiping, Attend
  <2> QED BY <2>1, <2>2, NothingDrawn
<1>4. CASE Decide
  <2>1. HomeKept(Loop)
    BY <1>4, ThreadsAssumption
      DEF HomeKept, HomeRight, ScreenRight, TypeOK, TaskTypes, Decide, Meets, FreeSlot
  <2>2. Undrawn(Loop)
    BY <1>4, <1>s, <1>c, ThreadsAssumption
      DEF Undrawn, Clearing, Wiping, TypeOK, TaskTypes, Decide, Meets, FreeSlot
  <2> QED BY <2>1, <2>2, NothingDrawn
<1>5. CASE Send
  <2>1. HomeKept(Loop)
    BY <1>5, ThreadsAssumption DEF HomeKept, HomeRight, ScreenRight, Send
  <2>2. Undrawn(Loop)
    BY <1>5, <1>s, <1>c, ThreadsAssumption DEF Undrawn, Clearing, Wiping, Send
  <2> QED BY <2>1, <2>2, NothingDrawn
<1>6. CASE TakeUp
  <2>1. HomeKept(Loop)
    BY <1>6, ThreadsAssumption DEF HomeKept, HomeRight, ScreenRight, TakeUp
  <2>2. Drawn(Loop)
    BY <1>6, <1>s, <1>c, ThreadsAssumption DEF Drawn, Stale, TypeOK, TaskTypes, TakeUp
  <2> QED BY <2>1, <2>2
<1>7. CASE Resync
  <2>1. HomeKept(Loop)
    BY <1>7, ThreadsAssumption DEF HomeKept, HomeRight, ScreenRight, Resync
  <2>2. Drawn(Loop)
    BY <1>7, <1>s, <1>c, ThreadsAssumption DEF Drawn, Stale, Resync, Resynced
  <2> QED BY <2>1, <2>2
<1>8. CASE TakeDown
  <2>1. HomeKept(Loop)
    BY <1>8, ThreadsAssumption DEF HomeKept, HomeRight, ScreenRight, TakeDown
  <2>2. Drawn(Loop) BY <1>8, HeadDraws
  <2> QED BY <2>1, <2>2
<1>9. CASE TakeState
  <2>1. HomeKept(Loop)
    BY <1>9, ThreadsAssumption DEF HomeKept, HomeRight, ScreenRight, TypeOK, TaskTypes, TakeState
  <2>2. Drawn(Loop) BY <1>9, HeadDraws
  <2> QED BY <2>1, <2>2
<1>10. CASE DisarmIn
  <2>1. HomeKept(Loop)
    BY <1>10, ThreadsAssumption DEF HomeKept, HomeRight, ScreenRight, DisarmIn
  <2>2. Undrawn(Loop)
    BY <1>10, <1>s, <1>c, ThreadsAssumption DEF Undrawn, Clearing, Wiping, DisarmIn
  <2> QED BY <2>1, <2>2, NothingDrawn
<1>11. CASE DisarmOut
  <2>1. HomeKept(Loop)
    BY <1>11, ThreadsAssumption DEF HomeKept, HomeRight, ScreenRight, DisarmOut
  <2>2. Undrawn(Loop)
    BY <1>11, <1>s, <1>c, ThreadsAssumption DEF Undrawn, Clearing, Wiping, DisarmOut
  <2> QED BY <2>1, <2>2, NothingDrawn
<1>12. CASE Reset
  <2>1. HomeKept(Loop)
    BY <1>12, ThreadsAssumption DEF HomeKept, HomeRight, Reset
  <2>2. Drawn(Loop)
    BY <1>12, <1>s, <1>c, ThreadsAssumption
      DEF Drawn, Stale, Coming, IsUp, Reset, LinkRight, Dropping
  <2> QED BY <2>1, <2>2
<1> QED BY <1>1, <1>2, <1>3, <1>4, <1>5, <1>6, <1>7, <1>8, <1>9, <1>10, <1>11, <1>12
  DEF EventHandler
-----------------------------------------------------------------------------
\* The link, of which only the event loop and the surroundings take note.

LEMMA LinkUntouched ==
  ASSUME LinkRight, UNCHANGED <<hidUp, inbox>>, Dropping' => Dropping,
         pc'[Loop] = "resync" => pc[Loop] = "resync"
  PROVE  LinkRight'
<1>1. Coming' = Coming BY DEF Coming, IsUp
<1>2. Followed' BY DEF LinkRight, Followed, IsUp, IsDown
<1> QED BY <1>1, <1>2 DEF LinkRight, Stale

\* An event is taken: those behind it stay in their order.
LEMMA LinkTaken ==
  ASSUME TypeOK, LinkRight, inbox # <<>>, inbox' = Tail(inbox), hidUp' = hidUp
  PROVE  /\ Followed'
         /\ Coming <=> Head(inbox).what = "up" \/ Coming'
         /\ Head(inbox).what = "down" => ~hidUp \/ Coming'
<1>1. inbox \in Seq(Events) BY DEF TypeOK, LoopTypes
<1>2. /\ Len(inbox) \in Nat \ {0} /\ Len(inbox') = Len(inbox) - 1
      /\ \A i \in 1 .. Len(inbox') : inbox'[i] = inbox[i + 1]
      /\ Head(inbox) = inbox[1]
  BY <1>1
<1>3. Coming <=> Head(inbox).what = "up" \/ Coming'
  <2>1. ASSUME NEW i \in 1 .. Len(inbox), IsUp(i) PROVE Head(inbox).what = "up" \/ Coming'
    <3>1. CASE i = 1 BY <1>2, <2>1, <3>1 DEF IsUp
    <3>2. CASE i # 1
      <4>1. i - 1 \in 1 .. Len(inbox') /\ inbox'[i - 1] = inbox[i] BY <1>2, <3>2
      <4> QED BY <2>1, <4>1 DEF Coming, IsUp
    <3> QED BY <3>1, <3>2
  <2>2. ASSUME NEW i \in 1 .. Len(inbox'), IsUp(i)' PROVE Coming
    <3>1. i + 1 \in 1 .. Len(inbox) /\ inbox'[i] = inbox[i + 1] BY <1>2
    <3> QED BY <2>2, <3>1 DEF Coming, IsUp
  <2>3. Head(inbox).what = "up" => Coming BY <1>2 DEF Coming, IsUp
  <2> QED BY <2>1, <2>2, <2>3 DEF Coming
<1>4. Followed'
  <2> SUFFICES ASSUME NEW i \in 1 .. Len(inbox'), IsDown(i)', hidUp
               PROVE  \E j \in i + 1 .. Len(inbox') : IsUp(j)'
    BY DEF Followed
  <2>1. i + 1 \in 1 .. Len(inbox) /\ IsDown(i + 1) BY <1>2 DEF IsDown
  <2>2. PICK j \in i + 2 .. Len(inbox) : IsUp(j) BY <2>1 DEF LinkRight, Followed
  <2>3. j - 1 \in i + 1 .. Len(inbox') /\ inbox'[j - 1] = inbox[j] BY <1>2, <2>1, <2>2
  <2> QED BY <2>2, <2>3 DEF IsUp
<1>5. ASSUME Head(inbox).what = "down", hidUp PROVE Coming'
  <2>1. 1 \in 1 .. Len(inbox) /\ IsDown(1) BY <1>2, <1>5 DEF IsDown
  <2>2. PICK j \in 2 .. Len(inbox) : IsUp(j) BY <1>5, <2>1 DEF LinkRight, Followed
  <2>3. j - 1 \in 1 .. Len(inbox') /\ inbox'[j - 1] = inbox[j] BY <1>2, <2>2
  <2> QED BY <2>2, <2>3 DEF Coming, IsUp
<1> QED BY <1>3, <1>4, <1>5

\* The tasks of hooks and wrappers leave the link alone, and so do the routines
\* and the marks of the event loop.
LEMMA HooksLeaveLink ==
  ASSUME NEW t, \/ Routine(t) \/ Mark(t) \/ Unmark(t)
                \/ Request(t) \/ Raise(t) \/ Hook(t) \/ NewJob(t)
  PROVE  UNCHANGED <<hidUp, inbox, key>>
<1>1. CASE Routine(t)
  BY <1>1
    DEF Routine, Wipe, Pop, PopNothing, Check, InstallNext, PeekSlot, TakeIdle, TakeNoIdle, Place,
        Requeue, Emit, Prune, Relock, Move
<1>2. CASE Mark(t) \/ Unmark(t) BY <1>2 DEF Mark, Unmark
<1>3. CASE Request(t)
  BY <1>3 DEF Request, Gate, Enrolled, Park, Timeout, Settle, Respond
<1>4. CASE Raise(t) BY <1>4 DEF Raise
<1>5. CASE Hook(t)
  BY <1>5 DEF Hook, PurgePending, PurgeIdle, CancelIdle, LeaveOptIn, LeaveOptOut
<1>6. CASE NewJob(t)
  BY <1>6 DEF NewJob, Submit, Progress, ToolStep, Cancel, Tick, FocusIn, FocusOut, Join, Exit
<1> QED BY <1>1, <1>2, <1>3, <1>4, <1>5, <1>6

\* So they keep what is known of it.
LEMMA HooksKeepLink ==
  ASSUME TypeOK, LinkRight, NEW t \in Threads, OthersSame(t),
         \/ Routine(t) \/ Mark(t) \/ Unmark(t)
         \/ t # Loop /\ (Request(t) \/ Raise(t) \/ Hook(t) \/ NewJob(t))
  PROVE  LinkRight'
<1>1. UNCHANGED <<hidUp, inbox, key>> BY HooksLeaveLink
<1>2. CASE t # Loop
  <2>1. pc'[Loop] = pc[Loop] BY <1>2 DEF OthersSame, Same, Threads
  <2> QED BY <1>1, <2>1, LinkUntouched DEF Dropping
<1>3. CASE t = Loop
  <2>1. pc'[Loop] \in RoutinePCs \cup Rets \cup {"purge", "send", "unmark"}
    <3>1. CASE Routine(Loop)
      BY <3>1
        DEF Routine, Wipe, Pop, PopNothing, Check, InstallNext, PeekSlot, TakeIdle, TakeNoIdle,
            Place, Requeue, Emit, Prune, Relock, Move, AfterWipe, AfterPrompts, AfterPlace,
            RoutinePCs, TypeOK, TaskTypes, Threads
    <3>2. CASE Mark(Loop) \/ Unmark(Loop)
      BY <3>2 DEF Mark, Unmark, TypeOK, TaskTypes, Threads, Rets
    <3> QED BY <1>3, <3>1, <3>2
  <2>2. pc'[Loop] \notin {"reset", "disarmIn", "disarmOut", "resync"}
    BY <2>1 DEF RoutinePCs, Rets
  <2> QED BY <1>1, <2>2, LinkUntouched DEF Dropping
<1> QED BY <1>2, <1>3

\* The event loop takes what the link reports.
LEMMA EventHandlerKeepsLink ==
  ASSUME TypeOK, LinkRight, EventHandler
  PROVE  LinkRight'
<1> Loop \in Threads BY DEF Threads
<1>1. CASE TakeKey
  <2>1. /\ inbox # <<>> /\ inbox' = Tail(inbox) /\ hidUp' = hidUp /\ Head(inbox).what # "up"
        /\ pc'[Loop] \notin {"reset", "disarmIn", "disarmOut", "resync"}
    BY <1>1 DEF TakeKey, Receive, KeyNames, TypeOK, TaskTypes
  <2> QED BY <2>1, LinkTaken DEF LinkRight, Stale, Dropping
<1>2. CASE TakeUp
  <2>1. /\ inbox # <<>> /\ inbox' = Tail(inbox) /\ hidUp' = hidUp /\ Head(inbox).what = "up"
        /\ pc'[Loop] = "resync"
    BY <1>2 DEF TakeUp, Receive, TypeOK, TaskTypes
  <2> QED BY <2>1, LinkTaken DEF LinkRight, Stale, Dropping
<1>3. CASE TakeDown
  <2>1. /\ inbox # <<>> /\ inbox' = Tail(inbox) /\ hidUp' = hidUp /\ Head(inbox).what = "down"
        /\ pc'[Loop] = "disarmIn"
    BY <1>3 DEF TakeDown, Receive, TypeOK, TaskTypes
  <2> QED BY <2>1, LinkTaken DEF LinkRight, Stale
<1>4. CASE TakeState
  <2>1. /\ inbox # <<>> /\ inbox' = Tail(inbox) /\ hidUp' = hidUp
        /\ Head(inbox).what \in {"on", "off"}
        /\ pc'[Loop] \notin {"reset", "disarmOut", "resync"}
        /\ pc'[Loop] = "disarmIn" => key' = Head(inbox)
    BY <1>4 DEF TakeState, Receive, TypeOK, TaskTypes
  <2> QED BY <2>1, LinkTaken DEF LinkRight, Stale, Dropping
<1>5. CASE FocusClear \/ Attend \/ Decide \/ Send \/ Resync \/ Reset
  <2>1. /\ UNCHANGED <<hidUp, inbox>>
        /\ pc'[Loop] \notin {"reset", "disarmIn", "disarmOut", "resync"}
    BY <1>5 DEF FocusClear, Attend, Decide, Meets, Send, Resync, Reset, TypeOK, TaskTypes
  <2> QED BY <2>1, LinkUntouched DEF Dropping
<1>6. CASE DisarmIn \/ DisarmOut
  <2>1. UNCHANGED <<hidUp, inbox>> /\ pc'[Loop] # "resync" /\ (Dropping' => Dropping)
    BY <1>6 DEF DisarmIn, DisarmOut, TypeOK, TaskTypes, Dropping
  <2> QED BY <2>1, LinkUntouched
<1> QED BY <1>1, <1>2, <1>3, <1>4, <1>5, <1>6 DEF EventHandler

\* An event that is not of the link is queued behind the others.
LEMMA LinkQueued ==
  ASSUME TypeOK, LinkRight, NEW e \in Events, e.what \notin {"up", "down"},
         inbox' = Append(inbox, e), hidUp' = hidUp, UNCHANGED <<pc, key>>
  PROVE  LinkRight' /\ (Stale => Stale')
<1>1. inbox \in Seq(Events) BY DEF TypeOK, LoopTypes
<1>2. /\ Len(inbox) \in Nat /\ Len(inbox') = Len(inbox) + 1
      /\ inbox'[Len(inbox) + 1] = e
      /\ \A i \in 1 .. Len(inbox) : inbox'[i] = inbox[i]
  BY <1>1
<1>3. \A i \in 1 .. Len(inbox') : i \in 1 .. Len(inbox) \/ i = Len(inbox) + 1 BY <1>2
<1>4. Coming <=> Coming'
  <2>1. Coming => Coming' BY <1>2 DEF Coming, IsUp
  <2>2. Coming' => Coming BY <1>2, <1>3 DEF Coming, IsUp
  <2> QED BY <2>1, <2>2
<1>5. Followed'
  <2> SUFFICES ASSUME NEW i \in 1 .. Len(inbox'), IsDown(i)', hidUp
               PROVE  \E j \in i + 1 .. Len(inbox') : IsUp(j)'
    BY DEF Followed
  <2>1. i \in 1 .. Len(inbox) /\ IsDown(i) BY <1>2, <1>3 DEF IsDown
  <2>2. PICK j \in i + 1 .. Len(inbox) : IsUp(j) BY <2>1 DEF LinkRight, Followed
  <2>3. j \in i + 1 .. Len(inbox') /\ inbox'[j] = inbox[j] BY <1>2, <2>1
  <2> QED BY <2>2, <2>3 DEF IsUp
<1> QED BY <1>4, <1>5 DEF LinkRight, Stale, Dropping

\* The device comes back: a resync follows whatever was lost.
LEMMA LinkPlugged ==
  ASSUME TypeOK, LinkRight, Plug
  PROVE  LinkRight' /\ Stale'
<1>1. /\ "plug" \in World /\ hidUp'
      /\ \E first \in {<<Event("up"), Report(switch)>>, <<Report(switch), Event("up")>>} :
           inbox' = inbox \o first
  BY DEF Plug
<1>2. Event("up") \in Events /\ Report(switch) \in Events /\ Report(switch).what # "down"
  BY EventType DEF Report, EventNames, Event
<1>3. inbox \in Seq(Events) BY DEF TypeOK, LoopTypes
<1>4. PICK a \in Events, b \in Events :
        /\ inbox' = inbox \o <<a, b>>
        /\ {a, b} = {Event("up"), Report(switch)}
  BY <1>1, <1>2
<1>5. /\ Len(inbox) \in Nat /\ Len(inbox') = Len(inbox) + 2
      /\ \A i \in 1 .. Len(inbox) : inbox'[i] = inbox[i]
      /\ inbox'[Len(inbox) + 1] = a /\ inbox'[Len(inbox) + 2] = b
  BY <1>3, <1>4
<1>6. /\ a.what # "down" /\ b.what # "down"
      /\ a.what = "up" \/ b.what = "up"
  <2>1. Event("up").what = "up" /\ Event("up").what # "down" BY DEF Event
  <2>2. /\ a = Event("up") \/ a = Report(switch)
        /\ b = Event("up") \/ b = Report(switch)
        /\ a = Event("up") \/ b = Event("up")
    BY <1>4
  <2> QED BY <1>2, <2>1, <2>2
<1>7. PICK u \in {Len(inbox) + 1, Len(inbox) + 2} : IsUp(u)' BY <1>5, <1>6 DEF IsUp
<1>8. Coming' BY <1>5, <1>7 DEF Coming
<1>9. Followed'
  <2> SUFFICES ASSUME NEW i \in 1 .. Len(inbox'), IsDown(i)'
               PROVE  \E j \in i + 1 .. Len(inbox') : IsUp(j)'
    BY DEF Followed
  <2>1. i # Len(inbox) + 1 /\ i # Len(inbox) + 2 BY <1>5, <1>6 DEF IsDown
  <2>2. u \in i + 1 .. Len(inbox') BY <1>5, <2>1
  <2> QED BY <1>7, <2>2
<1> QED BY <1>1, <1>8, <1>9 DEF LinkRight, Stale

\* Nothing the surroundings do shows a phantom that no resync will take away.
LEMMA SurroundingsKeepScreen ==
  ASSUME TypeOK, ScreenRight, LinkRight, Surroundings, "abandon" \notin World
  PROVE  ScreenRight' /\ LinkRight'
<1> Loop \in Threads BY DEF Threads
<1>1. ASSUME UNCHANGED <<pc, ret, hand, tabOf, hookVars, snapVars, slot, slotTab, live>>,
             screen' \subseteq screen, Stale => Stale'
      PROVE  ScreenRight'
  <2>1. OthersSame(Loop) BY <1>1 DEF OthersSame, Same
  <2>2. HomeKept(Loop) BY <1>1 DEF HomeKept, HomeRight, ScreenRight
  <2>3. Drawn(Loop) BY <1>1 DEF Drawn, Clearing, Wiping
  <2> QED BY <2>1, <2>2, <2>3, DrawnRight
<1>2. ASSUME NEW k \in Keys, Press(k) PROVE ScreenRight' /\ LinkRight'
  <2>1. Event(k) \in Events /\ Event(k).what \notin {"up", "down"}
    BY WorldAssumption, EventType DEF EventNames, KeyNames, Event
  <2>2. LinkRight' /\ (Stale => Stale')
    BY <1>2, <2>1, LinkQueued DEF Press, daemonVars
  <2> QED BY <1>1, <1>2, <2>2 DEF Press, daemonVars
<1>3. CASE Unplug
  <2>1. LinkRight' /\ Stale' BY <1>3 DEF Unplug, LinkRight, Stale, Followed
  <2> QED BY <1>1, <1>3, <2>1 DEF Unplug, daemonVars
<1>4. CASE Plug
  <2>1. LinkRight' /\ Stale' BY <1>4, LinkPlugged
  <2> QED BY <1>1, <1>4, <2>1 DEF Plug, daemonVars
<1>5. CASE Flip
  <2>1. Report(~switch) \in Events /\ Report(~switch).what \notin {"up", "down"}
    BY EventType DEF Report, EventNames, Event
  <2>2. LinkRight' /\ (Stale => Stale')
    <3>1. CASE hidUp BY <1>5, <2>1, <3>1, LinkQueued DEF Flip, daemonVars
    <3>2. CASE ~hidUp
      <4>1. UNCHANGED <<hidUp, inbox, pc, key>> BY <1>5, <3>2 DEF Flip, daemonVars
      <4>2. LinkRight' BY <4>1, LinkUntouched DEF Dropping
      <4> QED BY <3>2, <4>1, <4>2 DEF Stale
    <3> QED BY <3>1, <3>2
  <2> QED BY <1>1, <1>5, <2>2 DEF Flip, daemonVars
<1>6. ASSUME NEW r \in Requests, Hangup(r) PROVE ScreenRight' /\ LinkRight'
  <2> r \in Threads /\ r # Loop BY ThreadsAssumption DEF Threads
  <2>1. OthersSame(r) BY <1>6 DEF OthersSame, Same, Hangup
  <2>2. HomeKept(r) BY <1>6 DEF HomeKept, HomeRight, ScreenRight, Hangup
  <2>3. Undrawn(r) BY <1>6 DEF Undrawn, Clearing, Wiping, Hangup
  <2>4. LinkRight'
    <3>1. pc'[Loop] = pc[Loop] /\ UNCHANGED <<hidUp, inbox, key>> BY <1>6, <2>1
      DEF OthersSame, Same, Hangup
    <3> QED BY <3>1, LinkUntouched DEF Dropping
  <2> QED BY <2>1, <2>2, <2>3, <2>4, NothingDrawn, DrawnRight
<1> QED BY <1>2, <1>3, <1>4, <1>5, <1>6 DEF Surroundings, Abandon

\* Every step.
LEMMA NextKeepsScreen ==
  ASSUME "abandon" \notin World, OneTab
  PROVE  Typed /\ ScreenRight /\ LinkRight /\ [Next]_vars => ScreenRight' /\ LinkRight'
<1> SUFFICES ASSUME TypeOK, TasksRight, ScreenRight, LinkRight, [Next]_vars
             PROVE  ScreenRight' /\ LinkRight'
  BY DEF Typed
<1>1. ASSUME NEW r \in Requests, RequestStep(r) PROVE ScreenRight' /\ LinkRight'
  <2>1. r \in Threads /\ r # Loop /\ r \in Requests \cup {Loop} BY ThreadsAssumption DEF Threads
  <2>2. OthersSame(r) BY <1>1, <2>1, RoutineOthers, RequestOthers, MarksOthers DEF RequestStep
  <2>3. HomeKept(r) /\ Drawn(r) BY <1>1, <2>1, RoutineDraws, RequestDraws, MarksDraws
    DEF RequestStep
  <2>4. LinkRight' BY <1>1, <2>1, <2>2, HooksKeepLink DEF RequestStep
  <2> QED BY <2>1, <2>2, <2>3, <2>4, DrawnRight
<1>2. ASSUME NEW n \in Notices, NoticeStep(n) PROVE ScreenRight' /\ LinkRight'
  <2>1. n \in Threads /\ n # Loop BY ThreadsAssumption DEF Threads
  <2>2. OthersSame(n) BY <1>2, <2>1, RoutineOthers, RaiseOthers DEF NoticeStep
  <2>3. HomeKept(n) /\ Drawn(n) BY <1>2, <2>1, RoutineDraws, RaiseDraws DEF NoticeStep
  <2>4. LinkRight' BY <1>2, <2>1, <2>2, HooksKeepLink DEF NoticeStep
  <2> QED BY <2>1, <2>2, <2>3, <2>4, DrawnRight
<1>3. ASSUME NEW h \in Hooks, HookStep(h) \/ NewJob(h) PROVE ScreenRight' /\ LinkRight'
  <2>1. h \in Threads /\ h # Loop BY ThreadsAssumption DEF Threads
  <2>2. OthersSame(h) BY <1>3, <2>1, RoutineOthers, HookOthers, NewJobOthers DEF HookStep
  <2>3. HomeKept(h) /\ Drawn(h) BY <1>3, <2>1, RoutineDraws, HookDraws, NewJobDraws
    DEF HookStep
  <2>4. LinkRight' BY <1>3, <2>1, <2>2, HooksKeepLink DEF HookStep
  <2> QED BY <2>1, <2>2, <2>3, <2>4, DrawnRight
<1>4. CASE LoopStep
  <2>1. Loop \in Threads /\ Loop \in Requests \cup {Loop} BY DEF Threads
  <2>2. OthersSame(Loop) BY <1>4, <2>1, RoutineOthers, EventHandlerOthers, MarksOthers
    DEF LoopStep
  <2>3. HomeKept(Loop) /\ Drawn(Loop)
    BY <1>4, <2>1, RoutineDraws, EventHandlerDraws, MarksDraws DEF LoopStep
  <2>4. LinkRight' BY <1>4, <2>1, <2>2, HooksKeepLink, EventHandlerKeepsLink DEF LoopStep
  <2> QED BY <2>1, <2>2, <2>3, <2>4, DrawnRight
<1>5. CASE Surroundings BY <1>5, SurroundingsKeepScreen
<1>6. CASE UNCHANGED vars
  <2>1. UNCHANGED <<hidUp, inbox, key, pc>> BY <1>6 DEF vars
  <2>2. LinkRight' BY <2>1, LinkUntouched DEF Dropping
  <2>3. OthersSame(Loop) /\ HomeKept(Loop) /\ Undrawn(Loop)
    BY <1>6
      DEF vars, OthersSame, Same, HomeKept, HomeRight, ScreenRight, Undrawn, Clearing, Wiping,
          Threads
  <2>4. Loop \in Threads BY DEF Threads
  <2> QED BY <2>2, <2>3, <2>4, NothingDrawn, DrawnRight
<1> QED BY <1>1, <1>2, <1>3, <1>4, <1>5, <1>6 DEF Next

\* In every behaviour, whatever the device shows is accounted for.
LEMMA AlwaysScreenRight ==
  ASSUME "abandon" \notin World, OneTab
  PROVE  Spec => [](ScreenRight /\ LinkRight)
<1>1. Init => ScreenRight /\ LinkRight
  <2> SUFFICES ASSUME Init PROVE ScreenRight /\ LinkRight OBVIOUS
  <2>1. \A t \in Threads : pc[t] \in {"ready", "idle", "start"} BY DEF Init
  <2>2. Loop \in Threads BY DEF Threads
  <2>3. ScreenRight BY <2>1 DEF Init, ScreenRight, HomeRight
  <2>4. LinkRight BY <2>1, <2>2 DEF Init, LinkRight, Followed, Dropping, Stale, Coming
  <2> QED BY <2>3, <2>4
<1> QED BY <1>1, AlwaysTyped, NextKeepsScreen, PTL DEF Spec

\* While no call is dropped half-way and the device stays connected, the device
\* shows the live alert, or one that the task which freed the slot has yet to
\* clear (try_install_next_pending and clear_alert_if, alerts.rs): never one prompt
\* while the daemon would apply a key to another.
THEOREM DeviceShowsTheLiveAlert ==
  ASSUME "abandon" \notin World, "plug" \notin World, OneTab
  PROVE  Spec => []ScreenIsHonest
<1>1. ScreenRight /\ LinkRight => ScreenIsHonest BY DEF ScreenRight, LinkRight, ScreenIsHonest
<1> QED BY <1>1, AlwaysScreenRight, PTL

\* However often the device is unplugged and plugged in again, a daemon at rest
\* leaves no phantom on it (resync_device and reset_for_disconnect, alerts.rs).
THEOREM NoPhantomsAtRest ==
  ASSUME "abandon" \notin World, OneTab
  PROVE  Spec => []NoPhantomWhenQuiet
<1>1. TypeOK /\ ScreenRight /\ LinkRight => NoPhantomWhenQuiet
  <2> SUFFICES ASSUME TypeOK, ScreenRight, Quiet, hidUp, inbox = <<>>, NEW p \in screen
               PROVE  p = <<slotTab, slot>>
    BY DEF NoPhantomWhenQuiet
  <2>1. \A t \in Threads : pc[t] \in {"start", "idle", "ready", "done", "parked"}
    BY DEF Quiet, AtRest
  <2>2. ~Stale BY <2>1 DEF Stale, Coming, Threads
  <2>3. \A t \in Threads : ~Wiping(t, p[1]) BY <2>1 DEF Wiping
  <2> QED BY <2>2, <2>3 DEF ScreenRight
<1> QED BY <1>1, AlwaysScreenRight, TypeCorrect, PTL
=============================================================================
