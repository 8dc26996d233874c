--------------------------- MODULE PromptsPromise ---------------------------
(***************************************************************************)
(* The daemon implements PromptDesk, for any requests, notices and hooks,  *)
(* and whatever its surroundings do.                                       *)
(*                                                                         *)
(* First, the sender of a parked prompt is in one place: SendersRight adds *)
(* to OneHolder that a sender not yet handed out is nowhere.  Then the     *)
(* replies: RepliesRight says what a hook that has left its park knows.    *)
(* With both, each step of the daemon is one step of the desk or none:     *)
(* lemmas for the steps of the desk, cited from one per kind of task.      *)
(***************************************************************************)
EXTENDS PromptsTypes

USE DEF queueVars, requestVars, wrapperVars, enrollVars, statusVars, deviceVars, loopVars,
        hookVars, snapVars, Goto, Take, Aim

\* A hook that has not parked yet.
Early == {"start", "gate", "park"}

\* A request whose sender was not handed out yet is in none of the places.
Unasked(r) ==
  /\ answer[r] = "unsent" => ~Kept(r)
  /\ pc[r] \in Early => answer[r] = "unsent"

SendersRight == OneHolder /\ \A r \in Requests : Unasked(r)

\* Where a step of t gets at the sender of r: the slot, the queue, its own hands.
Reach(t, r) == slot = r \/ r \in pendingQ.in \/ Carries(t, r)

\* A step of t moves the sender of r from one of these places to another, lets it
\* go once nobody waits for it, or puts it where it was not before.
Moved(t, r) ==
  /\ Reach(t, r)' => Reach(t, r) \/ (answer[r] = "unsent" /\ answer'[r] # "unsent")
  /\ answer'[r] = "open" => Reach(t, r)' \/ (answer[r] = "open" /\ ~Reach(t, r))
  /\ answer'[r] = "unsent" => answer[r] = "unsent"
  /\ answer[r] = "unsent" => answer'[r] = "unsent" \/ (t = r /\ pc'[r] \notin Early)
  /\ t = r /\ pc'[r] \in Early => pc[r] \in Early
  /\ ~(slot' = r /\ r \in pendingQ'.in)
  /\ Carries(t, r)' => slot' # r /\ r \notin pendingQ'.in
Handled(t) == \A r \in Requests : Moved(t, r)

\* Moving one sender at a time is enough, as other tasks keep theirs.
LEMMA SendersKept ==
  ASSUME SendersRight, NEW t \in Threads, OthersSame(t), Handled(t)
  PROVE  SendersRight'
<1>0. Requests \subseteq Threads BY DEF Threads
<1>1. ASSUME NEW r \in Requests
      PROVE  \A u \in Threads \ {t} : Carries(u, r)' <=> Carries(u, r)
  BY DEF OthersSame, Same, Carries
<1>2. OneHolder'
  <2> SUFFICES ASSUME NEW r \in Requests
      PROVE /\ answer'[r] = "open" => Kept(r)'
            /\ ~(slot' = r /\ r \in pendingQ'.in)
            /\ \A u \in Threads : Carries(u, r)' =>
                 /\ slot' # r /\ r \notin pendingQ'.in
                 /\ \A v \in Threads : Carries(v, r)' => v = u
    BY DEF OneHolder
  <2> USE DEF SendersRight
  <2>1. Moved(t, r) BY DEF Handled
  <2>2. answer'[r] = "open" => Kept(r)'
    BY <1>1, <2>1 DEF Moved, Reach, OneHolder, Kept
  <2>3. ~(slot' = r /\ r \in pendingQ'.in) BY <2>1 DEF Moved
  <2>4. ASSUME NEW u \in Threads \ {t}, Carries(u, r) PROVE ~Reach(t, r)'
    <3>1. ~Reach(t, r) BY <2>4 DEF OneHolder, Reach
    <3>2. answer[r] # "unsent" BY <2>4 DEF Unasked, Kept
    <3> QED BY <2>1, <3>1, <3>2 DEF Moved
  <2>5. ASSUME NEW u \in Threads, NEW v \in Threads, Carries(u, r)', Carries(v, r)'
        PROVE u = v
    <3>1. CASE u = t /\ v # t BY <1>1, <2>4, <2>5, <3>1 DEF Reach
    <3>2. CASE v = t /\ u # t BY <1>1, <2>4, <2>5, <3>2 DEF Reach
    <3>3. CASE u # t /\ v # t BY <1>1, <2>5, <3>3 DEF OneHolder
    <3> QED BY <3>1, <3>2, <3>3
  <2>6. ASSUME NEW u \in Threads, Carries(u, r)' PROVE slot' # r /\ r \notin pendingQ'.in
    <3>1. CASE u = t BY <2>1, <2>6, <3>1 DEF Moved
    <3>2. CASE u # t BY <1>1, <2>4, <2>6, <3>2 DEF Reach
    <3> QED BY <3>1, <3>2
  <2> QED BY <2>2, <2>3, <2>5, <2>6
<1>3. ASSUME NEW r \in Requests PROVE Unasked(r)'
  <2>1. Moved(t, r) /\ Unasked(r) BY DEF Handled, SendersRight
  <2>2. r # t => pc'[r] = pc[r] BY <1>0 DEF OthersSame, Same
  <2>3. answer'[r] = "unsent" => ~Kept(r)'
    BY <1>1, <2>1 DEF Moved, Reach, Unasked, Kept
  <2>4. pc'[r] \in Early => answer'[r] = "unsent"
    BY <2>1, <2>2 DEF Moved, Unasked
  <2> QED BY <2>3, <2>4 DEF Unasked
<1> QED BY <1>2, <1>3 DEF SendersRight

\* Senders stay in one place through a new job.
LEMMA NewJobKeepsSenders ==
  ASSUME TypeOK, TasksRight, SendersRight, NEW h \in Hooks, NewJob(h)
  PROVE  Handled(h)
<1> h \in Threads /\ h # Loop BY ThreadsAssumption DEF Threads
<1>0. PICK s \in Sessions :
  \/ Submit(h, s) \/ Progress(h, s) \/ (\E tool \in Tools : ToolStep(h, s, tool)) \/ Tick(h)
  \/ FocusIn(h, s) \/ FocusOut(s) \/ Join(h, s) \/ Exit(h, s)
  BY DEF NewJob
<1>1. CASE Submit(h, s)
  BY <1>1, ThreadsAssumption
    DEF Handled, Reach, Moved, Carries, SendersRight, OneHolder, Woken, Alerts, TypeOK, TaskTypes,
        Submit, Cancel, FreeSlot
<1>2. CASE Progress(h, s)
  BY <1>2, ThreadsAssumption
    DEF Handled, Reach, Moved, Carries, SendersRight, OneHolder, Woken, Alerts, TypeOK, TaskTypes,
        Progress, Cancel, FreeSlot
<1>3. ASSUME NEW tool \in Tools, ToolStep(h, s, tool) PROVE Handled(h)
  BY <1>3, ThreadsAssumption
    DEF Handled, Reach, Moved, Carries, SendersRight, OneHolder, Woken, Alerts, TypeOK, TaskTypes,
        ToolStep, Cancel, FreeSlot
<1>4. CASE Tick(h)
  BY <1>4, ThreadsAssumption DEF Handled, Reach, Moved, Carries, SendersRight, OneHolder, Tick
<1>5. CASE FocusIn(h, s)
  BY <1>5, ThreadsAssumption DEF Handled, Reach, Moved, Carries, SendersRight, OneHolder, FocusIn
<1>6. CASE FocusOut(s)
  BY <1>6, ThreadsAssumption DEF Handled, Reach, Moved, Carries, SendersRight, OneHolder, FocusOut
<1>7. CASE Join(h, s)
  BY <1>7, ThreadsAssumption DEF Handled, Reach, Moved, Carries, SendersRight, OneHolder, Join
<1>8. CASE Exit(h, s)
  BY <1>8, ThreadsAssumption DEF Handled, Reach, Moved, Carries, SendersRight, OneHolder, Exit
<1> QED BY <1>0, <1>1, <1>2, <1>3, <1>4, <1>5, <1>6, <1>7, <1>8

\* Senders stay in one place through a notice that is raised.
LEMMA RaiseKeepsSenders ==
  ASSUME TypeOK, TasksRight, SendersRight, NEW n \in Notices, Raise(n)
  PROVE  Handled(n)
<1> n \in Threads /\ n # Loop BY ThreadsAssumption DEF Threads
<1>1. CASE Raise(n)
  BY <1>1, ThreadsAssumption
    DEF Handled, Reach, Moved, Carries, SendersRight, OneHolder, TypeOK, TaskTypes, Raise
<1> QED BY <1>1

\* Senders stay in one place through an enrollment mark.
LEMMA MarksKeepSenders ==
  ASSUME TypeOK, TasksRight, SendersRight, NEW t \in Requests \cup {Loop}, Mark(t) \/ Unmark(t)
  PROVE  Handled(t)
<1> t \in Threads BY DEF Threads
<1>1. CASE Mark(t)
  BY <1>1, ThreadsAssumption
    DEF Handled, Reach, Moved, Carries, SendersRight, OneHolder, Early, Mark
<1>2. CASE Unmark(t)
  BY <1>2, ThreadsAssumption
    DEF TasksRight, LoopRight, Handled, Reach, Moved, Carries, SendersRight, OneHolder, Early,
        Alerts, Unmark
<1> QED BY <1>1, <1>2

\* Senders stay in one place through the routines of AlertSlot.
LEMMA RoutineKeepsSenders ==
  ASSUME TypeOK, TasksRight, SendersRight, NEW t \in Threads, Routine(t)
  PROVE  Handled(t)
<1>1. CASE Wipe(t)
  BY <1>1, ThreadsAssumption
    DEF Handled, Reach, Moved, Carries, SendersRight, OneHolder, Early, Wipe, AfterWipe
<1>2. CASE Pop(t)
  BY <1>2, ThreadsAssumption
    DEF Handled, Reach, Moved, Carries, SendersRight, OneHolder, Early, TypeOK, TaskTypes, Pop,
        Without
<1>3. CASE PopNothing(t)
  BY <1>3, ThreadsAssumption
    DEF Handled, Reach, Moved, Carries, Early, TypeOK, TaskTypes, PopNothing, AfterPrompts, Rets
<1>4. CASE Check(t)
  BY <1>4, ThreadsAssumption
    DEF Handled, Reach, Moved, Carries, SendersRight, OneHolder, Woken, Early, TypeOK, TaskTypes,
        Check
<1>5. CASE InstallNext(t)
  BY <1>5, ThreadsAssumption
    DEF Alerts, Handled, Reach, Moved, Carries, SendersRight, OneHolder, Woken, Early, TypeOK,
        TaskTypes, InstallNext, Install, Rets, PushFront
<1>6. CASE PeekSlot(t)
  BY <1>6, ThreadsAssumption
    DEF Handled, Reach, Moved, Carries, SendersRight, OneHolder, Early, TypeOK, TaskTypes,
        PeekSlot, Rets
<1>7. CASE TakeIdle(t)
  BY <1>7, ThreadsAssumption
    DEF Handled, Reach, Moved, Carries, SendersRight, OneHolder, Early, TypeOK, TaskTypes,
        TakeIdle
<1>8. CASE TakeNoIdle(t)
  BY <1>8, ThreadsAssumption
    DEF Handled, Reach, Moved, Carries, SendersRight, OneHolder, Early, TypeOK, TaskTypes,
        TakeNoIdle, Rets
<1>9. CASE Place(t)
  BY <1>9, ThreadsAssumption
    DEF TasksRight, CarriesRight, Alerts, Handled, Reach, Moved, Carries, SendersRight, OneHolder,
        Early, TypeOK, TaskTypes, Place, Install, AfterPlace
<1>10. CASE Requeue(t)
  BY <1>10, ThreadsAssumption
    DEF Handled, Reach, Moved, Carries, SendersRight, OneHolder, Early, Requeue, AfterPlace
<1>11. CASE Emit(t)
  BY <1>11, ThreadsAssumption
    DEF Handled, Reach, Moved, Carries, SendersRight, OneHolder, Early, Emit
<1>12. CASE Prune(t)
  BY <1>12, ThreadsAssumption
    DEF Without, Handled, Reach, Moved, Carries, SendersRight, OneHolder, Woken, Early, TypeOK,
        TaskTypes, Prune
<1>13. CASE Relock(t)
  BY <1>13, ThreadsAssumption
    DEF Handled, Reach, Moved, Carries, SendersRight, OneHolder, Woken, Early, Alerts, TypeOK,
        TaskTypes, Relock, FreeSlot, Rets
<1>14. CASE Move(t)
  BY <1>14, ThreadsAssumption
    DEF Handled, Reach, Moved, Carries, SendersRight, OneHolder, Early, TypeOK, TaskTypes, Move,
        Rets
<1> QED BY <1>1, <1>2, <1>3, <1>4, <1>5, <1>6, <1>7, <1>8, <1>9, <1>10, <1>11, <1>12, <1>13, <1>14
  DEF Routine

\* Senders stay in one place through the permission hook.
LEMMA RequestKeepsSenders ==
  ASSUME TypeOK, TasksRight, SendersRight, NEW r \in Requests, Request(r)
  PROVE  Handled(r)
<1> r \in Threads /\ r # Loop BY ThreadsAssumption DEF Threads
<1>1. CASE Gate(r)
  BY <1>1, ThreadsAssumption
    DEF Handled, Reach, Moved, Carries, SendersRight, OneHolder, Early, TypeOK, TaskTypes, Gate
<1>2. CASE Enrolled(r)
  BY <1>2, ThreadsAssumption
    DEF Handled, Reach, Moved, Carries, SendersRight, OneHolder, Early, TypeOK, TaskTypes,
        Enrolled
<1>3. CASE Park(r)
  BY <1>3, ThreadsAssumption
    DEF Alerts, Handled, Reach, Moved, Carries, SendersRight, OneHolder, Unasked, Kept, Early,
        TypeOK, TaskTypes, Park, Install, RequestTypes, PushBack
<1>4. CASE Timeout(r)
  BY <1>4, ThreadsAssumption DEF Handled, Reach, Moved, Carries, SendersRight, OneHolder, Timeout
<1>5. CASE Settle(r)
  BY <1>5, ThreadsAssumption
    DEF Handled, Reach, Moved, Carries, SendersRight, OneHolder, Woken, Early, Alerts, TypeOK,
        TaskTypes, Settle, FreeSlot
<1>6. CASE Respond(r)
  BY <1>6, ThreadsAssumption
    DEF Handled, Reach, Moved, Carries, SendersRight, OneHolder, Early, Respond
<1> QED BY <1>1, <1>2, <1>3, <1>4, <1>5, <1>6 DEF Request

\* Senders stay in one place through a job under way.
LEMMA HookKeepsSenders ==
  ASSUME TypeOK, TasksRight, SendersRight, NEW h \in Hooks, Hook(h)
  PROVE  Handled(h)
<1> h \in Threads /\ h # Loop BY ThreadsAssumption DEF Threads
<1>1. CASE PurgePending(h)
  BY <1>1, ThreadsAssumption
    DEF Without, Handled, Reach, Moved, Carries, SendersRight, OneHolder, Woken, TypeOK,
        TaskTypes, PurgePending, PromoteIfFreed
<1>2. CASE PurgeIdle(h)
  BY <1>2, ThreadsAssumption
    DEF Handled, Reach, Moved, Carries, SendersRight, OneHolder, TypeOK, TaskTypes, PurgeIdle,
        PromoteIfFreed
<1>3. CASE CancelIdle(h)
  BY <1>3, ThreadsAssumption
    DEF Handled, Reach, Moved, Carries, SendersRight, OneHolder, Woken, Alerts, TypeOK, TaskTypes,
        CancelIdle, FreeSlot
<1>4. CASE LeaveOptIn(h)
  BY <1>4, ThreadsAssumption
    DEF Handled, Reach, Moved, Carries, SendersRight, OneHolder, LeaveOptIn
<1>5. CASE LeaveOptOut(h)
  BY <1>5, ThreadsAssumption
    DEF Handled, Reach, Moved, Carries, SendersRight, OneHolder, LeaveOptOut
<1> QED BY <1>1, <1>2, <1>3, <1>4, <1>5 DEF Hook

\* Senders stay in one place through the event loop.
LEMMA EventHandlerKeepsSenders ==
  ASSUME TypeOK, TasksRight, SendersRight, EventHandler
  PROVE  Handled(Loop)
<1> Loop \in Threads BY DEF Threads
<1>1. CASE TakeKey
  BY <1>1, ThreadsAssumption
    DEF Handled, Reach, Moved, Carries, SendersRight, OneHolder, TypeOK, TaskTypes, TakeKey,
        Receive
<1>2. CASE FocusClear
  BY <1>2, ThreadsAssumption
    DEF Handled, Reach, Moved, Carries, SendersRight, OneHolder, Woken, Alerts, TypeOK, TaskTypes,
        FocusClear, FreeSlot
<1>3. CASE Attend
  BY <1>3, ThreadsAssumption DEF Handled, Reach, Moved, Carries, SendersRight, OneHolder, Attend
<1>4. CASE Decide
  BY <1>4, ThreadsAssumption
    DEF Alerts, Handled, Reach, Moved, Carries, SendersRight, OneHolder, Woken, TypeOK, TaskTypes,
        Decide, Meets, FreeSlot
<1>5. CASE Send
  BY <1>5, ThreadsAssumption
    DEF Handled, Reach, Moved, Carries, SendersRight, OneHolder, Woken, TypeOK, TaskTypes, Send
<1>6. CASE TakeUp
  BY <1>6, ThreadsAssumption
    DEF Handled, Reach, Moved, Carries, SendersRight, OneHolder, TakeUp, Receive
<1>7. CASE Resync
  BY <1>7, ThreadsAssumption DEF Handled, Reach, Moved, Carries, SendersRight, OneHolder, Resync
<1>8. CASE TakeDown
  BY <1>8, ThreadsAssumption
    DEF Handled, Reach, Moved, Carries, SendersRight, OneHolder, TakeDown, Receive
<1>9. CASE TakeState
  BY <1>9, ThreadsAssumption
    DEF TasksRight, CarriesRight, HandPCs, Marking, Handled, Reach, Moved, Carries, SendersRight,
        OneHolder, Alerts, TakeState, Receive
<1>10. CASE DisarmIn
  BY <1>10, ThreadsAssumption
    DEF Handled, Reach, Moved, Carries, SendersRight, OneHolder, DisarmIn
<1>11. CASE DisarmOut
  BY <1>11, ThreadsAssumption
    DEF Handled, Reach, Moved, Carries, SendersRight, OneHolder, DisarmOut
<1>12. CASE Reset
  BY <1>12, ThreadsAssumption
    DEF EmptyDeque, Handled, Reach, Moved, Carries, Woken, Alerts, Reset, QueueAfterReset
<1> QED BY <1>1, <1>2, <1>3, <1>4, <1>5, <1>6, <1>7, <1>8, <1>9, <1>10, <1>11, <1>12
  DEF EventHandler

-----------------------------------------------------------------------------
\* The induction.

\* Senders stay in one place whatever the surroundings do: a task that is dropped
\* drops the sender it has in its hands.
LEMMA SurroundingsKeepSenders ==
  ASSUME TypeOK, TasksRight, SendersRight, Surroundings
  PROVE  SendersRight'
<1> USE DEF TypeOK, TaskTypes
<1>1. ASSUME NEW r \in Requests, Hangup(r) PROVE SendersRight'
  <2>1. r \in Threads /\ r # Loop BY ThreadsAssumption DEF Threads
  <2>2. OthersSame(r) BY <1>1 DEF OthersSame, Same, Hangup
  <2>3. Handled(r)
    BY <1>1, <2>1 DEF Handled, Reach, Moved, Carries, SendersRight, OneHolder, Early, Hangup
  <2> QED BY <2>1, <2>2, <2>3, SendersKept
<1>2. ASSUME NEW t \in Requests \cup Notices, Abandon(t) PROVE SendersRight'
  <2>1. t \in Threads /\ t # Loop BY ThreadsAssumption DEF Threads
  <2>2. OthersSame(t) BY <1>2 DEF OthersSame, Same, Abandon
  <2>3. Handled(t)
    BY <1>2, <2>1, ThreadsAssumption
      DEF Handled, Reach, Moved, Carries, SendersRight, OneHolder, Early, Abandon, Woken
  <2> QED BY <2>1, <2>2, <2>3, SendersKept
<1>3. CASE (\E k \in Keys : Press(k)) \/ Unplug \/ Plug \/ Flip
  BY <1>3
    DEF Press, Unplug, Plug, Flip, daemonVars, SendersRight, OneHolder, Unasked, Kept, Carries
<1> QED BY <1>1, <1>2, <1>3 DEF Surroundings

\* Nobody has asked yet.
LEMMA InitSenders == Init => SendersRight
BY ThreadsAssumption DEF Init, SendersRight, OneHolder, Unasked, Kept, Carries, EmptyDeque, Alerts

\* Every step.
LEMMA NextKeepsSenders == Typed /\ SendersRight /\ [Next]_vars => SendersRight'
<1> SUFFICES ASSUME TypeOK, TasksRight, SendersRight, [Next]_vars PROVE SendersRight'
  BY DEF Typed
<1>1. ASSUME NEW r \in Requests, RequestStep(r) PROVE SendersRight'
  <2>1. r \in Threads /\ r \in Requests \cup {Loop} BY DEF Threads
  <2>2. OthersSame(r) BY <1>1, <2>1, RoutineOthers, RequestOthers, MarksOthers DEF RequestStep
  <2>3. Handled(r) BY <1>1, <2>1, RoutineKeepsSenders, RequestKeepsSenders, MarksKeepSenders
    DEF RequestStep
  <2> QED BY <2>1, <2>2, <2>3, SendersKept
<1>2. ASSUME NEW n \in Notices, NoticeStep(n) PROVE SendersRight'
  <2>1. n \in Threads BY DEF Threads
  <2>2. OthersSame(n) BY <1>2, <2>1, RoutineOthers, RaiseOthers DEF NoticeStep
  <2>3. Handled(n) BY <1>2, <2>1, RoutineKeepsSenders, RaiseKeepsSenders DEF NoticeStep
  <2> QED BY <2>1, <2>2, <2>3, SendersKept
<1>3. ASSUME NEW h \in Hooks, HookStep(h) \/ NewJob(h) PROVE SendersRight'
  <2>1. h \in Threads BY DEF Threads
  <2>2. OthersSame(h) BY <1>3, <2>1, RoutineOthers, HookOthers, NewJobOthers DEF HookStep
  <2>3. Handled(h) BY <1>3, <2>1, RoutineKeepsSenders, HookKeepsSenders, NewJobKeepsSenders
    DEF HookStep
  <2> QED BY <2>1, <2>2, <2>3, SendersKept
<1>4. CASE LoopStep
  <2>1. Loop \in Threads /\ Loop \in Requests \cup {Loop} BY DEF Threads
  <2>2. OthersSame(Loop) BY <1>4, <2>1, RoutineOthers, EventHandlerOthers, MarksOthers
    DEF LoopStep
  <2>3. Handled(Loop)
    BY <1>4, <2>1, RoutineKeepsSenders, EventHandlerKeepsSenders, MarksKeepSenders DEF LoopStep
  <2> QED BY <2>1, <2>2, <2>3, SendersKept
<1>5. CASE Surroundings BY <1>5, SurroundingsKeepSenders
<1>6. CASE UNCHANGED vars
  BY <1>6 DEF vars, SendersRight, OneHolder, Unasked, Kept, Carries
<1> QED BY <1>1, <1>2, <1>3, <1>4, <1>5, <1>6 DEF Next

\* Senders are in one place in every behaviour.
LEMMA AlwaysSendersRight == Spec => []SendersRight
BY InitSenders, NextKeepsSenders, AlwaysTyped, PTL DEF Spec

\* A hook that waits is within reach of an answer, and its sender is in one place
\* only, however many tasks pop, install, purge, time out or are dropped at once
\* (alerts.rs: the oneshot sender moves between slot, queue and tasks).
THEOREM OneHolderOfEverySender == Spec => []OneHolder
BY AlwaysSendersRight, PTL DEF SendersRight

-----------------------------------------------------------------------------
\* Replies

\* Between the end of its wait and its reply a hook may be in one of these routines.
Settling == {"wipe", "pop", "check", "install", "popIdle", "takeIdle", "place", "requeue"}

\* A sender is open only while its hook waits; a hook that waits, or has yet to,
\* or has yet to say what came of it, has not replied.
ReplyRight(r) ==
  /\ answer[r] = "open" => pc[r] = "parked"
  /\ pc[r] \in {"start", "gate", "park", "parked", "respond"} => response[r] = "none"
  /\ ret[r] = "respond" /\ pc[r] \in Settling => response[r] = "none"
  /\ pc[r] \in {"prune", "relock", "move"} => ret[r] = "done"
RepliesRight == \A r \in Requests : ReplyRight(r)

\* A step of t leaves the replies of other hooks alone, and opens none of them.
Replied(t) ==
  \A r \in Requests :
    IF r = t THEN ReplyRight(r)'
             ELSE (answer'[r] = "open" => answer[r] = "open") /\ response'[r] = response[r]

\* It is enough to look at the hook that moves.
LEMMA RepliesKept ==
  ASSUME RepliesRight, NEW t \in Threads, OthersSame(t), Replied(t)
  PROVE  RepliesRight'
<1> SUFFICES ASSUME NEW r \in Requests PROVE ReplyRight(r)' BY DEF RepliesRight
<1>1. r \in Threads BY DEF Threads
<1> QED BY <1>1 DEF OthersSame, Same, RepliesRight, ReplyRight, Replied

\* Replies stay right through a new job.
LEMMA NewJobKeepsReplies ==
  ASSUME TypeOK, SendersRight, RepliesRight, NEW h \in Hooks, NewJob(h)
  PROVE  Replied(h)
<1> h \in Threads /\ h # Loop BY ThreadsAssumption DEF Threads
<1>0. PICK s \in Sessions :
  \/ Submit(h, s) \/ Progress(h, s) \/ (\E tool \in Tools : ToolStep(h, s, tool)) \/ Tick(h)
  \/ FocusIn(h, s) \/ FocusOut(s) \/ Join(h, s) \/ Exit(h, s)
  BY DEF NewJob
<1>1. CASE Submit(h, s)
  BY <1>1, ThreadsAssumption DEF Replied, Woken, Submit, Cancel, FreeSlot
<1>2. CASE Progress(h, s)
  BY <1>2, ThreadsAssumption DEF Replied, Woken, Progress, Cancel, FreeSlot
<1>3. ASSUME NEW tool \in Tools, ToolStep(h, s, tool) PROVE Replied(h)
  BY <1>3, ThreadsAssumption DEF Replied, Woken, ToolStep, Cancel, FreeSlot
<1>4. CASE Tick(h)
  BY <1>4, ThreadsAssumption DEF Replied, Tick
<1>5. CASE FocusIn(h, s)
  BY <1>5, ThreadsAssumption DEF Replied, FocusIn
<1>6. CASE FocusOut(s)
  BY <1>6, ThreadsAssumption DEF Replied, FocusOut
<1>7. CASE Join(h, s)
  BY <1>7, ThreadsAssumption DEF Replied, Join
<1>8. CASE Exit(h, s)
  BY <1>8, ThreadsAssumption DEF Replied, Exit
<1> QED BY <1>0, <1>1, <1>2, <1>3, <1>4, <1>5, <1>6, <1>7, <1>8

\* Replies stay right through a notice that is raised.
LEMMA RaiseKeepsReplies ==
  ASSUME TypeOK, SendersRight, RepliesRight, NEW n \in Notices, Raise(n)
  PROVE  Replied(n)
<1> n \in Threads /\ n # Loop BY ThreadsAssumption DEF Threads
<1>1. CASE Raise(n)
  BY <1>1, ThreadsAssumption DEF Replied, Raise
<1> QED BY <1>1

\* Replies stay right through an enrollment mark.
LEMMA MarksKeepReplies ==
  ASSUME TypeOK, SendersRight, RepliesRight, NEW t \in Requests \cup {Loop}, Mark(t) \/ Unmark(t)
  PROVE  Replied(t)
<1> t \in Threads BY DEF Threads
<1>1. CASE Mark(t)
  BY <1>1, ThreadsAssumption DEF Replied, ReplyRight, RepliesRight, Settling, Mark
<1>2. CASE Unmark(t)
  BY <1>2, ThreadsAssumption DEF Replied, ReplyRight, RepliesRight, Settling, Unmark
<1> QED BY <1>1, <1>2

\* Replies stay right through the routines of AlertSlot.
LEMMA RoutineKeepsReplies ==
  ASSUME TypeOK, SendersRight, RepliesRight, NEW t \in Threads, Routine(t)
  PROVE  Replied(t)
<1>1. CASE Wipe(t)
  BY <1>1, ThreadsAssumption DEF Replied, ReplyRight, RepliesRight, Settling, Wipe, AfterWipe
<1>2. CASE Pop(t)
  BY <1>2, ThreadsAssumption DEF Replied, ReplyRight, RepliesRight, Settling, Pop
<1>3. CASE PopNothing(t)
  BY <1>3, ThreadsAssumption
    DEF Replied, ReplyRight, RepliesRight, Settling, TypeOK, TaskTypes, Rets, PopNothing,
        AfterPrompts
<1>4. CASE Check(t)
  BY <1>4, ThreadsAssumption
    DEF Replied, ReplyRight, RepliesRight, Settling, TypeOK, TaskTypes, Woken, Check
<1>5. CASE InstallNext(t)
  BY <1>5, ThreadsAssumption
    DEF Replied, ReplyRight, RepliesRight, Settling, TypeOK, TaskTypes, Rets, Woken, InstallNext
<1>6. CASE PeekSlot(t)
  BY <1>6, ThreadsAssumption
    DEF Replied, ReplyRight, RepliesRight, Settling, TypeOK, TaskTypes, Rets, PeekSlot
<1>7. CASE TakeIdle(t)
  BY <1>7, ThreadsAssumption
    DEF Replied, ReplyRight, RepliesRight, Settling, TypeOK, TaskTypes, TakeIdle
<1>8. CASE TakeNoIdle(t)
  BY <1>8, ThreadsAssumption
    DEF Replied, ReplyRight, RepliesRight, Settling, TypeOK, TaskTypes, Rets, TakeNoIdle
<1>9. CASE Place(t)
  BY <1>9, ThreadsAssumption
    DEF Replied, ReplyRight, RepliesRight, Settling, TypeOK, TaskTypes, Place, AfterPlace
<1>10. CASE Requeue(t)
  BY <1>10, ThreadsAssumption DEF Replied, ReplyRight, RepliesRight, Settling, Requeue, AfterPlace
<1>11. CASE Emit(t)
  BY <1>11, ThreadsAssumption
    DEF Replied, ReplyRight, RepliesRight, TypeOK, TaskTypes, Emit, AfterEmit, Alerts
<1>12. CASE Prune(t)
  BY <1>12, ThreadsAssumption
    DEF Replied, ReplyRight, RepliesRight, TypeOK, TaskTypes, Woken, Prune
<1>13. CASE Relock(t)
  BY <1>13, ThreadsAssumption
    DEF Replied, ReplyRight, RepliesRight, TypeOK, TaskTypes, Woken, Relock, FreeSlot
<1>14. CASE Move(t)
  BY <1>14, ThreadsAssumption DEF Replied, ReplyRight, RepliesRight, Move
<1> QED BY <1>1, <1>2, <1>3, <1>4, <1>5, <1>6, <1>7, <1>8, <1>9, <1>10, <1>11, <1>12, <1>13, <1>14
  DEF Routine

\* Replies stay right through the permission hook.
LEMMA RequestKeepsReplies ==
  ASSUME TypeOK, SendersRight, RepliesRight, NEW r \in Requests, Request(r)
  PROVE  Replied(r)
<1> r \in Threads /\ r # Loop BY ThreadsAssumption DEF Threads
<1>1. CASE Gate(r)
  BY <1>1, ThreadsAssumption
    DEF Replied, ReplyRight, RepliesRight, Settling, TypeOK, TaskTypes, RequestTypes, Gate
<1>2. CASE Enrolled(r)
  BY <1>2, ThreadsAssumption
    DEF Replied, ReplyRight, RepliesRight, Settling, TypeOK, TaskTypes, RequestTypes, Enrolled
<1>3. CASE Park(r)
  BY <1>3, ThreadsAssumption
    DEF Replied, ReplyRight, RepliesRight, Settling, TypeOK, TaskTypes, RequestTypes, Park
<1>4. CASE Timeout(r)
  BY <1>4, ThreadsAssumption DEF Replied, ReplyRight, RepliesRight, Timeout
<1>5. CASE Settle(r)
  BY <1>5, ThreadsAssumption
    DEF Replied, ReplyRight, RepliesRight, TypeOK, TaskTypes, Woken, Settle, FreeSlot
<1>6. CASE Respond(r)
  BY <1>6, ThreadsAssumption
    DEF Replied, ReplyRight, RepliesRight, Settling, TypeOK, TaskTypes, Respond
<1> QED BY <1>1, <1>2, <1>3, <1>4, <1>5, <1>6 DEF Request

\* Replies stay right through a job under way.
LEMMA HookKeepsReplies ==
  ASSUME TypeOK, SendersRight, RepliesRight, NEW h \in Hooks, Hook(h)
  PROVE  Replied(h)
<1> h \in Threads /\ h # Loop BY ThreadsAssumption DEF Threads
<1>1. CASE PurgePending(h)
  BY <1>1, ThreadsAssumption DEF Replied, Woken, PurgePending
<1>2. CASE PurgeIdle(h)
  BY <1>2, ThreadsAssumption DEF Replied, PurgeIdle
<1>3. CASE CancelIdle(h)
  BY <1>3, ThreadsAssumption DEF Replied, Woken, CancelIdle, FreeSlot
<1>4. CASE LeaveOptIn(h)
  BY <1>4, ThreadsAssumption DEF Replied, LeaveOptIn
<1>5. CASE LeaveOptOut(h)
  BY <1>5, ThreadsAssumption DEF Replied, LeaveOptOut
<1> QED BY <1>1, <1>2, <1>3, <1>4, <1>5 DEF Hook

\* Replies stay right through the event loop.
LEMMA EventHandlerKeepsReplies ==
  ASSUME TypeOK, SendersRight, RepliesRight, EventHandler
  PROVE  Replied(Loop)
<1> Loop \in Threads BY DEF Threads
<1>1. CASE TakeKey
  BY <1>1, ThreadsAssumption DEF Replied, TakeKey
<1>2. CASE FocusClear
  BY <1>2, ThreadsAssumption DEF Replied, Woken, FocusClear, FreeSlot
<1>3. CASE Attend
  BY <1>3, ThreadsAssumption DEF Replied, Attend
<1>4. CASE Decide
  BY <1>4, ThreadsAssumption DEF Replied, Woken, Decide, Meets, FreeSlot
<1>5. CASE Send
  BY <1>5, ThreadsAssumption DEF Replied, Woken, Send
<1>6. CASE TakeUp
  BY <1>6, ThreadsAssumption DEF Replied, TakeUp
<1>7. CASE Resync
  BY <1>7, ThreadsAssumption DEF Replied, Resync
<1>8. CASE TakeDown
  BY <1>8, ThreadsAssumption DEF Replied, TakeDown
<1>9. CASE TakeState
  BY <1>9, ThreadsAssumption DEF Replied, TakeState
<1>10. CASE DisarmIn
  BY <1>10, ThreadsAssumption DEF Replied, DisarmIn
<1>11. CASE DisarmOut
  BY <1>11, ThreadsAssumption DEF Replied, DisarmOut
<1>12. CASE Reset
  BY <1>12, ThreadsAssumption DEF Replied, Woken, Reset
<1> QED BY <1>1, <1>2, <1>3, <1>4, <1>5, <1>6, <1>7, <1>8, <1>9, <1>10, <1>11, <1>12
  DEF EventHandler

\* Replies stay right under the surroundings.
LEMMA SurroundingsKeepReplies ==
  ASSUME TypeOK, SendersRight, RepliesRight, Surroundings
  PROVE  RepliesRight'
<1> USE DEF TypeOK, TaskTypes, RequestTypes
<1>1. ASSUME NEW r \in Requests, Hangup(r) PROVE RepliesRight'
  BY <1>1 DEF RepliesRight, ReplyRight, Hangup, Settling
<1>2. ASSUME NEW t \in Requests \cup Notices, Abandon(t) PROVE RepliesRight'
  BY <1>2, ThreadsAssumption DEF RepliesRight, ReplyRight, Abandon, Settling, Woken, Threads
<1>3. CASE (\E k \in Keys : Press(k)) \/ Unplug \/ Plug \/ Flip
  BY <1>3 DEF Press, Unplug, Plug, Flip, daemonVars, RepliesRight, ReplyRight
<1> QED BY <1>1, <1>2, <1>3 DEF Surroundings

\* Nobody has replied yet.
LEMMA InitReplies == Init => RepliesRight
BY ThreadsAssumption DEF Init, RepliesRight, ReplyRight, Settling, Threads

\* Every step.
LEMMA NextKeepsReplies ==
  Typed /\ SendersRight /\ RepliesRight /\ [Next]_vars => RepliesRight'
<1> SUFFICES ASSUME TypeOK, TasksRight, SendersRight, RepliesRight, [Next]_vars
             PROVE  RepliesRight'
  BY DEF Typed
<1>1. ASSUME NEW r \in Requests, RequestStep(r) PROVE RepliesRight'
  <2>1. r \in Threads /\ r \in Requests \cup {Loop} BY DEF Threads
  <2>2. OthersSame(r) BY <1>1, <2>1, RoutineOthers, RequestOthers, MarksOthers DEF RequestStep
  <2>3. Replied(r) BY <1>1, <2>1, RoutineKeepsReplies, RequestKeepsReplies, MarksKeepReplies
    DEF RequestStep
  <2> QED BY <2>1, <2>2, <2>3, RepliesKept
<1>2. ASSUME NEW n \in Notices, NoticeStep(n) PROVE RepliesRight'
  <2>1. n \in Threads BY DEF Threads
  <2>2. OthersSame(n) BY <1>2, <2>1, RoutineOthers, RaiseOthers DEF NoticeStep
  <2>3. Replied(n) BY <1>2, <2>1, RoutineKeepsReplies, RaiseKeepsReplies DEF NoticeStep
  <2> QED BY <2>1, <2>2, <2>3, RepliesKept
<1>3. ASSUME NEW h \in Hooks, HookStep(h) \/ NewJob(h) PROVE RepliesRight'
  <2>1. h \in Threads BY DEF Threads
  <2>2. OthersSame(h) BY <1>3, <2>1, RoutineOthers, HookOthers, NewJobOthers DEF HookStep
  <2>3. Replied(h) BY <1>3, <2>1, RoutineKeepsReplies, HookKeepsReplies, NewJobKeepsReplies
    DEF HookStep
  <2> QED BY <2>1, <2>2, <2>3, RepliesKept
<1>4. CASE LoopStep
  <2>1. Loop \in Threads /\ Loop \in Requests \cup {Loop} BY DEF Threads
  <2>2. OthersSame(Loop) BY <1>4, <2>1, RoutineOthers, EventHandlerOthers, MarksOthers
    DEF LoopStep
  <2>3. Replied(Loop)
    BY <1>4, <2>1, RoutineKeepsReplies, EventHandlerKeepsReplies, MarksKeepReplies DEF LoopStep
  <2> QED BY <2>1, <2>2, <2>3, RepliesKept
<1>5. CASE Surroundings BY <1>5, SurroundingsKeepReplies
<1>6. CASE UNCHANGED vars BY <1>6 DEF vars, RepliesRight, ReplyRight
<1> QED BY <1>1, <1>2, <1>3, <1>4, <1>5, <1>6 DEF Next

\* Replies are right in every behaviour.
LEMMA AlwaysRepliesRight == Spec => []RepliesRight
BY InitReplies, NextKeepsReplies, AlwaysTyped, AlwaysSendersRight, PTL DEF Spec

-----------------------------------------------------------------------------
\* The prompt desk.

\* The desk's variables as this system has them.
Front   == IF slot \in Requests THEN slot ELSE None
Taken   == IF pc[Loop] \in Marking THEN hand[Loop] ELSE None
Aimed   == IF pc[Loop] = "decide" /\ aim \in Requests THEN aim ELSE None
Waiting == pendingQ.in \cup Carried

\* A step of the desk, or none.
DeskStep == [Desk!Next]_(Desk!desk)

\* What a desk step says, in the daemon's terms: one lemma per abstract action.
LEMMA NoDeskStep ==
  ASSUME Front' = Front, Aimed' = Aimed, Taken' = Taken, Waiting' = Waiting, answer' = answer,
         response' = response, optIn' = optIn
  PROVE  DeskStep
BY DEF DeskStep, Desk!desk, Front, Aimed, Taken, Waiting, Marking

\* A hook asks: its prompt is in front of the user, or waits.
LEMMA AskStep ==
  ASSUME NEW r \in Requests, answer[r] = "unsent", response[r] = "none",
         answer' = [answer EXCEPT ![r] = "open"],
         \/ Front = None /\ Front' = r /\ Waiting' = Waiting
         \/ Waiting' = Waiting \cup {r} /\ Front' = Front,
         Aimed' = Aimed, Taken' = Taken, response' = response, optIn' = optIn
  PROVE  DeskStep
<1>1. Desk!Ask(r) BY DEF Desk!Ask, Front, Aimed, Taken, Waiting, Marking
<1> QED BY <1>1 DEF DeskStep, Desk!Next

\* A waiting prompt is shown.
LEMMA ShowStep ==
  ASSUME NEW r \in Requests, Front = None, r \in Waiting, Front' = r, Waiting' = Waiting \ {r},
         Aimed' = Aimed, Taken' = Taken, answer' = answer, response' = response, optIn' = optIn
  PROVE  DeskStep
<1>1. Desk!Show(r) BY DEF Desk!Show, Front, Aimed, Taken, Waiting, Marking
<1> QED BY <1>1 DEF DeskStep, Desk!Next

\* A key is read against the prompt in front.
LEMMA AimStep ==
  ASSUME Front # None, Aimed = None, Aimed' = Front, Front' = Front, Taken' = Taken,
         Waiting' = Waiting, answer' = answer, response' = response, optIn' = optIn
  PROVE  DeskStep
<1>1. Desk!Aim BY DEF Desk!Aim, Front, Aimed, Taken, Waiting, Marking
<1> QED BY <1>1 DEF DeskStep, Desk!Next

\* It is lost.
LEMMA MissStep ==
  ASSUME Aimed # None, Aimed' = None, Front' = Front, Taken' = Taken,
         Waiting' = Waiting, answer' = answer, response' = response, optIn' = optIn
  PROVE  DeskStep
<1>1. Desk!Miss BY DEF Desk!Miss, Front, Aimed, Taken, Waiting, Marking
<1> QED BY <1>1 DEF DeskStep, Desk!Next

\* It meets the prompt it was read against.
LEMMA PressStep ==
  ASSUME Aimed # None, Front = Aimed, Taken = None, Taken' = Front, Front' = None, Aimed' = None,
         Waiting' = Waiting, answer' = answer, response' = response, optIn' = optIn
  PROVE  DeskStep
<1>1. Desk!Press BY DEF Desk!Press, Front, Aimed, Taken, Waiting, Marking
<1> QED BY <1>1 DEF DeskStep, Desk!Next

\* The key's verdict is sent.
LEMMA AnswerStep ==
  ASSUME Taken # None, NEW v \in {"allow", "deny"}, answer' = Woken({Taken}, v), Taken' = None,
         Front' = Front, Aimed' = Aimed, Waiting' = Waiting, response' = response, optIn' = optIn
  PROVE  DeskStep
<1>1. answer' = Desk!Settled({Taken}, v) BY DEF Desk!Settled, Woken
<1>2. Desk!Answer BY <1>1 DEF Desk!Answer, Front, Aimed, Taken, Waiting, Marking
<1> QED BY <1>2 DEF DeskStep, Desk!Next

\* A waiting prompt is approved by its wrapper's enrollment.
LEMMA ApproveStep ==
  ASSUME NEW r \in Requests, r \in Waiting, SessionOf[r] \in optIn,
         answer' = Woken({r}, "allow"), Waiting' = Waiting \ {r},
         Front' = Front, Aimed' = Aimed, Taken' = Taken, response' = response, optIn' = optIn
  PROVE  DeskStep
<1>1. answer' = Desk!Settled({r}, "allow") BY DEF Desk!Settled, Woken
<1>2. Desk!Approve(r) BY <1>1 DEF Desk!Approve, Front, Aimed, Taken, Waiting, Marking
<1> QED BY <1>2 DEF DeskStep, Desk!Next

\* Prompts are withdrawn.
LEMMA WithdrawStep ==
  ASSUME NEW S, S \subseteq Waiting \cup ({Front} \ {None}),
         answer' = Woken(S, "dropped"), Waiting' = Waiting \ S,
         Front' = IF Front \in S THEN None ELSE Front,
         Aimed' = Aimed, Taken' = Taken, response' = response, optIn' = optIn
  PROVE  DeskStep
<1>1. answer' = Desk!Settled(S, "dropped") BY DEF Desk!Settled, Woken
<1>2. Desk!Withdraw BY <1>1 DEF Desk!Withdraw, Front, Aimed, Taken, Waiting, Marking
<1> QED BY <1>2 DEF DeskStep, Desk!Next

\* A hook stops waiting.
LEMMA ExpireStep ==
  ASSUME NEW r \in Requests, answer[r] = "open", answer' = [answer EXCEPT ![r] = "closed"],
         Front' = Front, Aimed' = Aimed, Taken' = Taken, Waiting' = Waiting, response' = response,
         optIn' = optIn
  PROVE  DeskStep
<1>1. Desk!Expire(r) BY DEF Desk!Expire, Front, Aimed, Taken, Waiting, Marking
<1> QED BY <1>1 DEF DeskStep, Desk!Next

\* A hook replies.
LEMMA ReplyStep ==
  ASSUME NEW r \in Requests, response[r] = "none", answer[r] # "open",
         NEW v \in {"allow", "deny", "pass"},
         v = "allow" =>
           answer[r] = "allow" \/ (answer[r] = "unsent" /\ SessionOf[r] \in optIn),
         v = "deny" => answer[r] = "deny",
         v = "pass" => answer[r] # "allow",
         response' = [response EXCEPT ![r] = v],
         Front' = Front, Aimed' = Aimed, Taken' = Taken, Waiting' = Waiting, answer' = answer,
         optIn' = optIn
  PROVE  DeskStep
<1>1. Desk!Reply(r) BY DEF Desk!Reply, Front, Aimed, Taken, Waiting, Marking
<1> QED BY <1>1 DEF DeskStep, Desk!Next

\* Enrollment changes.
LEMMA EnrollStep ==
  ASSUME optIn' \subseteq Sessions,
         Front' = Front, Aimed' = Aimed, Taken' = Taken, Waiting' = Waiting, answer' = answer,
         response' = response
  PROVE  DeskStep
<1>1. Desk!Enroll BY DEF Desk!Enroll, Front, Aimed, Taken, Waiting, Marking
<1> QED BY <1>1 DEF DeskStep, Desk!Next

\* The sender a task popped and has yet to install.
InHand(t) == IF pc[t] \in {"check", "install"} THEN {hand[t]} ELSE {}

\* What waits besides the queue and the hands of t does not change when t moves,
\* and a sender is in one of these places only.
LEMMA WaitingSplit ==
  ASSUME TypeOK, TasksRight, TasksRight', SendersRight, NEW t \in Threads, OthersSame(t)
  PROVE  \E E \in SUBSET Requests :
           /\ Waiting = pendingQ.in \cup InHand(t) \cup E
           /\ Waiting' = pendingQ'.in \cup InHand(t)' \cup E
           /\ E \cap pendingQ.in = {} /\ E \cap InHand(t) = {} /\ InHand(t) \cap pendingQ.in = {}
           /\ slot \notin Waiting
<1> DEFINE E == {r \in Requests : \E u \in Threads \ {t} :
                   hand[u] = r /\ pc[u] \in {"check", "install"}}
<1>1. Waiting = pendingQ.in \cup InHand(t) \cup E
  BY DEF Waiting, Carried, InHand, TasksRight, CarriesRight
<1>2. Waiting' = pendingQ'.in \cup InHand(t)' \cup E
  BY DEF Waiting, Carried, InHand, TasksRight, CarriesRight, OthersSame, Same
<1>3. /\ E \cap pendingQ.in = {} /\ E \cap InHand(t) = {} /\ InHand(t) \cap pendingQ.in = {}
      /\ slot \notin E \cup InHand(t)
  BY DEF InHand, SendersRight, OneHolder, Carries, TasksRight, CarriesRight
<1>4. slot \notin pendingQ.in BY QueuedAlerts DEF TypeOK, SendersRight, OneHolder
<1> QED BY <1>1, <1>2, <1>3, <1>4

\* A step that moves no prompt and settles none is no step of the desk.
LEMMA QuietStep ==
  ASSUME TypeOK, TasksRight, TasksRight', SendersRight, NEW t \in Threads, OthersSame(t),
         slot' = slot, pendingQ' = pendingQ, InHand(t)' = InHand(t), Aimed' = Aimed, Taken' = Taken,
         answer' = answer, response' = response, optIn' = optIn
  PROVE  DeskStep
<1>1. Waiting' = Waiting BY WaitingSplit
<1> QED BY <1>1, NoDeskStep DEF Front

\* Freeing the slot withdraws the prompt in front, if there is one.
LEMMA FreedStep ==
  ASSUME TypeOK, TasksRight, TasksRight', SendersRight, NEW t \in Threads, OthersSame(t),
         slot' = None, answer' = Woken({slot}, "dropped"),
         pendingQ' = pendingQ, InHand(t)' = InHand(t), Aimed' = Aimed, Taken' = Taken,
         response' = response, optIn' = optIn
  PROVE  DeskStep
<1>1. Waiting' = Waiting /\ slot \notin Waiting BY WaitingSplit
<1>2. None \notin Requests BY ThreadsAssumption DEF Alerts
<1>3. CASE slot \in Requests
  <2>1. Front = slot /\ Front' = None /\ Waiting' = Waiting \ {slot}
    BY <1>1, <1>2, <1>3 DEF Front
  <2> QED BY <1>2, <1>3, <2>1, WithdrawStep
<1>4. CASE slot \notin Requests
  <2>1. answer' = answer BY <1>4 DEF Woken, TypeOK, RequestTypes
  <2>2. Front' = Front BY <1>2, <1>4 DEF Front
  <2> QED BY <1>1, <2>1, <2>2, NoDeskStep
<1> QED BY <1>3, <1>4

\* Purging prompts withdraws them.
LEMMA PurgeStep ==
  ASSUME TypeOK, TasksRight, TasksRight', SendersRight, NEW t \in Threads, OthersSame(t),
         NEW S \in SUBSET pendingQ.in,
         slot' = slot, answer' = Woken(S, "dropped"), pendingQ'.in = pendingQ.in \ S,
         InHand(t)' = InHand(t), Aimed' = Aimed, Taken' = Taken, response' = response,
         optIn' = optIn
  PROVE  DeskStep
<1>1. PICK E \in SUBSET Requests :
        /\ Waiting = pendingQ.in \cup InHand(t) \cup E
        /\ Waiting' = pendingQ'.in \cup InHand(t)' \cup E
        /\ E \cap pendingQ.in = {} /\ InHand(t) \cap pendingQ.in = {}
        /\ slot \notin Waiting
  BY WaitingSplit
<1>2. S \subseteq Waiting /\ Waiting' = Waiting \ S BY <1>1
<1>3. Front \notin S
  BY <1>1, QueuedAlerts, ThreadsAssumption DEF Front, TypeOK, Alerts
<1>4. Front' = Front BY DEF Front
<1> QED BY <1>2, <1>3, <1>4, WithdrawStep

\* A new job is a withdrawal or no step of the desk.
LEMMA NewJobOnDesk ==
  ASSUME TypeOK, TasksRight, TasksRight', SendersRight, Aimed' = Aimed, NEW h \in Hooks, NewJob(h)
  PROVE  DeskStep
<1>0. h \in Threads /\ h # Loop /\ OthersSame(h)
  BY NewJobOthers, ThreadsAssumption DEF Threads
<1>1. Taken' = Taken BY <1>0 DEF Taken, OthersSame, Same, Threads
<1> USE DEF TypeOK, TaskTypes, InHand
<1>2. ASSUME NEW victims, NEW next \in {"purge", "emit"}, Cancel(h, victims, next) PROVE DeskStep
  <2>1. InHand(h)' = InHand(h) BY <1>0, <1>2 DEF Cancel, FreeSlot
  <2>2. CASE FreeSlot(h) BY <1>0, <1>1, <1>2, <2>1, <2>2, FreedStep DEF Cancel, FreeSlot
  <2>3. CASE UNCHANGED <<slot, slotTab, answer, tabOf>>
    BY <1>0, <1>1, <1>2, <2>1, <2>3, QuietStep DEF Cancel
  <2> QED BY <1>2, <2>2, <2>3 DEF Cancel
<1>3. ASSUME NEW s \in Sessions,
             Tick(h) \/ FocusIn(h, s) \/ FocusOut(s) \/ Join(h, s) \/ Exit(h, s)
      PROVE  DeskStep
  <2>1. InHand(h)' = InHand(h) BY <1>0, <1>3 DEF Tick, FocusIn, FocusOut, Join, Exit
  <2> QED BY <1>0, <1>1, <1>3, <2>1, QuietStep DEF Tick, FocusIn, FocusOut, Join, Exit
<1> QED BY <1>2, <1>3 DEF NewJob, Submit, Progress, ToolStep

\* A raised notice is no step of the desk.
LEMMA RaiseOnDesk ==
  ASSUME TypeOK, TasksRight, TasksRight', SendersRight, Aimed' = Aimed, NEW n \in Notices, Raise(n)
  PROVE  DeskStep
<1>0. n \in Threads /\ n # Loop /\ OthersSame(n)
  BY RaiseOthers, ThreadsAssumption DEF Threads
<1>1. Taken' = Taken BY <1>0 DEF Taken, OthersSame, Same, Threads
<1>2. InHand(n)' = InHand(n) BY <1>0 DEF TypeOK, TaskTypes, InHand, Raise
<1> QED BY <1>0, <1>1, <1>2, QuietStep DEF Raise

\* A mark changes the enrollment, whoever makes it.
LEMMA MarksOnDesk ==
  ASSUME TypeOK, TasksRight, TasksRight', TypeOK', SendersRight, Aimed' = Aimed,
         NEW t \in Requests \cup {Loop}, Mark(t) \/ Unmark(t)
  PROVE  DeskStep
<1>0. t \in Threads /\ OthersSame(t) BY MarksOthers DEF Threads
<1>1. Taken' = Taken
  <2>1. CASE t = Loop
    BY <1>0, <2>1 DEF TypeOK, TaskTypes, TasksRight, LoopRight, Mark, Unmark, Taken, Marking
  <2>2. CASE t # Loop BY <1>0, <2>2 DEF Taken, OthersSame, Same, Threads
  <2> QED BY <2>1, <2>2
<1>2. InHand(t)' = InHand(t) BY <1>0 DEF TypeOK, TaskTypes, InHand, Mark, Unmark
<1>3. Waiting' = Waiting
  <2>1. pendingQ' = pendingQ BY DEF Mark, Unmark
  <2> QED BY <1>0, <1>2, <2>1, WaitingSplit
<1>4. Front' = Front BY DEF Mark, Unmark, Front
<1>5. answer' = answer /\ response' = response BY DEF Mark, Unmark
<1>6. optIn' \subseteq Sessions BY DEF TypeOK, WrapperTypes
<1> QED BY <1>1, <1>3, <1>4, <1>5, <1>6, EnrollStep

\* The routines of AlertSlot show, approve and withdraw prompts.
LEMMA RoutineOnDesk ==
  ASSUME TypeOK, TasksRight, TasksRight', SendersRight, Aimed' = Aimed,
         NEW t \in Threads, Routine(t)
  PROVE  DeskStep
<1>0. OthersSame(t) BY RoutineOthers
<1>1. PICK E \in SUBSET Requests :
        /\ Waiting = pendingQ.in \cup InHand(t) \cup E
        /\ Waiting' = pendingQ'.in \cup InHand(t)' \cup E
        /\ E \cap pendingQ.in = {} /\ E \cap InHand(t) = {} /\ InHand(t) \cap pendingQ.in = {}
        /\ slot \notin Waiting
  BY <1>0, WaitingSplit
<1>2. Taken' = Taken
  <2>1. CASE t = Loop
    <3>1. pc[Loop] \notin Marking
      BY <2>1
        DEF Routine, Wipe, Pop, PopNothing, Check, InstallNext, PeekSlot, TakeIdle, TakeNoIdle,
            Place, Requeue, Emit, Prune, Relock, Move, Marking
    <3>2. pc'[Loop] \notin Marking
      BY <2>1
        DEF Routine, Wipe, Pop, PopNothing, Check, InstallNext, PeekSlot, TakeIdle, TakeNoIdle,
            Place, Requeue, Emit, Prune, Relock, Move, AfterWipe, AfterPrompts, AfterPlace,
            Marking, TypeOK, TaskTypes, Rets
    <3> QED BY <3>1, <3>2 DEF Taken
  <2>2. CASE t # Loop BY <1>0, <2>2 DEF Taken, OthersSame, Same, Threads
  <2> QED BY <2>1, <2>2
<1>3. None \notin Requests /\ Requests \cap Notices = {} /\ None \notin Notices
  BY ThreadsAssumption DEF Alerts
<1> USE DEF TypeOK, TaskTypes
<1>4. CASE Wipe(t)
  <2>1. InHand(t)' = InHand(t) BY <1>4 DEF InHand, Wipe, AfterWipe
  <2> QED BY <1>0, <1>2, <1>4, <2>1, QuietStep DEF Wipe
<1>5. CASE Pop(t)
  <2>1. PICK r \in pendingQ.in : pendingQ' = Without(pendingQ, {r}) /\ hand'[t] = r /\ pc'[t] = "check"
    BY <1>5 DEF Pop
  <2>2. InHand(t) = {} /\ InHand(t)' = {r} BY <1>5, <2>1 DEF InHand, Pop
  <2>3. Waiting' = Waiting BY <1>1, <2>1, <2>2 DEF Without
  <2>4. Front' = Front BY <1>5 DEF Front, Pop
  <2> QED BY <1>2, <1>5, <2>3, <2>4, NoDeskStep DEF Pop
<1>6. CASE PopNothing(t)
  <2>1. InHand(t)' = InHand(t) BY <1>6 DEF InHand, PopNothing, AfterPrompts, Rets
  <2> QED BY <1>0, <1>2, <1>6, <2>1, QuietStep DEF PopNothing
<1>7. CASE Check(t)
  <2>1. hand[t] \in Requests /\ InHand(t) = {hand[t]}
    BY <1>7 DEF Check, InHand, TasksRight, CarriesRight
  <2>2. hand[t] \in Waiting /\ hand[t] # slot BY <1>1, <2>1
  <2>3. Front' = Front BY <1>7 DEF Check, Front
  <2>4. CASE pc'[t] = "pop"
    <3>1. Waiting' = Waiting \ {hand[t]} BY <1>1, <1>7, <2>1, <2>4 DEF Check, InHand
    <3>2. CASE Approves(hand[t])
      BY <1>2, <1>7, <2>1, <2>2, <2>3, <3>1, <3>2, ApproveStep DEF Check, Approves
    <3>3. CASE ~Approves(hand[t])
      <4>1. answer' = Woken({hand[t]}, "dropped")
        BY <1>7, <2>1, <2>4, <3>3 DEF Check, Woken, RequestTypes
      <4>2. Front \notin {hand[t]} BY <1>3, <2>1, <2>2 DEF Front
      <4> QED BY <1>2, <1>7, <2>2, <2>3, <3>1, <4>1, <4>2, WithdrawStep DEF Check
    <3> QED BY <3>2, <3>3
  <2>5. CASE pc'[t] # "pop"
    <3>1. InHand(t)' = InHand(t) BY <1>7, <2>5 DEF Check, InHand
    <3>2. answer' = answer BY <1>7, <2>5 DEF Check
    <3> QED BY <1>0, <1>2, <1>7, <3>1, <3>2, QuietStep DEF Check
  <2> QED BY <2>4, <2>5
<1>8. CASE InstallNext(t)
  <2>1. hand[t] \in Requests /\ InHand(t) = {hand[t]} /\ InHand(t)' = {}
    BY <1>8 DEF InstallNext, InHand, TasksRight, CarriesRight, Rets
  <2>2. CASE slot # None
    <3>1. Waiting' = Waiting BY <1>1, <1>8, <2>1, <2>2 DEF InstallNext, PushFront
    <3>2. Front' = Front BY <1>8, <2>2 DEF InstallNext, Front
    <3> QED BY <1>2, <1>8, <2>2, <3>1, <3>2, NoDeskStep DEF InstallNext
  <2>3. CASE slot = None
    <3>1. Waiting' = Waiting \ {hand[t]} BY <1>1, <1>8, <2>1, <2>3 DEF InstallNext
    <3>2. hand[t] \in Waiting /\ Front = None BY <1>1, <1>3, <2>1, <2>3 DEF Front
    <3>3. CASE hidUp
      <4>1. Front' = hand[t] BY <1>8, <2>1, <2>3, <3>3 DEF InstallNext, Install, Front
      <4> QED BY <1>2, <1>8, <2>1, <2>3, <3>1, <3>2, <3>3, <4>1, ShowStep DEF InstallNext
    <3>4. CASE ~hidUp
      <4>1. Front' = Front /\ Front \notin {hand[t]}
        BY <1>3, <1>8, <2>1, <2>3, <3>2, <3>4 DEF InstallNext, Front
      <4> QED BY <1>2, <1>8, <2>3, <3>1, <3>2, <3>4, <4>1, WithdrawStep DEF InstallNext
    <3> QED BY <3>3, <3>4
  <2> QED BY <2>2, <2>3
<1>9. CASE PeekSlot(t)
  <2>1. InHand(t)' = InHand(t) BY <1>9 DEF InHand, PeekSlot, Rets
  <2> QED BY <1>0, <1>2, <1>9, <2>1, QuietStep DEF PeekSlot
<1>10. CASE TakeIdle(t)
  <2>1. InHand(t)' = InHand(t) BY <1>10 DEF InHand, TakeIdle
  <2> QED BY <1>0, <1>2, <1>10, <2>1, QuietStep DEF TakeIdle
<1>11. CASE TakeNoIdle(t)
  <2>1. InHand(t)' = InHand(t) BY <1>11 DEF InHand, TakeNoIdle, Rets
  <2> QED BY <1>0, <1>2, <1>11, <2>1, QuietStep DEF TakeNoIdle
<1>12. CASE Place(t)
  <2>1. InHand(t)' = InHand(t) BY <1>12 DEF InHand, Place, AfterPlace
  <2>2. pendingQ' = pendingQ BY <1>12 DEF Place
  <2>3. Waiting' = Waiting BY <1>1, <2>1, <2>2
  <2>4. hand[t] \in Notices BY <1>12 DEF Place, TasksRight, CarriesRight
  <2>5. Front' = Front BY <1>3, <1>12, <2>4 DEF Place, Install, Front
  <2> QED BY <1>2, <1>12, <2>3, <2>5, NoDeskStep DEF Place
<1>13. CASE Requeue(t)
  <2>1. InHand(t)' = InHand(t) BY <1>13 DEF InHand, Requeue, AfterPlace
  <2> QED BY <1>0, <1>2, <1>13, <2>1, QuietStep DEF Requeue
<1>14. CASE Emit(t)
  <2>1. InHand(t)' = InHand(t) BY <1>14 DEF InHand, Emit
  <2> QED BY <1>0, <1>2, <1>14, <2>1, QuietStep DEF Emit
<1>15. CASE Prune(t)
  <2>1. InHand(t)' = InHand(t) BY <1>15 DEF InHand, Prune
  <2>2. PICK S \in SUBSET pendingQ.in :
          answer' = Woken(S, "dropped") /\ pendingQ'.in = pendingQ.in \ S
    BY <1>15 DEF Prune, Without
  <2> QED BY <1>0, <1>2, <1>15, <2>1, <2>2, PurgeStep DEF Prune
<1>16. CASE Relock(t)
  <2>1. InHand(t)' = InHand(t) BY <1>16 DEF InHand, Relock, FreeSlot, Rets
  <2>2. CASE FreeSlot(t) BY <1>0, <1>2, <1>16, <2>1, <2>2, FreedStep DEF Relock, FreeSlot
  <2>3. CASE UNCHANGED <<slot, answer>>
    BY <1>0, <1>2, <1>16, <2>1, <2>3, QuietStep DEF Relock
  <2> QED BY <1>16, <2>2, <2>3 DEF Relock
<1>17. CASE Move(t)
  <2>1. InHand(t)' = InHand(t) BY <1>17 DEF InHand, Move, Rets
  <2> QED BY <1>0, <1>2, <1>17, <2>1, QuietStep DEF Move
<1> QED BY <1>4, <1>5, <1>6, <1>7, <1>8, <1>9, <1>10, <1>11, <1>12, <1>13, <1>14, <1>15, <1>16,
           <1>17 DEF Routine

\* The permission hook asks, stops waiting and replies.
LEMMA RequestOnDesk ==
  ASSUME TypeOK, TasksRight, TasksRight', SendersRight, RepliesRight,
         Aimed' = Aimed, NEW r \in Requests, Request(r)
  PROVE  DeskStep
<1>0. r \in Threads /\ r # Loop /\ OthersSame(r)
  BY RequestOthers, ThreadsAssumption DEF Threads
<1>1. Taken' = Taken BY <1>0 DEF Taken, OthersSame, Same, Threads
<1>2. Unasked(r) /\ ReplyRight(r) BY DEF SendersRight, RepliesRight
<1>3. pc[r] \in Early => answer[r] = "unsent" /\ response[r] = "none"
  BY <1>2 DEF Unasked, ReplyRight, Early
<1>4. InHand(r)' = {} /\ InHand(r) = {}
  BY <1>0 DEF TypeOK, TaskTypes, InHand, Request, Gate, Enrolled, Park, Timeout, Settle, Respond
<1>5. pendingQ' = pendingQ => Waiting' = Waiting BY <1>0, <1>4, WaitingSplit
<1>6. None \notin Requests BY ThreadsAssumption DEF Alerts
<1>7. CASE Gate(r)
  <2>1. Front' = Front /\ Waiting' = Waiting BY <1>5, <1>7 DEF Gate, Front
  <2>2. CASE response' = [response EXCEPT ![r] = "pass"]
    <3>1. answer[r] = "unsent" /\ response[r] = "none" BY <1>3, <1>7 DEF Gate, Early
    <3> QED BY <1>1, <1>7, <2>1, <2>2, <3>1, ReplyStep DEF Gate
  <2>3. CASE response' = response BY <1>1, <1>7, <2>1, <2>3, NoDeskStep DEF Gate
  <2> QED BY <1>7, <2>2, <2>3 DEF Gate
<1>8. CASE Enrolled(r)
  <2>1. Front' = Front /\ Waiting' = Waiting BY <1>5, <1>8 DEF Enrolled, Front
  <2>2. answer[r] = "unsent" /\ response[r] = "none" BY <1>3, <1>8 DEF Enrolled, Early
  <2>3. CASE SessionOf[r] \in optIn /\ response' = [response EXCEPT ![r] = "allow"]
    BY <1>1, <1>8, <2>1, <2>2, <2>3, ReplyStep DEF Enrolled
  <2>4. CASE response' = [response EXCEPT ![r] = "pass"]
    BY <1>1, <1>8, <2>1, <2>2, <2>4, ReplyStep DEF Enrolled
  <2>5. CASE response' = response BY <1>1, <1>8, <2>1, <2>5, NoDeskStep DEF Enrolled
  <2> QED BY <1>8, <2>3, <2>4, <2>5 DEF Enrolled
<1>9. CASE Park(r)
  <2>1. answer[r] = "unsent" /\ response[r] = "none" BY <1>3, <1>9 DEF Park, Early
  <2>2. optIn' = optIn BY <1>9 DEF Park
  <2>3. CASE slot = None /\ Install(r, tabOf[r]) /\ pendingQ' = pendingQ /\ response' = response
             /\ answer' = [answer EXCEPT ![r] = "open"]
    <3>1. Front = None /\ Front' = r BY <1>6, <2>3 DEF Front, Install
    <3> QED BY <1>1, <1>5, <2>1, <2>2, <2>3, <3>1, AskStep
  <2>4. CASE slot' = slot /\ pendingQ' = PushBack(pendingQ, r) /\ response' = response
             /\ answer' = [answer EXCEPT ![r] = "open"]
    <3>1. Front' = Front BY <2>4 DEF Front
    <3>2. Waiting' = Waiting \cup {r} BY <1>0, <1>4, <2>4, WaitingSplit DEF PushBack
    <3> QED BY <1>1, <2>1, <2>2, <2>4, <3>1, <3>2, AskStep
  <2>5. CASE /\ slot' = slot /\ pendingQ' = pendingQ /\ answer' = answer
             /\ response' = [response EXCEPT ![r] = "pass"]
    <3>1. Front' = Front BY <2>5 DEF Front
    <3> QED BY <1>1, <1>5, <2>1, <2>2, <2>5, <3>1, ReplyStep
  <2> QED BY <1>9, <2>3, <2>4, <2>5 DEF Park
<1>10. CASE Timeout(r)
  <2>1. Front' = Front /\ Waiting' = Waiting BY <1>5, <1>10 DEF Timeout, Front
  <2> QED BY <1>1, <1>10, <2>1, ExpireStep DEF Timeout
<1>11. CASE Settle(r)
  <2>1. CASE FreeSlot(r) BY <1>0, <1>1, <1>4, <1>11, <2>1, FreedStep DEF Settle, FreeSlot
  <2>2. CASE UNCHANGED <<slot, slotTab, answer, tabOf>>
    BY <1>0, <1>1, <1>4, <1>11, <2>2, QuietStep DEF Settle
  <2> QED BY <1>11, <2>1, <2>2 DEF Settle
<1>12. CASE Respond(r)
  <2>1. Front' = Front /\ Waiting' = Waiting BY <1>5, <1>12 DEF Respond, Front
  <2>2. answer[r] # "open" /\ response[r] = "none" BY <1>2, <1>12 DEF Respond, ReplyRight
  <2>3. /\ ReplyTo(r) \in {"allow", "deny", "pass"}
        /\ ReplyTo(r) = "allow" => answer[r] = "allow"
        /\ ReplyTo(r) = "deny" => answer[r] = "deny"
        /\ ReplyTo(r) = "pass" => answer[r] # "allow"
    BY DEF ReplyTo
  <2> QED BY <1>1, <1>12, <2>1, <2>2, <2>3, ReplyStep DEF Respond
<1> QED BY <1>7, <1>8, <1>9, <1>10, <1>11, <1>12 DEF Request

\* Jobs under way withdraw prompts and change the enrollment.
LEMMA HookOnDesk ==
  ASSUME TypeOK, TasksRight, TypeOK', TasksRight', SendersRight, Aimed' = Aimed,
         NEW h \in Hooks, Hook(h)
  PROVE  DeskStep
<1>0. h \in Threads /\ h # Loop /\ OthersSame(h)
  BY HookOthers, ThreadsAssumption DEF Threads
<1>1. Taken' = Taken BY <1>0 DEF Taken, OthersSame, Same, Threads
<1>2. InHand(h)' = {} /\ InHand(h) = {}
  BY <1>0
    DEF TypeOK, TaskTypes, InHand, Hook, PurgePending, PurgeIdle, CancelIdle, LeaveOptIn,
        LeaveOptOut, PromoteIfFreed
<1>3. CASE PurgePending(h)
  <2>1. PICK S \in SUBSET pendingQ.in :
          answer' = Woken(S, "dropped") /\ pendingQ'.in = pendingQ.in \ S
    BY <1>3 DEF PurgePending, Without, Of
  <2> QED BY <1>0, <1>1, <1>2, <1>3, <2>1, PurgeStep DEF PurgePending
<1>4. CASE PurgeIdle(h) \/ LeaveOptOut(h)
  BY <1>0, <1>1, <1>2, <1>4, QuietStep DEF PurgeIdle, LeaveOptOut
<1>5. CASE CancelIdle(h)
  <2>1. CASE FreeSlot(h) BY <1>0, <1>1, <1>2, <1>5, <2>1, FreedStep DEF CancelIdle, FreeSlot
  <2>2. CASE UNCHANGED <<slot, slotTab, answer, tabOf>>
    BY <1>0, <1>1, <1>2, <1>5, <2>2, QuietStep DEF CancelIdle
  <2> QED BY <1>5, <2>1, <2>2 DEF CancelIdle
<1>6. CASE LeaveOptIn(h)
  <2>1. Front' = Front BY <1>6 DEF LeaveOptIn, Front
  <2>2. Waiting' = Waiting BY <1>0, <1>2, <1>6, WaitingSplit DEF LeaveOptIn
  <2>3. optIn' \subseteq Sessions BY DEF TypeOK, WrapperTypes
  <2> QED BY <1>1, <1>6, <2>1, <2>2, <2>3, EnrollStep DEF LeaveOptIn
<1> QED BY <1>3, <1>4, <1>5, <1>6 DEF Hook

\* The event loop applies keys, withdraws prompts and changes the enrollment.
LEMMA EventHandlerOnDesk ==
  ASSUME TypeOK, TasksRight, TypeOK', TasksRight', SendersRight, EventHandler
  PROVE  DeskStep
<1>0. Loop \in Threads /\ OthersSame(Loop) BY EventHandlerOthers DEF Threads
<1>1. InHand(Loop)' = {} /\ InHand(Loop) = {}
  BY <1>0
    DEF TypeOK, TaskTypes, InHand, EventHandler, TakeKey, FocusClear, Attend, Decide, Meets, Send,
        TakeUp, Resync, TakeDown, TakeState, DisarmIn, DisarmOut, Reset, Receive
<1>2. pendingQ' = pendingQ => Waiting' = Waiting BY <1>0, <1>1, WaitingSplit
<1>3. None \notin Requests /\ Requests \cap Notices = {} BY ThreadsAssumption DEF Alerts
<1>4. pc[Loop] \notin Marking => hand[Loop] = None \/ pc[Loop] \in HandPCs
  BY <1>0 DEF TasksRight, CarriesRight
<1> USE DEF TypeOK, TaskTypes
<1>12. ASSUME ~Decide, ~TakeKey PROVE Aimed' = Aimed
  BY <1>0, <1>12
    DEF Aimed, EventHandler, FocusClear, Attend, Send, TakeUp, Resync, TakeDown, TakeState,
        DisarmIn, DisarmOut, Reset, Receive, FreeSlot
<1>5. CASE TakeKey \/ Attend \/ TakeUp \/ Resync \/ TakeDown \/ TakeState
  <2>1. Taken' = Taken
    BY <1>0, <1>4, <1>5
      DEF Taken, Marking, HandPCs, TakeKey, Attend, TakeUp, Resync, TakeDown, TakeState, Receive
  <2>2. CASE Aimed' = Aimed
    BY <1>0, <1>1, <1>5, <2>1, <2>2, QuietStep
      DEF TakeKey, Attend, TakeUp, Resync, TakeDown, TakeState
  <2>3. CASE TakeKey /\ Aimed' # Aimed
    <3>1. Aimed = None /\ Aimed' = Front /\ Front # None /\ Front' = Front
      BY <1>0, <1>3, <2>3 DEF Aimed, Front, TakeKey, Receive
    <3>2. Waiting' = Waiting BY <1>2, <2>3 DEF TakeKey
    <3> QED BY <2>1, <2>3, <3>1, <3>2, AimStep DEF TakeKey
  <2>4. ~Decide BY <1>5 DEF TakeKey, Attend, TakeUp, Resync, TakeDown, TakeState, Decide, Receive
  <2> QED BY <1>12, <1>5, <2>2, <2>3, <2>4
<1>6. CASE FocusClear
  <2>1. Taken' = Taken BY <1>0, <1>6 DEF Taken, Marking, FocusClear, FreeSlot
  <2>4. Aimed' = Aimed BY <1>12, <1>6 DEF FocusClear, Decide, TakeKey, Receive
  <2>2. CASE FreeSlot(Loop)
    BY <1>0, <1>1, <1>6, <2>1, <2>2, <2>4, FreedStep DEF FocusClear, FreeSlot
  <2>3. CASE UNCHANGED <<slot, slotTab, answer, tabOf>>
    BY <1>0, <1>1, <1>6, <2>1, <2>3, <2>4, QuietStep DEF FocusClear
  <2> QED BY <1>6, <2>2, <2>3 DEF FocusClear
<1>7. CASE Decide
  <2>1. Taken = None /\ pc'[Loop] # "decide" /\ Aimed' = None
    BY <1>0, <1>7 DEF Decide, Meets, Taken, Aimed, Marking, FreeSlot
  <2>2. CASE ~Meets /\ slot' = slot /\ answer' = answer /\ hand' = hand
             /\ pc' = [pc EXCEPT ![Loop] = "ready"]
    <3>1. Taken' = Taken BY <1>0, <2>1, <2>2 DEF Taken, Marking
    <3>2. CASE Aimed = None BY <1>0, <1>1, <1>7, <2>1, <2>2, <3>1, <3>2, QuietStep DEF Decide, Meets
    <3>3. CASE Aimed # None
      <4>1. Front' = Front /\ Waiting' = Waiting BY <1>2, <1>7, <2>2 DEF Decide, Meets, Front
      <4> QED BY <1>7, <2>1, <2>2, <3>1, <3>3, <4>1, MissStep DEF Decide, Meets
    <3> QED BY <3>2, <3>3
  <2>3. CASE Meets /\ slot \in Notices /\ FreeSlot(Loop) /\ pc' = [pc EXCEPT ![Loop] = "wipe"]
    <3>1. Taken' = Taken BY <1>0, <2>1, <2>3 DEF Taken, Marking
    <3>2. Aimed' = Aimed BY <1>3, <2>1, <2>3 DEF Aimed, Meets
    <3> QED BY <1>0, <1>1, <1>7, <2>3, <3>1, <3>2, FreedStep DEF Decide, Meets, FreeSlot
  <2>4. CASE Meets /\ slot \in Requests /\ hand' = [hand EXCEPT ![Loop] = slot] /\ slot' = None
             /\ pc'[Loop] \in {"mark", "send"} /\ answer' = answer
    <3>1. Aimed # None /\ Front = Aimed /\ Taken' = Front /\ Front' = None
      BY <1>0, <1>3, <1>7, <2>4 DEF Taken, Front, Aimed, Marking, Meets, Decide
    <3> QED BY <1>2, <1>7, <2>1, <2>4, <3>1, PressStep DEF Decide, Meets
  <2> QED BY <1>0, <1>7, <2>2, <2>3, <2>4 DEF Decide, Meets
<1>8. CASE Send
  <2>1. hand[Loop] \in Requests BY <1>8 DEF Send, TasksRight, LoopRight
  <2>2. Taken = hand[Loop] /\ Taken # None /\ Taken' = None
    BY <1>0, <1>3, <1>8, <2>1 DEF Send, Taken, Marking
  <2>3. PICK v \in {"allow", "deny"} : answer' = Woken({Taken}, v) BY <1>8, <2>2 DEF Send
  <2>4. Front' = Front BY <1>8 DEF Send, Front
  <2>5. Aimed' = Aimed BY <1>12, <1>8 DEF Send, Decide, TakeKey, Receive
  <2> QED BY <1>2, <1>8, <2>2, <2>3, <2>4, <2>5, AnswerStep DEF Send
<1>9. CASE DisarmIn
  <2>1. Taken' = Taken BY <1>0, <1>9 DEF Taken, Marking, DisarmIn
  <2>2. Front' = Front BY <1>9 DEF DisarmIn, Front
  <2>3. Aimed' = Aimed BY <1>12, <1>9 DEF DisarmIn, Decide, TakeKey, Receive
  <2> QED BY <1>2, <1>9, <2>1, <2>2, <2>3, EnrollStep DEF DisarmIn
<1>10. CASE DisarmOut
  <2>1. Taken' = Taken BY <1>0, <1>10 DEF Taken, Marking, DisarmOut
  <2>2. Aimed' = Aimed BY <1>12, <1>10 DEF DisarmOut, Decide, TakeKey, Receive
  <2> QED BY <1>0, <1>1, <1>10, <2>1, <2>2, QuietStep DEF DisarmOut
<1>11. CASE Reset
  <2>1. Taken' = Taken BY <1>0, <1>11 DEF Taken, Marking, Reset
  <2>2. PICK E \in SUBSET Requests :
          /\ Waiting = pendingQ.in \cup E /\ Waiting' = pendingQ'.in \cup E
          /\ E \cap pendingQ.in = {} /\ slot \notin Waiting
    BY <1>0, <1>1, WaitingSplit
  <2> DEFINE S == pendingQ.in \cup ({Front} \ {None})
  <2>3. Waiting' = Waiting \ S /\ S \subseteq Waiting \cup ({Front} \ {None})
    BY <1>11, <2>2 DEF Reset, QueueAfterReset, EmptyDeque, Front
  <2>4. answer' = Woken(S, "dropped") BY <1>3, <1>11 DEF Reset, Woken, Front
  <2>5. Front' = IF Front \in S THEN None ELSE Front BY <1>3, <1>11 DEF Reset, Front
  <2>6. Aimed' = Aimed BY <1>12, <1>11 DEF Reset, Decide, TakeKey, Receive
  <2> QED BY <1>11, <2>1, <2>3, <2>4, <2>5, <2>6, WithdrawStep DEF Reset
<1> QED BY <1>5, <1>6, <1>7, <1>8, <1>9, <1>10, <1>11 DEF EventHandler

\* Of the surroundings, a hook whose call is abandoned stops waiting, or drops
\* what it has in its hands.
LEMMA SurroundingsOnDesk ==
  ASSUME TypeOK, TasksRight, TasksRight', SendersRight, Aimed' = Aimed, Surroundings
  PROVE  DeskStep
<1> USE DEF TypeOK, TaskTypes
<1>1. ASSUME NEW r \in Requests, Hangup(r) PROVE DeskStep
  <2>0. r \in Threads /\ r # Loop BY ThreadsAssumption DEF Threads
  <2>1. OthersSame(r) BY <1>1 DEF OthersSame, Same, Hangup
  <2>2. Taken' = Taken BY <2>0, <2>1 DEF Taken, OthersSame, Same, Threads
  <2>3. InHand(r)' = InHand(r) BY <1>1, <2>0 DEF InHand, Hangup
  <2>4. Waiting' = Waiting BY <1>1, <2>0, <2>1, <2>3, WaitingSplit DEF Hangup
  <2>5. Front' = Front BY <1>1 DEF Hangup, Front
  <2>6. CASE answer[r] = "open" BY <1>1, <2>2, <2>4, <2>5, <2>6, ExpireStep DEF Hangup
  <2>7. CASE answer[r] # "open"
    <3>1. answer' = answer BY <1>1, <2>7 DEF Hangup, RequestTypes
    <3> QED BY <1>1, <2>2, <2>4, <2>5, <3>1, NoDeskStep DEF Hangup
  <2> QED BY <2>6, <2>7
<1>2. ASSUME NEW t \in Requests \cup Notices, Abandon(t) PROVE DeskStep
  <2>0. t \in Threads /\ t # Loop BY ThreadsAssumption DEF Threads
  <2>1. OthersSame(t) BY <1>2 DEF OthersSame, Same, Abandon
  <2>2. Taken' = Taken BY <2>0, <2>1 DEF Taken, OthersSame, Same, Threads
  <2>3. InHand(t)' = {} /\ answer' = Woken(InHand(t), "dropped")
    BY <1>2, <2>0 DEF InHand, Abandon
  <2>4. PICK E \in SUBSET Requests :
          /\ Waiting = pendingQ.in \cup InHand(t) \cup E
          /\ Waiting' = pendingQ'.in \cup InHand(t)' \cup E
          /\ E \cap InHand(t) = {} /\ InHand(t) \cap pendingQ.in = {}
          /\ slot \notin Waiting
    BY <2>0, <2>1, WaitingSplit
  <2>5. InHand(t) \subseteq Waiting /\ Waiting' = Waiting \ InHand(t)
    BY <1>2, <2>3, <2>4 DEF Abandon
  <2>6. Front \notin InHand(t)
    BY <2>0, <2>4, ThreadsAssumption DEF Front, InHand, TasksRight, CarriesRight, Alerts
  <2>7. Front' = Front BY <1>2 DEF Abandon, Front
  <2> QED BY <1>2, <2>2, <2>3, <2>5, <2>6, <2>7, WithdrawStep DEF Abandon
<1>3. CASE (\E k \in Keys : Press(k)) \/ Unplug \/ Plug \/ Flip
  <2>1. Front' = Front /\ Taken' = Taken /\ Waiting' = Waiting
    BY <1>3 DEF Press, Unplug, Plug, Flip, daemonVars, Front, Taken, Waiting, Carried
  <2> QED BY <1>3, <2>1, NoDeskStep DEF Press, Unplug, Plug, Flip, daemonVars
<1> QED BY <1>1, <1>2, <1>3 DEF Surroundings

-----------------------------------------------------------------------------
\* The refinement.

\* The desk is empty at first.
LEMMA InitOnDesk == Init => Desk!Init
<1> SUFFICES ASSUME Init PROVE Desk!Init OBVIOUS
<1>1. Front = None BY DEF Init, Front
<1>2. Taken = None /\ Aimed = None BY DEF Init, Taken, Aimed, Marking, Threads
<1>3. Waiting = {}
  BY ThreadsAssumption DEF Init, Waiting, Carried, EmptyDeque, Alerts
<1>4. answer = [r \in Requests |-> "unsent"] /\ response = [r \in Requests |-> "none"] /\ optIn = {}
  BY DEF Init
<1> QED BY <1>1, <1>2, <1>3, <1>4 DEF Desk!Init, Front, Aimed, Taken, Waiting, Marking

\* Only the event loop reads keys against alerts.
LEMMA AimKept ==
  ASSUME TypeOK, NEW t \in Threads, t # Loop, OthersSame(t),
         \/ Routine(t) \/ Mark(t) \/ Unmark(t) \/ Request(t)
         \/ Raise(t) \/ Hook(t) \/ NewJob(t)
  PROVE  Aimed' = Aimed
<1>1. pc'[Loop] = pc[Loop] BY DEF OthersSame, Same, Threads
<1>2. CASE Routine(t)
  BY <1>1, <1>2
    DEF Aimed, Routine, Wipe, Pop, PopNothing, Check, InstallNext, PeekSlot, TakeIdle, TakeNoIdle,
        Place, Requeue, Emit, Prune, Relock, Move, loopVars
<1>3. CASE Mark(t) \/ Unmark(t) BY <1>1, <1>3 DEF Aimed, Mark, Unmark, loopVars
<1>4. CASE Request(t)
  BY <1>1, <1>4 DEF Aimed, Request, Gate, Enrolled, Park, Timeout, Settle, Respond, loopVars
<1>5. CASE Raise(t) BY <1>1, <1>5 DEF Aimed, Raise, loopVars
<1>6. CASE Hook(t)
  BY <1>1, <1>6
    DEF Aimed, Hook, PurgePending, PurgeIdle, CancelIdle, LeaveOptIn, LeaveOptOut, loopVars
<1>7. CASE NewJob(t)
  BY <1>1, <1>7
    DEF Aimed, NewJob, Submit, Progress, ToolStep, Cancel, Tick, FocusIn, FocusOut, Join, Exit,
        loopVars
<1> QED BY <1>2, <1>3, <1>4, <1>5, <1>6, <1>7

\* Nor do its other routines.
LEMMA LoopAimKept ==
  ASSUME TypeOK, Routine(Loop) \/ Mark(Loop) \/ Unmark(Loop)
  PROVE  Aimed' = Aimed
<1>1. pc[Loop] # "decide"
  BY DEF Routine, Wipe, Pop, PopNothing, Check, InstallNext, PeekSlot, TakeIdle, TakeNoIdle,
         Place, Requeue, Emit, Prune, Relock, Move, Mark, Unmark
<1>2. Loop \in Threads BY DEF Threads
<1>3. pc'[Loop] # "decide"
  BY <1>2
    DEF Routine, Wipe, Pop, PopNothing, Check, InstallNext, PeekSlot, TakeIdle, TakeNoIdle,
        Place, Requeue, Emit, Prune, Relock, Move, AfterWipe, AfterPrompts, AfterPlace,
        AfterEmit, Mark, Unmark, TypeOK, TaskTypes, Rets
<1> QED BY <1>1, <1>3 DEF Aimed

\* Nor do the surroundings.
LEMMA SurroundingsAimKept ==
  ASSUME TypeOK, Surroundings
  PROVE  Aimed' = Aimed
<1>1. ASSUME NEW t \in Requests \cup Notices, Hangup(t) \/ Abandon(t) PROVE Aimed' = Aimed
  <2>1. t # Loop BY ThreadsAssumption
  <2>2. pc'[Loop] = pc[Loop] BY <1>1, <2>1 DEF Hangup, Abandon, TypeOK, TaskTypes, Threads
  <2>3. aim' = aim BY <1>1 DEF Hangup, Abandon, loopVars
  <2> QED BY <2>2, <2>3 DEF Aimed
<1>2. CASE (\E k \in Keys : Press(k)) \/ Unplug \/ Plug \/ Flip
  BY <1>2 DEF Aimed, Press, Unplug, Plug, Flip, daemonVars
<1> QED BY <1>1, <1>2 DEF Surroundings

\* Every step of the daemon is a step of the desk, or none.
LEMMA NextOnDesk == Typed /\ Typed' /\ SendersRight /\ RepliesRight /\ [Next]_vars => DeskStep
<1> SUFFICES ASSUME TypeOK, TasksRight, TypeOK', TasksRight', SendersRight, RepliesRight,
                    [Next]_vars
             PROVE  DeskStep
  BY DEF Typed
<1>1. ASSUME NEW r \in Requests, RequestStep(r) PROVE DeskStep
  <2>1. r \in Threads /\ r # Loop /\ r \in Requests \cup {Loop} BY ThreadsAssumption DEF Threads
  <2>2. OthersSame(r)
    BY <1>1, <2>1, RoutineOthers, RequestOthers, MarksOthers DEF RequestStep
  <2>3. Aimed' = Aimed BY <1>1, <2>1, <2>2, AimKept DEF RequestStep
  <2> QED BY <1>1, <2>1, <2>3, RoutineOnDesk, RequestOnDesk, MarksOnDesk DEF RequestStep
<1>2. ASSUME NEW n \in Notices, NoticeStep(n) PROVE DeskStep
  <2>1. n \in Threads /\ n # Loop BY ThreadsAssumption DEF Threads
  <2>2. OthersSame(n) BY <1>2, <2>1, RoutineOthers, RaiseOthers DEF NoticeStep
  <2>3. Aimed' = Aimed BY <1>2, <2>1, <2>2, AimKept DEF NoticeStep
  <2> QED BY <1>2, <2>1, <2>3, RoutineOnDesk, RaiseOnDesk DEF NoticeStep
<1>3. ASSUME NEW h \in Hooks, HookStep(h) \/ NewJob(h) PROVE DeskStep
  <2>1. h \in Threads /\ h # Loop BY ThreadsAssumption DEF Threads
  <2>2. OthersSame(h) BY <1>3, <2>1, RoutineOthers, HookOthers, NewJobOthers DEF HookStep
  <2>3. Aimed' = Aimed BY <1>3, <2>1, <2>2, AimKept DEF HookStep
  <2> QED BY <1>3, <2>1, <2>3, RoutineOnDesk, HookOnDesk, NewJobOnDesk DEF HookStep
<1>4. CASE LoopStep
  <2>1. Loop \in Threads /\ Loop \in Requests \cup {Loop} BY DEF Threads
  <2> QED BY <1>4, <2>1, LoopAimKept, RoutineOnDesk, EventHandlerOnDesk, MarksOnDesk DEF LoopStep
<1>5. CASE Surroundings BY <1>5, SurroundingsAimKept, SurroundingsOnDesk
<1>6. CASE UNCHANGED vars
  <2>1. Front' = Front /\ Aimed' = Aimed /\ Taken' = Taken /\ Waiting' = Waiting
    BY <1>6 DEF vars, loopVars, Front, Aimed, Taken, Waiting, Carried
  <2> QED BY <1>6, <2>1, NoDeskStep DEF vars
<1> QED BY <1>1, <1>2, <1>3, <1>4, <1>5, <1>6 DEF Next

\* The daemon implements the prompt desk, whatever its hooks, wrappers, keys and
\* cables do and however they interleave: a key settles the prompt it was read against
\* or none, only the wrapper's enrollment approves a prompt that waits, a verdict is
\* never changed, and Claude is told what the verdict says (alerts.rs, hooks.rs).
THEOREM DaemonKeepsThePromise == Spec => KeepsThePromise
BY InitOnDesk, NextOnDesk, AlwaysTyped, AlwaysSendersRight, AlwaysRepliesRight, PTL
   DEF Spec, KeepsThePromise, Desk!Spec, DeskStep
=============================================================================
