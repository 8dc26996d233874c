------------------------------- MODULE Prompts -------------------------------
(***************************************************************************)
(* The daemon's prompt handling as a whole: permission hooks, other hooks, *)
(* wrapper connections and the event loop, running concurrently on the     *)
(* alert slot, in front of a user with a device that can be unplugged.     *)
(***************************************************************************)
EXTENDS PermissionHook, ProgressHooks, EventLoop

CONSTANTS
  Jobs,      \* the kinds of jobs the Hooks threads take
  Keys,      \* the keys the user presses
  World,     \* what else the surroundings do: "plug", "flip", "hangup", "abandon"
  Armed,     \* positions the Auto-approve switch may be in at the start
  MaxInbox   \* bound: events the HID thread may have queued

JobKinds == {"submit", "progress", "tool", "tick", "focus", "wrapper"}
ASSUME WorldAssumption ==
  /\ Jobs \subseteq JobKinds /\ Keys \subseteq KeyNames
  /\ World \subseteq {"plug", "flip", "hangup", "abandon"}
  /\ Armed \subseteq BOOLEAN /\ MaxInbox \in Nat

vars == <<slot, slotTab, queueVars, answer, requestVars, wrapperVars, enrollVars, statusVars,
          deviceVars, loopVars, pc, ret, hand, tabOf, hookVars, snapVars>>

\* The daemon is up, the device is connected and has reported its switch (a
\* first report enrolls nobody), every session has its wrapper.
Init ==
  /\ slot = None /\ slotTab = 0 /\ pendingQ = EmptyDeque /\ idleQ = EmptyDeque
  /\ answer = [r \in Requests |-> "unsent"] /\ response = [r \in Requests |-> "none"]
  /\ asks = {} /\ bound = {}
  /\ live = Sessions /\ focused = {}
  /\ optIn = {} /\ optOut = {}
  /\ yolo \in Armed /\ switch = yolo /\ connected = TRUE /\ synced = TRUE
  /\ hidUp = TRUE /\ screen = {}
  /\ inbox = <<>> /\ key = NoKey /\ aim = None
  /\ pc = [t \in Threads |->
             IF t = Loop THEN "ready" ELSE IF t \in Hooks THEN "idle" ELSE "start"]
  /\ ret = [t \in Threads |->
              IF t = Loop THEN "ready" ELSE IF t \in Hooks THEN "idle" ELSE "done"]
  /\ hand = [t \in Threads |-> None] /\ tabOf = [t \in Threads |-> NoTab]
  /\ scope = [t \in Threads |-> "none"] /\ arg = [t \in Threads |-> None]
  /\ snap = [t \in Threads |-> {}] /\ seen = [t \in Threads |-> None]

-----------------------------------------------------------------------------
\* The surroundings

daemonVars == <<slot, slotTab, queueVars, answer, requestVars, wrapperVars, enrollVars,
                statusVars, key, aim, pc, ret, hand, tabOf, hookVars, snapVars>>

Room == Len(inbox) < MaxInbox
Report(on) == Event(IF on THEN "on" ELSE "off")

\* The user presses a key.
Press(k) ==
  /\ hidUp /\ Room
  /\ inbox' = Append(inbox, Event(k))
  /\ UNCHANGED <<daemonVars, deviceVars>>

\* The HID thread loses the device: a pulled cable wipes its RAM, a dead link
\* does not.
Unplug ==
  /\ "plug" \in World /\ hidUp /\ Room
  /\ hidUp' = FALSE /\ screen' \in {screen, {}}
  /\ inbox' = Append(inbox, Event("down"))
  /\ UNCHANGED <<daemonVars, switch>>

\* The HID thread opens the device again; its first state report is read while
\* the protocol is probed, or after.
Plug ==
  /\ "plug" \in World /\ ~hidUp /\ Room
  /\ hidUp' = TRUE
  /\ \E first \in {<<Event("up"), Report(switch)>>, <<Report(switch), Event("up")>>} :
       inbox' = inbox \o first
  /\ UNCHANGED <<daemonVars, screen, switch>>

\* The user flips the Auto-approve switch; a connected device reports it.
Flip ==
  /\ "flip" \in World /\ Room
  /\ switch' = ~switch
  /\ inbox' = IF hidUp THEN Append(inbox, Report(~switch)) ELSE inbox
  /\ UNCHANGED <<daemonVars, hidUp, screen>>

\* Claude abandons the HTTP call: the parked handler is dropped where it waits,
\* and nothing it would have done afterwards is done.
Hangup(r) ==
  /\ "hangup" \in World /\ pc[r] = "parked"
  /\ answer' = [answer EXCEPT ![r] = IF @ = "open" THEN "closed" ELSE @]
  /\ Goto(r, "done")
  /\ UNCHANGED <<slot, slotTab, queueVars, requestVars, wrapperVars, enrollVars, statusVars,
                 deviceVars, loopVars, ret, hand, tabOf, hookVars, snapVars>>

\* The same at any other wait of a hook, for a lock or the device: whatever the
\* handler has in its hands is dropped, and the routine it is in stays undone.
Abandon(t) ==
  /\ "abandon" \in World /\ pc[t] \notin {"start", "parked", "done"}
  /\ answer' = Woken(IF pc[t] \in {"check", "install"} THEN {hand[t]} ELSE {}, "dropped")
  /\ Goto(t, "done")
  /\ Take(t, None) /\ Aim(t, NoTab)
  /\ snap' = [snap EXCEPT ![t] = {}] /\ seen' = [seen EXCEPT ![t] = None]
  /\ UNCHANGED <<slot, slotTab, queueVars, requestVars, wrapperVars, enrollVars, statusVars,
                 deviceVars, loopVars, ret, hookVars>>

\* A Hooks thread is given a job.
NewJob(h) ==
  \E s \in Sessions :
    \/ "submit" \in Jobs /\ Submit(h, s)
    \/ "progress" \in Jobs /\ Progress(h, s)
    \/ "tool" \in Jobs /\ \E tool \in Tools : ToolStep(h, s, tool)
    \/ "tick" \in Jobs /\ Tick(h)
    \/ "focus" \in Jobs /\ (FocusIn(h, s) \/ FocusOut(s))
    \/ "wrapper" \in Jobs /\ (Join(h, s) \/ Exit(h, s))

-----------------------------------------------------------------------------
RequestStep(r) == Routine(r) \/ Request(r) \/ Mark(r) \/ Unmark(r)
NoticeStep(n)  == Routine(n) \/ Raise(n)
HookStep(h)    == Routine(h) \/ Hook(h)
LoopStep       == Routine(Loop) \/ EventHandler \/ Mark(Loop) \/ Unmark(Loop)
Surroundings ==
  \/ \E k \in Keys : Press(k)
  \/ Unplug \/ Plug \/ Flip
  \/ \E r \in Requests : Hangup(r)
  \/ \E t \in Requests \cup Notices : Abandon(t)

Next ==
  \/ \E r \in Requests : RequestStep(r)
  \/ \E n \in Notices : NoticeStep(n)
  \/ \E h \in Hooks : HookStep(h) \/ NewJob(h)
  \/ LoopStep
  \/ Surroundings

Spec == Init /\ [][Next]_vars

\* The runtime polls every task that can go on, and timers fire.  The user, the
\* device and Claude owe the daemon nothing.
Fairness ==
  /\ \A r \in Requests : WF_vars(RequestStep(r))
  /\ \A n \in Notices : WF_vars(NoticeStep(n))
  /\ \A h \in Hooks : WF_vars(HookStep(h))
  /\ WF_vars(LoopStep)

FairSpec == Spec /\ Fairness

-----------------------------------------------------------------------------
\* Types

RoutinePCs == {"wipe", "pop", "check", "install", "popIdle", "takeIdle", "place", "requeue",
               "emit", "prune", "relock", "move"}
RequestPCs == RoutinePCs \cup {"start", "gate", "park", "parked", "respond",
                               "mark", "unmark", "done"}
NoticePCs  == RoutinePCs \cup {"start", "done"}
HookPCs    == RoutinePCs \cup {"idle", "purge", "purgeIdle", "cancelIdle", "leaveIn", "leaveOut"}
LoopPCs    == RoutinePCs \cup {"ready", "focusClear", "attend", "decide", "mark", "unmark",
                               "send", "resync", "disarmIn", "disarmOut", "reset"}
PCs == RequestPCs \cup NoticePCs \cup HookPCs \cup LoopPCs
Rets == {"respond", "done", "emit", "purgeIdle", "idle", "attend", "ready"}
Tabs == Nat
Events == [what : EventNames]
Deques(S) == [in : SUBSET S, ahead : SUBSET (S \X S)]

AlertTypes ==
  /\ slot \in Alerts \cup {None} /\ slotTab \in Tabs
  /\ pendingQ \in Deques(Requests) /\ idleQ \in Deques(Notices)
RequestTypes ==
  /\ answer \in [Requests -> {"unsent", "open", "allow", "deny", "dropped", "closed"}]
  /\ response \in [Requests -> {"none", "allow", "deny", "pass"}]
  /\ asks \subseteq Requests /\ bound \subseteq Requests
WrapperTypes ==
  /\ live \subseteq Sessions /\ focused \subseteq Sessions
  /\ optIn \subseteq Sessions /\ optOut \subseteq Sessions
DeviceTypes ==
  /\ yolo \in BOOLEAN /\ connected \in BOOLEAN /\ synced \in BOOLEAN
  /\ hidUp \in BOOLEAN /\ switch \in BOOLEAN /\ screen \subseteq Tabs \X Alerts
LoopTypes ==
  /\ inbox \in Seq(Events) /\ key \in Events \cup {NoKey} /\ aim \in Alerts \cup {None}
TaskTypes ==
  /\ pc \in [Threads -> PCs] /\ ret \in [Threads -> Rets]
  /\ hand \in [Threads -> Alerts \cup {None}] /\ tabOf \in [Threads -> Tabs \cup {NoTab}]
  /\ scope \in [Threads -> {"none", "idle", "pending", "all"}]
  /\ arg \in [Threads -> Sessions \cup {None}]
  /\ snap \in [Threads -> SUBSET Sessions] /\ seen \in [Threads -> Sessions \cup {None}]

\* Every variable has its type: in particular the pending queue holds only
\* permission prompts, the idle queue only notices, and no alert is ever drawn
\* on a tab that does not exist (alerts.rs).
TypeOK ==
  AlertTypes /\ RequestTypes /\ WrapperTypes /\ DeviceTypes /\ LoopTypes /\ TaskTypes

-----------------------------------------------------------------------------
\* Nobody waits in vain

\* Where the thread has the sender of a prompt in its hands.
Carries(t, r) ==
  /\ hand[t] = r
  /\ pc[t] \in {"check", "install"} \/ (t = Loop /\ pc[t] \in {"mark", "unmark", "send"})

\* The sender of r is in one of the places that keep senders.
Kept(r) == slot = r \/ r \in pendingQ.in \/ \E t \in Threads : Carries(t, r)

\* A parked handler that nobody has answered is always within reach of an
\* answer: its sender is in the slot, in the queue or with a task, and in one
\* of them only.
OneHolder ==
  \A r \in Requests :
    /\ answer[r] = "open" => Kept(r)
    /\ ~(slot = r /\ r \in pendingQ.in)
    /\ \A t \in Threads : Carries(t, r) =>
         /\ slot # r /\ r \notin pendingQ.in
         /\ \A u \in Threads : Carries(u, r) => u = t

\* The thread is on its way to try_install_next_pending, or in it.
Promoting(t) ==
  \/ pc[t] \in {"wipe", "pop", "check", "install"}
  \/ t = Loop /\ pc[t] \in {"mark", "unmark", "send"} /\ hand[t] # None
  \/ t \in Hooks /\ pc[t] \in {"purge", "purgeIdle"} /\ tabOf[t] # NoTab

\* A queue of prompts behind an empty slot is never left to itself: the task
\* that emptied the slot, or another, is about to promote the next one.
NobodyStranded == slot = None /\ pendingQ.in # {} => \E t \in Threads : Promoting(t)

\* The thread waits for something outside the daemon, or has ended.
AtRest(t) ==
  \/ pc[t] \in {"start", "idle", "ready", "done"}
  \/ pc[t] = "parked" /\ answer[t] = "open"
Quiet == \A t \in Threads : AtRest(t)

\* When the daemon has nothing left to do, an empty slot means that no prompt
\* and no notice is waiting for it; every notice was shown or discarded.
NothingWaitsWhenQuiet ==
  Quiet /\ slot = None => pendingQ.in = {} /\ idleQ.in = {}

\* The idle queue keeps one notice per session (queue_idle), within its cap.
OneNoticePerSession ==
  /\ Cardinality(idleQ.in) <= IdleCap
  /\ \A m, n \in idleQ.in : SessionOf[m] = SessionOf[n] => m = n

-----------------------------------------------------------------------------
\* What the user is shown, and what it is worth

\* Thread t has yet to clear tab n, after it freed the slot.
Wiping(t, n) == tabOf[t] = n /\ pc[t] \in {"wipe", "mark", "unmark", "send"}

\* While tabs and device stay as they are, the device shows the live alert, or
\* an alert that the task which freed the slot is about to clear: it never shows
\* one prompt while the daemon would apply the key to another on that tab
\* (the race try_install_next_pending is written against).
ScreenIsHonest ==
  \A p \in screen : p = <<slotTab, slot>> \/ \E t \in Threads : Wiping(t, p[1])

\* After any unplugging and replugging, a daemon at rest leaves no phantom: what
\* the device shows is the live alert (resync_device).
NoPhantomWhenQuiet ==
  Quiet /\ hidUp /\ inbox = <<>> => screen \subseteq {<<slotTab, slot>>}

\* A wrapper is in both enrollment sets only while a task is between the two
\* halves of its mark: no order of marks, clears and exits leaves it in both.
ExclusiveUnlessMarking ==
  \A s \in optIn \cap optOut : \E t \in Threads : pc[t] = "unmark" /\ Marked(t) = s

\* The daemon implements the prompt desk.
Carried == {r \in Requests : \E t \in Threads : hand[t] = r /\ pc[t] \in {"check", "install"}}
Desk == INSTANCE PromptDesk WITH
  Nobody   <- None,
  front    <- IF slot \in Requests THEN slot ELSE None,
  aimed    <- IF pc[Loop] = "decide" /\ aim \in Requests THEN aim ELSE None,
  taken    <- IF pc[Loop] \in {"mark", "unmark", "send"} THEN hand[Loop] ELSE None,
  waiting  <- pendingQ.in \cup Carried,
  verdict  <- answer,
  reply    <- response,
  enrolled <- optIn

\* The user's key settles the prompt it was read against or none, whatever took its
\* place between the two holds of the alert lock; nothing but enrollment
\* approves a waiting one, and replies say what the verdicts say.
KeepsThePromise == Desk!Spec

\* Every PermissionRequest hook is answered in the end.
EveryRequestAnswered == \A r \in Requests : pc[r] = "start" ~> pc[r] = "done"
=============================================================================
