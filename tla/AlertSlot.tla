------------------------------ MODULE AlertSlot ------------------------------
(***************************************************************************)
(* The alert slot of the daemon (alerts.rs): one overlay on the device, a  *)
(* queue of permission prompts and a queue of idle notices behind it, and  *)
(* the routines every concurrent task runs on them: promotion after the    *)
(* slot frees, idle installs, and reconciliation with the tab list.        *)
(*                                                                         *)
(* A task is a thread.  A step of a thread is what the code does under one *)
(* hold of a lock, with the reads that follow it before the next write, so *)
(* any other thread may run between two steps of a thread.  Device calls   *)
(* made while the alert lock is held belong to the step; those made after  *)
(* its release are steps of their own (Wipe, Move).                        *)
(***************************************************************************)
EXTENDS Integers, FiniteSets, Deque

CONSTANTS
  Requests,   \* PermissionRequest hooks; one thread each, also its alert's id
  Notices,    \* idle notices; one hook thread each, also its alert's id
  Hooks,      \* worker tasks: any other hook, or a wrapper's connection
  Loop,       \* the HID event loop
  Sessions,   \* Claude sessions, each in a wrapper of its own
  None,       \* no alert, no session
  SessionOf,  \* session of a request or notice
  Rank,       \* wrappers are listed by start time, ties by id
  Tools, UserInputTools, ToolOf,
  Questions,  \* notices of an AskUserQuestion; the others are "waiting" ones
  Blind,      \* sessions in a terminal without focus reports
  PendingCap, IdleCap

Alerts  == Requests \cup Notices
Threads == Requests \cup Notices \cup Hooks \cup {Loop}

ASSUME ThreadsAssumption ==
  /\ Requests \cap Notices = {} /\ Requests \cap Hooks = {} /\ Notices \cap Hooks = {}
  /\ Loop \notin (Requests \cup Notices \cup Hooks)
  /\ None \notin (Alerts \cup Sessions)

ASSUME SessionsAssumption ==
  /\ IsFiniteSet(Sessions)
  /\ SessionOf \in [Alerts -> Sessions]
  /\ Rank \in [Sessions -> Nat]
  /\ \A s, u \in Sessions : Rank[s] = Rank[u] => s = u
  /\ Questions \subseteq Notices /\ Blind \subseteq Sessions

ASSUME ToolsAssumption == ToolOf \in [Requests -> Tools] /\ UserInputTools \subseteq Tools

ASSUME CapAssumption == PendingCap \in Nat \ {0} /\ IdleCap \in Nat \ {0}

VARIABLES
  slot, slotTab,            \* alert_state: the live alert and its tab
  pendingQ, idleQ,          \* pending_queue, idle_queue
  answer, response,         \* the oneshot of a request; what its hook replies
  asks, bound,              \* requests that ask for enrollment; that found a wrapper
  live, focused,            \* sessions whose wrapper is registered; is_focused
  optIn, optOut,            \* yolo_opt_in, yolo_opt_out
  yolo, connected, synced,  \* device_status: yolo, connected, mode_initialized
  hidUp, screen, switch,    \* the device: reachable, <<tab, alert>> shown, YOLO switch
  inbox, key, aim,          \* HID events not yet handled; the key in hand, its alert
  pc, ret,                  \* where a thread is; where it goes after a routine
  hand,                     \* the alert a thread popped, took or copied
  tabOf,                    \* the tab it is to write or clear, NoTab if none
  scope, arg,               \* what its hook still has to purge, and of which session
  snap, seen                \* refresh_for_tabs: tab list, session of the live alert

queueVars   == <<pendingQ, idleQ>>
requestVars == <<response, asks, bound>>
wrapperVars == <<live, focused>>
enrollVars  == <<optIn, optOut>>
statusVars  == <<yolo, connected, synced>>
deviceVars  == <<hidUp, screen, switch>>
loopVars    == <<inbox, key, aim>>
hookVars    == <<scope, arg>>
snapVars    == <<snap, seen>>

-----------------------------------------------------------------------------
\* Tabs

NoTab == -1

\* Position of session s among the wrappers of S in the order of the tab list.
\* (Mutant: the wrapper itself is left out of the count.)
PositionOffByOne(S, s) == Cardinality({u \in S : Rank[u] < Rank[s]}) - 1
Position(S, s) == Cardinality({u \in S : Rank[u] < Rank[s]})

\* tab_index_for_session(..).unwrap_or(0)
Tab(s) == IF s \in live THEN Position(live, s) ELSE 0

\* What the device shows after send_alert(tab, a) and after clear_alert(tab).
Shown(tab, a) == {p \in screen : p[1] # tab} \cup {<<tab, a>>}
Cleared(tab)  == {p \in screen : p[1] # tab}

-----------------------------------------------------------------------------
\* Threads

Goto(t, l) == pc' = [pc EXCEPT ![t] = l]
Take(t, a) == hand' = [hand EXCEPT ![t] = a]
Aim(t, n)  == tabOf' = [tabOf EXCEPT ![t] = n]

\* Senders in S are sent v, or dropped: a waiting receiver wakes, one that
\* has gone away notices nothing.
Woken(S, v) == [r \in Requests |-> IF r \in S /\ answer[r] = "open" THEN v ELSE answer[r]]

\* `*guard = AlertState::None`: a Pending alert's sender goes with it.
\* (Mutant: the tab is read after the reset.)
FreeSlotReadsLate(t) ==
  slot' = None /\ slotTab' = 0 /\ answer' = Woken({slot}, "dropped") /\ Aim(t, slotTab')
FreeSlot(t) ==
  /\ slot' = None /\ slotTab' = 0
  /\ answer' = Woken({slot}, "dropped")
  /\ Aim(t, slotTab)

\* `*guard = ..` after a successful send_alert, under the alert lock.
Install(a, tab) == slot' = a /\ slotTab' = tab /\ screen' = Shown(tab, a)

\* Whoever freed the slot promotes the next alert, hooks once they have purged
\* the queues.  (Mutant: nothing is promoted.)
AfterWipeNothing(t) == ret[t]
AfterWipe(t) == IF scope[t] \in {"pending", "all"} THEN "purge" ELSE "pop"

\* The alert lock is gone by the time the device tab is cleared.
Wipe(t) ==
  /\ pc[t] = "wipe"
  /\ screen' = IF hidUp THEN Cleared(tabOf[t]) ELSE screen
  /\ Goto(t, AfterWipe(t))
  /\ IF AfterWipe(t) = "purge" THEN UNCHANGED tabOf ELSE Aim(t, NoTab)
  /\ UNCHANGED <<slot, slotTab, queueVars, answer, requestVars, wrapperVars, enrollVars,
                 statusVars, hidUp, switch, loopVars, ret, hand, hookVars, snapVars>>

-----------------------------------------------------------------------------
\* try_install_next_pending: permission prompts first, then idle notices.
\* A thread enters it at "pop" and leaves it for ret.

\* pop_front.  (Mutant: front.)
PopPeeks(t) ==
  /\ pc[t] = "pop"
  /\ \E r \in pendingQ.in : IsFront(pendingQ, r) /\ Take(t, r)
  /\ Goto(t, "check")
  /\ UNCHANGED <<slot, slotTab, queueVars, answer, requestVars, wrapperVars, enrollVars,
                 statusVars, deviceVars, loopVars, ret, tabOf, hookVars, snapVars>>
Pop(t) ==
  /\ pc[t] = "pop"
  /\ \E r \in pendingQ.in :
       /\ IsFront(pendingQ, r)
       /\ pendingQ' = Without(pendingQ, {r})
       /\ Take(t, r)
  /\ Goto(t, "check")
  /\ UNCHANGED <<slot, slotTab, idleQ, answer, requestVars, wrapperVars, enrollVars,
                 statusVars, deviceVars, loopVars, ret, tabOf, hookVars, snapVars>>

\* No prompt is queued: idle notices are next, if the slot is free.
\* (Mutant: idle notices are forgotten.)
AfterPromptsNothing(t) == ret[t]
AfterPrompts(t) == IF slot = None THEN "takeIdle" ELSE ret[t]

PopNothing(t) ==
  /\ pc[t] = "pop" /\ pendingQ.in = {}
  /\ Goto(t, AfterPrompts(t))
  /\ UNCHANGED <<slot, slotTab, queueVars, answer, requestVars, wrapperVars, enrollVars,
                 statusVars, deviceVars, loopVars, ret, hand, tabOf, hookVars, snapVars>>

\* The popped entry r is settled by the enrollment of its wrapper.
Enrollable(r) == SessionOf[r] \in live /\ ToolOf[r] \notin UserInputTools

\* (Mutant: whoever has not declined is approved.)
ApprovesUnlessDeclined(r) == Enrollable(r) /\ SessionOf[r] \notin optOut
Approves(r) == Enrollable(r) /\ SessionOf[r] \in optIn
Declines(r) == Enrollable(r) /\ SessionOf[r] \in optOut

\* tx.is_closed(), then the wrapper's enrollment: skip, approve, drop, or go on.
Check(t) ==
  LET r == hand[t]
      settled == answer[r] # "open" \/ Approves(r) \/ Declines(r)
  IN
  /\ pc[t] = "check"
  /\ answer' = IF Approves(r) THEN Woken({r}, "allow")
               ELSE IF Declines(r) THEN Woken({r}, "dropped") ELSE answer
  /\ IF settled
     THEN Goto(t, "pop") /\ Take(t, None) /\ UNCHANGED tabOf
     ELSE Goto(t, "install") /\ Aim(t, Tab(SessionOf[r])) /\ UNCHANGED hand
  /\ UNCHANGED <<slot, slotTab, queueVars, requestVars, wrapperVars, enrollVars,
                 statusVars, deviceVars, loopVars, ret, hookVars, snapVars>>

\* The slot is claimed before the device is written, all under the alert lock.
InstallNext(t) ==
  LET r == hand[t] IN
  /\ pc[t] = "install"
  /\ Take(t, None) /\ Aim(t, NoTab)
  /\ \/ /\ slot # None
        /\ pendingQ' = PushFront(pendingQ, r)
        /\ Goto(t, ret[t])
        /\ UNCHANGED <<slot, slotTab, screen, answer>>
     \/ /\ slot = None /\ hidUp
        /\ Install(r, tabOf[t])
        /\ Goto(t, ret[t])
        /\ UNCHANGED <<pendingQ, answer>>
     \/ /\ slot = None /\ ~hidUp
        /\ answer' = Woken({r}, "dropped")
        /\ Goto(t, "pop")
        /\ UNCHANGED <<slot, slotTab, screen, pendingQ>>
  /\ UNCHANGED <<idleQ, requestVars, wrapperVars, enrollVars, statusVars, hidUp, switch,
                 loopVars, ret, hookVars, snapVars>>

\* show_idle_alert skips a "waiting" notice of a session whose user is at its
\* terminal, or whose terminal could never report the focus that dismisses it.
Suppressed(n) ==
  n \notin Questions /\ SessionOf[n] \in live /\ SessionOf[n] \in focused \cup Blind

\* promote_queued_idle, once more round its loop: is the slot still free?
PeekSlot(t) ==
  /\ pc[t] = "popIdle"
  /\ Goto(t, IF slot = None THEN "takeIdle" ELSE ret[t])
  /\ UNCHANGED <<slot, slotTab, queueVars, answer, requestVars, wrapperVars, enrollVars,
                 statusVars, deviceVars, loopVars, ret, hand, tabOf, hookVars, snapVars>>

TakeIdle(t) ==
  /\ pc[t] = "takeIdle"
  /\ \E n \in idleQ.in :
       /\ IsFront(idleQ, n)
       /\ idleQ' = Without(idleQ, {n})
       /\ IF SessionOf[n] \notin live \/ Suppressed(n)
          THEN Goto(t, "popIdle") /\ UNCHANGED <<hand, tabOf>>
          ELSE Goto(t, "place") /\ Take(t, n) /\ Aim(t, Tab(SessionOf[n]))
  /\ UNCHANGED <<slot, slotTab, pendingQ, answer, requestVars, wrapperVars, enrollVars,
                 statusVars, deviceVars, loopVars, ret, hookVars, snapVars>>

TakeNoIdle(t) ==
  /\ pc[t] = "takeIdle" /\ idleQ.in = {}
  /\ Goto(t, ret[t])
  /\ UNCHANGED <<slot, slotTab, queueVars, answer, requestVars, wrapperVars, enrollVars,
                 statusVars, deviceVars, loopVars, ret, hand, tabOf, hookVars, snapVars>>

\* Where show_idle_alert returns to: its own hook, or the promotion loop.
AfterPlace(t) == IF t \in Notices /\ ret[t] = "emit" THEN "emit" ELSE "popIdle"

\* show_idle_alert under the alert lock: the notice goes live, is discarded
\* (device not connected), or has to wait.
Place(t) ==
  LET n == hand[t]
      free == slot = None \/ (slot \in Notices /\ SessionOf[slot] = SessionOf[n])
  IN
  /\ pc[t] = "place"
  /\ Aim(t, NoTab)
  /\ \/ /\ free /\ hidUp
        /\ Install(n, tabOf[t])
        /\ Take(t, None) /\ Goto(t, AfterPlace(t))
     \/ /\ free /\ ~hidUp
        /\ Take(t, None) /\ Goto(t, AfterPlace(t))
        /\ UNCHANGED <<slot, slotTab, screen>>
     \/ /\ ~free
        /\ Goto(t, "requeue")
        /\ UNCHANGED <<slot, slotTab, screen, hand>>
  /\ UNCHANGED <<queueVars, answer, requestVars, wrapperVars, enrollVars, statusVars,
                 hidUp, switch, loopVars, ret, hookVars, snapVars>>

\* queue_idle: a newer notice of a session replaces the older in place; a full
\* queue loses its oldest.
\* (Mutant: the notice itself is looked for, not its session.)
QueuedTwice(n) == {m \in idleQ.in : m = n}
QueuedFor(n) == {m \in idleQ.in : SessionOf[m] = SessionOf[n]}
Requeue(t) ==
  LET n == hand[t]
      oldest == {m \in idleQ.in : IsFront(idleQ, m)}
      full == Cardinality(idleQ.in) >= IdleCap
  IN
  /\ pc[t] = "requeue"
  /\ \/ \E m \in QueuedFor(n) : idleQ' = Replace(idleQ, m, n)
     \/ /\ QueuedFor(n) = {}
        /\ idleQ' = PushBack(IF full THEN Without(idleQ, oldest) ELSE idleQ, n)
  /\ Take(t, None) /\ Goto(t, AfterPlace(t))
  /\ UNCHANGED <<slot, slotTab, pendingQ, answer, requestVars, wrapperVars, enrollVars,
                 statusVars, deviceVars, loopVars, ret, tabOf, hookVars, snapVars>>

-----------------------------------------------------------------------------
\* emit_tab_list: snapshot the tab list, then refresh_for_tabs.

\* Where a thread goes once the tab list is out.  The connection of a wrapper
\* that reported focus still has the idle alert to cancel.
AfterEmit(t) ==
  CASE t \in Alerts -> "done"
    [] t = Loop     -> "ready"
    [] OTHER        -> IF scope[t] = "idle" THEN "purgeIdle" ELSE "idle"

Emit(t) ==
  /\ pc[t] = "emit"
  /\ snap' = [snap EXCEPT ![t] = live]
  /\ ret' = [ret EXCEPT ![t] = AfterEmit(t)]
  /\ Goto(t, "prune")
  /\ UNCHANGED <<slot, slotTab, queueVars, answer, requestVars, wrapperVars, enrollVars,
                 statusVars, deviceVars, loopVars, hand, tabOf, hookVars, seen>>

\* Queued prompts whose session is not in the tab list are dropped.  Then a first
\* look at the slot, which keeps only the session of the live alert.
Prune(t) ==
  LET gone == {r \in pendingQ.in : SessionOf[r] \notin snap[t]} IN
  /\ pc[t] = "prune"
  /\ pendingQ' = Without(pendingQ, gone)
  /\ answer' = Woken(gone, "dropped")
  /\ IF slot = None
     THEN Goto(t, "pop") /\ snap' = [snap EXCEPT ![t] = {}] /\ UNCHANGED seen
     ELSE Goto(t, "relock") /\ seen' = [seen EXCEPT ![t] = SessionOf[slot]] /\ UNCHANGED snap
  /\ UNCHANGED <<slot, slotTab, idleQ, requestVars, wrapperVars, enrollVars, statusVars,
                 deviceVars, loopVars, ret, hand, tabOf, hookVars>>

\* Second look: whatever alert is live by now is cancelled or moved to the tab
\* of the session seen at the first.
Relock(t) ==
  LET tab == Position(snap[t], seen[t]) IN
  /\ pc[t] = "relock"
  /\ \/ /\ seen[t] \notin snap[t]
        /\ FreeSlot(t) /\ Goto(t, "wipe")
        /\ UNCHANGED hand
     \/ /\ seen[t] \in snap[t] /\ tab # slotTab /\ slot # None
        /\ slotTab' = tab
        /\ Take(t, slot) /\ Aim(t, slotTab) /\ Goto(t, "move")
        /\ UNCHANGED <<slot, answer>>
     \/ /\ seen[t] \in snap[t] /\ (tab = slotTab \/ slot = None)
        /\ Goto(t, ret[t])
        /\ UNCHANGED <<slot, slotTab, answer, hand, tabOf>>
  /\ snap' = [snap EXCEPT ![t] = IF pc'[t] = "move" THEN @ ELSE {}]
  /\ seen' = [seen EXCEPT ![t] = IF pc'[t] = "move" THEN @ ELSE None]
  /\ UNCHANGED <<queueVars, requestVars, wrapperVars, enrollVars, statusVars, deviceVars,
                 loopVars, ret, hookVars>>

\* The alert is redrawn on its new tab, from the copy taken under the lock.
Move(t) ==
  /\ pc[t] = "move"
  /\ screen' = IF hidUp
               THEN {p \in Cleared(tabOf[t]) : p[1] # Position(snap[t], seen[t])}
                      \cup {<<Position(snap[t], seen[t]), hand[t]>>}
               ELSE screen
  /\ Take(t, None) /\ Aim(t, NoTab) /\ Goto(t, ret[t])
  /\ snap' = [snap EXCEPT ![t] = {}] /\ seen' = [seen EXCEPT ![t] = None]
  /\ UNCHANGED <<slot, slotTab, queueVars, answer, requestVars, wrapperVars, enrollVars,
                 statusVars, hidUp, switch, loopVars, ret, hookVars>>

\* The routines every thread can be in.
Routine(t) ==
  \/ Wipe(t) \/ Pop(t) \/ PopNothing(t) \/ Check(t) \/ InstallNext(t)
  \/ PeekSlot(t) \/ TakeIdle(t) \/ TakeNoIdle(t) \/ Place(t) \/ Requeue(t)
  \/ Emit(t) \/ Prune(t) \/ Relock(t) \/ Move(t)
=============================================================================
