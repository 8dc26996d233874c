------------------------------ MODULE EventLoop ------------------------------
(***************************************************************************)
(* The HID event loop (main.rs): it takes the events the HID thread queued *)
(* for it one by one, answers alerts with the user's keys                  *)
(* (consume_input_for_decision of alerts.rs) and follows the device's      *)
(* connection and its Auto-approve switch.                                 *)
(***************************************************************************)
EXTENDS PermissionHook, Sequences

\* Events: decision keys and the Claude button (F20), the connection, and
\* state reports of the Auto-approve switch.
KeyNames   == {"focus", "allow", "deny", "dismiss"}
EventNames == KeyNames \cup {"up", "down", "on", "off"}
Event(w)   == [what |-> w]
NoKey      == [what |-> "none"]

\* Any event but a key: only the device status changes under its lock.
Receive(what) ==
  /\ pc[Loop] = "ready" /\ inbox # <<>> /\ Head(inbox).what \in what
  /\ inbox' = Tail(inbox)

\* A decision key or F20.  The live alert is looked at once here; what the key
\* may do to it is settled under a second hold of the lock.
TakeKey ==
  LET k == Head(inbox)
      ignored == slot = None \/ (slot \in Notices /\ k.what \in {"allow", "deny"})
  IN
  /\ Receive(KeyNames)
  /\ IF ignored
     THEN UNCHANGED <<pc, key, aim>>
     ELSE /\ aim' = slot
          /\ \/ /\ k.what # "focus"
                /\ key' = k /\ Goto(Loop, "decide")
             \/ /\ k.what = "focus"
                /\ Goto(Loop, IF slot \in Notices THEN "focusClear" ELSE "attend")
                /\ UNCHANGED key
  /\ UNCHANGED <<slot, slotTab, queueVars, answer, requestVars, wrapperVars, enrollVars,
                 statusVars, deviceVars, ret, hand, tabOf, hookVars, snapVars>>

\* F20 on an idle notice clears it, unless it is no longer the live alert.
FocusClear ==
  /\ pc[Loop] = "focusClear"
  /\ ret' = [ret EXCEPT ![Loop] = "attend"]
  /\ \/ slot = aim /\ FreeSlot(Loop) /\ Goto(Loop, "wipe")
     \/ slot # aim /\ Goto(Loop, "attend") /\ UNCHANGED <<slot, slotTab, answer, tabOf>>
  /\ UNCHANGED <<queueVars, requestVars, wrapperVars, enrollVars, statusVars, deviceVars,
                 loopVars, hand, hookVars, snapVars>>

\* FocusSession: the alert's session becomes active, which sends the tab list.
Attend ==
  /\ pc[Loop] = "attend"
  /\ Goto(Loop, IF SessionOf[aim] \in live THEN "emit" ELSE "ready")
  /\ aim' = None
  /\ UNCHANGED <<slot, slotTab, queueVars, answer, requestVars, wrapperVars, enrollVars,
                 statusVars, deviceVars, inbox, key, ret, hand, tabOf, hookVars, snapVars>>

\* (Mutant: the key is applied to whatever is live by now.)
MeetsAnything == slot # None
Meets == slot = aim

\* The key meets the alert it was classified against, or is swallowed.  An
\* enrollment prompt is applied to its wrapper before the hook is woken.
Decide ==
  /\ pc[Loop] = "decide"
  /\ ret' = [ret EXCEPT ![Loop] = "ready"]
  /\ aim' = None
  /\ \/ /\ ~Meets
        /\ Goto(Loop, "ready") /\ key' = NoKey
        /\ UNCHANGED <<slot, slotTab, answer, hand, tabOf, arg>>
     \/ /\ Meets /\ slot \in Notices
        /\ FreeSlot(Loop) /\ Goto(Loop, "wipe") /\ key' = NoKey
        /\ UNCHANGED <<hand, arg>>
     \/ /\ Meets /\ slot \in Requests
        /\ Take(Loop, slot) /\ Aim(Loop, slotTab)
        /\ slot' = None /\ slotTab' = 0
        /\ IF slot \in asks /\ yolo /\ SessionOf[slot] \in live
           THEN Goto(Loop, "mark") /\ arg' = [arg EXCEPT ![Loop] = SessionOf[slot]]
           ELSE Goto(Loop, "send") /\ UNCHANGED arg
        /\ UNCHANGED <<answer, key>>
  /\ UNCHANGED <<queueVars, requestVars, wrapperVars, enrollVars, statusVars, deviceVars,
                 inbox, scope, snapVars>>

\* tx.send(outcome)
Send ==
  /\ pc[Loop] = "send"
  /\ answer' = Woken({hand[Loop]}, IF key.what = "allow" THEN "allow" ELSE "deny")
  /\ Take(Loop, None) /\ key' = NoKey
  /\ Goto(Loop, "wipe")
  /\ UNCHANGED <<slot, slotTab, queueVars, requestVars, wrapperVars, enrollVars, statusVars,
                 deviceVars, inbox, aim, ret, tabOf, hookVars, snapVars>>

-----------------------------------------------------------------------------
\* Connection and switch

\* HidConnected, then resync_device under the alert and device locks.
TakeUp ==
  /\ Receive({"up"})
  /\ connected' = TRUE
  /\ Goto(Loop, "resync")
  /\ UNCHANGED <<slot, slotTab, queueVars, answer, requestVars, wrapperVars, enrollVars, yolo,
                 synced, deviceVars, key, aim, ret, hand, tabOf, hookVars, snapVars>>

\* (Mutant: the live alert is sent again, but no tab is cleared.)
ResyncedOnTop == IF slot = None THEN screen ELSE Shown(slotTab, slot)
Resynced == IF slot = None THEN {} ELSE {<<slotTab, slot>>}

Resync ==
  /\ pc[Loop] = "resync"
  /\ screen' = IF hidUp THEN Resynced ELSE screen
  /\ Goto(Loop, "ready")
  /\ UNCHANGED <<slot, slotTab, queueVars, answer, requestVars, wrapperVars, enrollVars,
                 statusVars, hidUp, switch, loopVars, ret, hand, tabOf, hookVars, snapVars>>

\* HidDisconnected: Auto-approve is disarmed, enrollment cleared, alerts dropped.
TakeDown ==
  /\ Receive({"down"})
  /\ connected' = FALSE /\ yolo' = FALSE /\ synced' = FALSE
  /\ key' = Head(inbox)
  /\ Goto(Loop, "disarmIn")
  /\ UNCHANGED <<slot, slotTab, queueVars, answer, requestVars, wrapperVars, enrollVars,
                 deviceVars, aim, ret, hand, tabOf, hookVars, snapVars>>

\* A state report.  Only a change after a first report counts as a flip: ON
\* enrolls the active wrapper, OFF clears the enrollment.
TakeState ==
  LET on == Head(inbox).what = "on" IN
  /\ Receive({"on", "off"})
  /\ yolo' = on /\ synced' = TRUE
  /\ \/ /\ synced /\ on /\ ~yolo
        /\ \E s \in live : arg' = [arg EXCEPT ![Loop] = s]
        /\ key' = Head(inbox) /\ Goto(Loop, "mark")
     \/ /\ synced /\ ~on /\ yolo
        /\ key' = Head(inbox) /\ Goto(Loop, "disarmIn")
        /\ UNCHANGED arg
     \/ /\ ~synced \/ on = yolo \/ live = {}
        /\ ~(synced /\ ~on /\ yolo)
        /\ UNCHANGED <<pc, key, arg>>
  /\ UNCHANGED <<slot, slotTab, queueVars, answer, requestVars, wrapperVars, enrollVars,
                 connected, deviceVars, aim, ret, hand, tabOf, scope, snapVars>>

\* clear_yolo_enrollment, one set after the other.
DisarmIn ==
  /\ pc[Loop] = "disarmIn"
  /\ optIn' = {}
  /\ Goto(Loop, "disarmOut")
  /\ UNCHANGED <<slot, slotTab, queueVars, answer, requestVars, wrapperVars, optOut, statusVars,
                 deviceVars, loopVars, ret, hand, tabOf, hookVars, snapVars>>

DisarmOut ==
  /\ pc[Loop] = "disarmOut"
  /\ optOut' = {}
  /\ Goto(Loop, IF key.what = "down" THEN "reset" ELSE "ready")
  /\ key' = NoKey
  /\ UNCHANGED <<slot, slotTab, queueVars, answer, requestVars, wrapperVars, optIn, statusVars,
                 deviceVars, inbox, aim, ret, hand, tabOf, hookVars, snapVars>>

\* reset_for_disconnect: the live alert and both queues go in one critical section.
\* (Mutant: the queue of prompts survives.)
QueueKept == pendingQ
QueueAfterReset == EmptyDeque

Reset ==
  /\ pc[Loop] = "reset"
  /\ slot' = None /\ slotTab' = 0
  /\ pendingQ' = QueueAfterReset /\ idleQ' = EmptyDeque
  /\ answer' = Woken({slot} \cup pendingQ.in, "dropped")
  /\ Goto(Loop, "ready")
  /\ UNCHANGED <<requestVars, wrapperVars, enrollVars, statusVars, deviceVars, loopVars,
                 ret, hand, tabOf, hookVars, snapVars>>

EventHandler ==
  \/ TakeKey \/ FocusClear \/ Attend \/ Decide \/ Send
  \/ TakeUp \/ Resync \/ TakeDown \/ TakeState \/ DisarmIn \/ DisarmOut \/ Reset
=============================================================================
