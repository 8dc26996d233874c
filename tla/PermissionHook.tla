--------------------------- MODULE PermissionHook ---------------------------
(***************************************************************************)
(* The PermissionRequest hook (handle_permission_request of hooks.rs) and  *)
(* the enrollment marks it shares with the event loop (wrapper.rs).  Each  *)
(* request is one HTTP call of Claude Code and one thread: it is settled   *)
(* at once, or parked on a oneshot until the user answers on the device,   *)
(* the alert is withdrawn, or five minutes have passed.                    *)
(***************************************************************************)
EXTENDS AlertSlot

\* The gate.  A user-input tool always goes to the terminal; otherwise what is
\* asked depends on Auto-approve as it is read here, once.
Gate(r) ==
  /\ pc[r] = "start"
  /\ \/ /\ ToolOf[r] \in UserInputTools
        /\ response' = [response EXCEPT ![r] = "pass"]
        /\ Goto(r, "emit")
        /\ UNCHANGED <<asks, bound, tabOf>>
     \/ /\ ToolOf[r] \notin UserInputTools
        /\ asks' = IF yolo THEN asks \cup {r} ELSE asks
        /\ bound' = IF SessionOf[r] \in live THEN bound \cup {r} ELSE bound
        /\ Aim(r, Tab(SessionOf[r]))
        /\ Goto(r, IF yolo /\ connected /\ SessionOf[r] \in live THEN "gate" ELSE "park")
        /\ UNCHANGED response
  /\ UNCHANGED <<slot, slotTab, queueVars, answer, wrapperVars, enrollVars, statusVars,
                 deviceVars, loopVars, ret, hand, hookVars, snapVars>>

\* Auto-approve is armed: an enrolled wrapper is approved silently, one that
\* declined goes to the terminal, any other is asked.
Enrolled(r) ==
  /\ pc[r] = "gate"
  /\ \/ /\ SessionOf[r] \in optIn
        /\ response' = [response EXCEPT ![r] = "allow"]
        /\ Goto(r, "emit") /\ Aim(r, NoTab)
     \/ /\ SessionOf[r] \in optOut \ optIn
        /\ response' = [response EXCEPT ![r] = "pass"]
        /\ Goto(r, "emit") /\ Aim(r, NoTab)
     \/ /\ SessionOf[r] \notin optIn \cup optOut
        /\ Goto(r, "park") /\ Aim(r, Tab(SessionOf[r]))
        /\ UNCHANGED response
  /\ UNCHANGED <<slot, slotTab, queueVars, answer, asks, bound, wrapperVars, enrollVars,
                 statusVars, deviceVars, loopVars, ret, hand, hookVars, snapVars>>

\* install_pending_alert: busy-check, device write and slot write under one
\* hold of the alert lock.
Park(r) ==
  /\ pc[r] = "park"
  /\ Aim(r, NoTab)
  /\ \/ /\ slot = None /\ hidUp
        /\ Install(r, tabOf[r])
        /\ answer' = [answer EXCEPT ![r] = "open"]
        /\ Goto(r, "parked")
        /\ UNCHANGED <<pendingQ, response>>
     \/ /\ slot # None /\ Cardinality(pendingQ.in) < PendingCap
        /\ pendingQ' = PushBack(pendingQ, r)
        /\ answer' = [answer EXCEPT ![r] = "open"]
        /\ Goto(r, "parked")
        /\ UNCHANGED <<slot, slotTab, screen, response>>
     \/ /\ IF slot = None THEN ~hidUp ELSE Cardinality(pendingQ.in) >= PendingCap
        /\ response' = [response EXCEPT ![r] = "pass"]
        /\ Goto(r, "emit")
        /\ UNCHANGED <<slot, slotTab, screen, pendingQ, answer>>
  /\ UNCHANGED <<idleQ, asks, bound, wrapperVars, enrollVars, statusVars, hidUp, switch,
                 loopVars, ret, hand, hookVars, snapVars>>

\* 300 s pass: the receiver is dropped.
\* (Mutant: the time runs only while the prompt waits in the queue.)
TimeoutInQueueOnly(r) ==
  /\ pc[r] = "parked" /\ answer[r] = "open" /\ r \in pendingQ.in
  /\ answer' = [answer EXCEPT ![r] = "closed"]
  /\ UNCHANGED <<slot, slotTab, queueVars, requestVars, wrapperVars, enrollVars,
                 statusVars, deviceVars, loopVars, pc, ret, hand, tabOf, hookVars, snapVars>>
Timeout(r) ==
  /\ pc[r] = "parked" /\ answer[r] = "open"
  /\ answer' = [answer EXCEPT ![r] = "closed"]
  /\ UNCHANGED <<slot, slotTab, queueVars, requestVars, wrapperVars, enrollVars,
                 statusVars, deviceVars, loopVars, pc, ret, hand, tabOf, hookVars, snapVars>>

\* The oneshot has resolved or timed out: clear_alert_if(id).
Settle(r) ==
  /\ pc[r] = "parked" /\ answer[r] # "open"
  /\ ret' = [ret EXCEPT ![r] = "respond"]
  /\ \/ slot = r /\ FreeSlot(r) /\ Goto(r, "wipe")
     \/ slot # r /\ Goto(r, "respond") /\ UNCHANGED <<slot, slotTab, answer, tabOf>>
  /\ UNCHANGED <<queueVars, requestVars, wrapperVars, enrollVars, statusVars, deviceVars,
                 loopVars, hand, hookVars, snapVars>>

-----------------------------------------------------------------------------
\* Enrollment: one set gains the wrapper, then the other loses it, each under
\* its own lock.

\* The thread acts on an Allow (the user's, or the switch turned on).
Allows(t) == IF t = Loop THEN key.what \in {"allow", "on"} ELSE answer[t] = "allow"
Marked(t) == IF t = Loop THEN arg[t] ELSE SessionOf[t]

Mark(t) ==
  /\ pc[t] = "mark"
  /\ IF Allows(t)
     THEN optIn' = optIn \cup {Marked(t)} /\ UNCHANGED optOut
     ELSE optOut' = optOut \cup {Marked(t)} /\ UNCHANGED optIn
  /\ Goto(t, "unmark")
  /\ UNCHANGED <<slot, slotTab, queueVars, answer, requestVars, wrapperVars, statusVars,
                 deviceVars, loopVars, ret, hand, tabOf, hookVars, snapVars>>

\* (Mutant: the wrapper stays in the other set.)
UnmarkNothing(t) ==
  /\ pc[t] = "unmark"
  /\ Goto(t, CASE t # Loop -> "emit" [] key.what = "on" -> "ready" [] OTHER -> "send")
  /\ arg' = [arg EXCEPT ![t] = None]
  /\ UNCHANGED <<slot, slotTab, queueVars, answer, requestVars, wrapperVars, enrollVars,
                 statusVars, deviceVars, loopVars, ret, hand, tabOf, scope, snapVars>>
Unmark(t) ==
  /\ pc[t] = "unmark"
  /\ IF Allows(t)
     THEN optOut' = optOut \ {Marked(t)} /\ UNCHANGED optIn
     ELSE optIn' = optIn \ {Marked(t)} /\ UNCHANGED optOut
  /\ Goto(t, CASE t # Loop -> "emit" [] key.what = "on" -> "ready" [] OTHER -> "send")
  /\ arg' = [arg EXCEPT ![t] = None]
  /\ UNCHANGED <<slot, slotTab, queueVars, answer, requestVars, wrapperVars, statusVars,
                 deviceVars, loopVars, ret, hand, tabOf, scope, snapVars>>

\* Outcome to reply: Deny of an enrollment leaves the call to the terminal, and
\* so does no decision.  (Mutant: a withdrawn prompt counts as allowed.)
ReplyToWithdrawn(r) ==
  CASE answer[r] \in {"allow", "dropped"} -> "allow"
    [] answer[r] = "deny" /\ r \notin asks -> "deny"
    [] OTHER -> "pass"
ReplyTo(r) ==
  CASE answer[r] = "allow" -> "allow"
    [] answer[r] = "deny" /\ r \notin asks -> "deny"
    [] OTHER -> "pass"

\* Allow enrolls only if Auto-approve is still on; Deny of an enrollment declines
\* it without that check.
Respond(r) ==
  LET a == answer[r]
      enrolls == r \in asks \cap bound /\ ((a = "allow" /\ yolo) \/ a = "deny")
  IN
  /\ pc[r] = "respond"
  /\ response' = [response EXCEPT ![r] = ReplyTo(r)]
  /\ Goto(r, IF enrolls THEN "mark" ELSE "emit")
  /\ UNCHANGED <<slot, slotTab, queueVars, answer, asks, bound, wrapperVars, enrollVars,
                 statusVars, deviceVars, loopVars, ret, hand, tabOf, hookVars, snapVars>>

Request(r) ==
  \/ Gate(r) \/ Enrolled(r) \/ Park(r) \/ Timeout(r) \/ Settle(r) \/ Respond(r)
=============================================================================
