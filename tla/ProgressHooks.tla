---------------------------- MODULE ProgressHooks ----------------------------
(***************************************************************************)
(* The other tasks that touch the alerts: hooks by which a session moves   *)
(* on without the device (handle_claude_hook of hooks.rs), idle notices,   *)
(* and the connections of wrappers (wrapper.rs) that come, go and report   *)
(* terminal focus.  A Hooks thread takes one such job after another; every *)
(* job ends with a fresh tab list.                                         *)
(***************************************************************************)
EXTENDS AlertSlot

\* A job h starts: what it still has to purge, and the session it is about.
Job(h, what, s) ==
  /\ scope' = [scope EXCEPT ![h] = what]
  /\ arg' = [arg EXCEPT ![h] = s]

\* A job that opens by cancelling the live alert, if it is one of `victims`.
Cancel(h, victims, next) ==
  /\ pc[h] = "idle"
  /\ ret' = [ret EXCEPT ![h] = "emit"]
  /\ \/ slot \in victims /\ FreeSlot(h) /\ Goto(h, "wipe")
     \/ slot \notin victims /\ Goto(h, next) /\ UNCHANGED <<slot, slotTab, answer, tabOf>>
  /\ UNCHANGED <<queueVars, requestVars, wrapperVars, enrollVars, statusVars, deviceVars,
                 loopVars, hand, snapVars>>

Of(S, s) == {a \in S : SessionOf[a] = s}

\* UserPromptSubmit, PostToolUse(AskUserQuestion): cancel_for_session_progress.
Submit(h, s) == Cancel(h, Of(Alerts, s), "purge") /\ Job(h, "all", s)

\* Stop, SessionStart, PreCompact, ..: cancel_pending_for_session.
Progress(h, s) == Cancel(h, Of(Requests, s), "purge") /\ Job(h, "pending", s)

\* PreToolUse and PostToolUse: cancel_pending_for_tool; the queues are left alone.
ToolStep(h, s, tool) ==
  /\ Cancel(h, {r \in Of(Requests, s) : ToolOf[r] = tool}, "emit")
  /\ Job(h, "none", None)

\* The slot was freed by this job, so whatever is queued is shown.
PromoteIfFreed(h) == Goto(h, IF tabOf[h] # NoTab THEN "pop" ELSE "emit")

\* drop_queued_for_session
PurgePending(h) ==
  LET stale == Of(pendingQ.in, arg[h]) IN
  /\ pc[h] = "purge"
  /\ pendingQ' = Without(pendingQ, stale)
  /\ answer' = Woken(stale, "dropped")
  /\ IF scope[h] = "all"
     THEN Goto(h, "purgeIdle") /\ UNCHANGED <<hookVars, tabOf>>
     ELSE PromoteIfFreed(h) /\ Job(h, "none", None) /\ Aim(h, NoTab)
  /\ UNCHANGED <<slot, slotTab, idleQ, requestVars, wrapperVars, enrollVars, statusVars,
                 deviceVars, loopVars, ret, hand, snapVars>>

\* drop_queued_idle, the end of Submit and the start of a focus-in's cancel.
PurgeIdle(h) ==
  /\ pc[h] = "purgeIdle"
  /\ idleQ' = Without(idleQ, Of(idleQ.in, arg[h]))
  /\ IF scope[h] = "all"
     THEN PromoteIfFreed(h) /\ Job(h, "none", None) /\ Aim(h, NoTab)
     ELSE Goto(h, "cancelIdle") /\ Job(h, "none", arg[h]) /\ UNCHANGED tabOf
  /\ UNCHANGED <<slot, slotTab, pendingQ, answer, requestVars, wrapperVars, enrollVars,
                 statusVars, deviceVars, loopVars, ret, hand, snapVars>>

\* A job that only changes session data and ends with the tab list: statusline
\* ticks, title hints, session registration.
Tick(h) ==
  /\ pc[h] = "idle"
  /\ Goto(h, "emit")
  /\ UNCHANGED <<slot, slotTab, queueVars, answer, requestVars, wrapperVars, enrollVars,
                 statusVars, deviceVars, loopVars, ret, hand, tabOf, hookVars, snapVars>>

\* An idle prompt or a question of Claude: show_idle_alert up to the alert lock.
Raise(n) ==
  /\ pc[n] = "start"
  /\ ret' = [ret EXCEPT ![n] = "emit"]
  /\ IF Suppressed(n)
     THEN Goto(n, "emit") /\ UNCHANGED <<hand, tabOf>>
     ELSE Goto(n, "place") /\ Take(n, n) /\ Aim(n, Tab(SessionOf[n]))
  /\ UNCHANGED <<slot, slotTab, queueVars, answer, requestVars, wrapperVars, enrollVars,
                 statusVars, deviceVars, loopVars, hookVars, snapVars>>

-----------------------------------------------------------------------------
\* Wrappers

\* Focus-in: the flag, the tab list, then the idle alert of that session.
FocusIn(h, s) ==
  /\ pc[h] = "idle" /\ s \in live
  /\ focused' = focused \cup {s}
  /\ Job(h, "idle", s)
  /\ Goto(h, "emit")
  /\ UNCHANGED <<slot, slotTab, queueVars, answer, requestVars, live, enrollVars,
                 statusVars, deviceVars, loopVars, ret, hand, tabOf, snapVars>>

\* cancel_idle_for_session under the alert lock.
CancelIdle(h) ==
  /\ pc[h] = "cancelIdle"
  /\ Job(h, "none", None)
  /\ ret' = [ret EXCEPT ![h] = "idle"]
  /\ \/ slot \in Of(Notices, arg[h]) /\ FreeSlot(h) /\ Goto(h, "wipe")
     \/ slot \notin Of(Notices, arg[h]) /\ Goto(h, "idle")
        /\ UNCHANGED <<slot, slotTab, answer, tabOf>>
  /\ UNCHANGED <<queueVars, requestVars, wrapperVars, enrollVars, statusVars, deviceVars,
                 loopVars, hand, snapVars>>

FocusOut(s) ==
  /\ s \in focused
  /\ focused' = focused \ {s}
  /\ UNCHANGED <<slot, slotTab, queueVars, answer, requestVars, live, enrollVars,
                 statusVars, deviceVars, loopVars, pc, ret, hand, tabOf, hookVars, snapVars>>

\* Register: a wrapper joins, or replaces its older connection, unfocused.
Join(h, s) ==
  /\ pc[h] = "idle"
  /\ live' = live \cup {s} /\ focused' = focused \ {s}
  /\ Goto(h, "emit")
  /\ UNCHANGED <<slot, slotTab, queueVars, answer, requestVars, enrollVars, statusVars,
                 deviceVars, loopVars, ret, hand, tabOf, hookVars, snapVars>>

\* The connection closes: out of the registry, then out of each set.
Exit(h, s) ==
  /\ pc[h] = "idle" /\ s \in live
  /\ live' = live \ {s} /\ focused' = focused \ {s}
  /\ Job(h, "none", s)
  /\ Goto(h, "leaveIn")
  /\ UNCHANGED <<slot, slotTab, queueVars, answer, requestVars, enrollVars, statusVars,
                 deviceVars, loopVars, ret, hand, tabOf, snapVars>>

LeaveOptIn(h) ==
  /\ pc[h] = "leaveIn"
  /\ optIn' = optIn \ {arg[h]}
  /\ Goto(h, "leaveOut")
  /\ UNCHANGED <<slot, slotTab, queueVars, answer, requestVars, wrapperVars, optOut,
                 statusVars, deviceVars, loopVars, ret, hand, tabOf, hookVars, snapVars>>

LeaveOptOut(h) ==
  /\ pc[h] = "leaveOut"
  /\ optOut' = optOut \ {arg[h]}
  /\ Job(h, "none", None)
  /\ Goto(h, "emit")
  /\ UNCHANGED <<slot, slotTab, queueVars, answer, requestVars, wrapperVars, optIn,
                 statusVars, deviceVars, loopVars, ret, hand, tabOf, snapVars>>

\* The steps of a job under way.
Hook(h) ==
  PurgePending(h) \/ PurgeIdle(h) \/ CancelIdle(h) \/ LeaveOptIn(h) \/ LeaveOptOut(h)
=============================================================================
