------------------------------ MODULE ModeSync ------------------------------
(***************************************************************************)
(* The permission mode, which lives in three places: in Claude, on the     *)
(* device's LED, and in the daemon, which keeps the two in step.  A tap on *)
(* the device cycles the LED and is passed on to Claude as Shift+Tab; a    *)
(* hook that reports another mode is passed on to the LED.  Each direction *)
(* echoes into the other.  The mode of each wrapper is also kept on disk.  *)
(***************************************************************************)
EXTENDS Naturals, Sequences

CONSTANTS
  Sessions,   \* Claude sessions, each with a wrapper of its own
  First,      \* the one active at the start
  Modes,      \* number of permission modes
  MaxTaps,    \* bound: taps on the device in a run
  MaxKeys,    \* bound: Shift+Tabs typed at a terminal
  MaxFocus,   \* bound: changes of the active session
  Overlap,    \* whether modes change while a change is on its way to the LED
  None

ASSUME ModeSyncAssumption ==
  /\ First \in Sessions /\ None \notin Nat /\ Overlap \in BOOLEAN
  /\ Modes \in Nat \ {0} /\ MaxTaps \in Nat /\ MaxKeys \in Nat /\ MaxFocus \in Nat

Desk == "desk"                  \* the task that moves the focus
Syncers == Sessions \cup {Desk} \* a session's hook task, and the desk
Mode == 0 .. Modes - 1
NextMode(m) == (m + 1) % Modes

VARIABLES
  led,       \* the mode the firmware is in
  wire,      \* state reports on their way from the device
  events,    \* the event channel
  claude,    \* per session: the mode Claude is in
  keys,      \* per session: Shift+Tabs on their way to it
  known,     \* per session: SessionState.permission_mode
  last,      \* per wrapper: the WrapperStateStore
  disk,      \* the file
  active,    \* the active session
  status,    \* DeviceStatus: mode, mode_initialized
  job,       \* per syncer: where it is
  inject,    \* the event loop owes Claude a Shift+Tab
  taps, typed, moved, \* what happened so far
  missed,    \* the LED stands where a tap put it whose report was dropped
  turns,     \* per session: changes of Claude's mode since a hook last brought news of it
  shiftTabs  \* Shift+Tabs the daemon injected, counted up to one more than MaxTaps

worldVars  == <<led, wire, claude, keys>>
daemonVars == <<events, known, last, disk, active, status, job, inject>>
countVars  == <<taps, typed, moved, missed, turns, shiftTabs>>
vars == <<worldVars, daemonVars, countVars>>

Idle == [pc |-> "idle"]
Reads == 3                      \* packets drain_response reads at most

Init ==
  /\ led = 0 /\ wire = <<0>> /\ events = <<>>
  /\ claude = [s \in Sessions |-> 0] /\ keys = [s \in Sessions |-> 0]
  /\ known = [s \in Sessions |-> None]
  /\ last = [s \in Sessions |-> None] /\ disk = last
  /\ active = First /\ status = [mode |-> 0, initialized |-> FALSE]
  /\ job = [j \in Syncers |-> Idle] /\ inject = FALSE
  /\ taps = 0 /\ typed = 0 /\ moved = 0 /\ shiftTabs = 0
  /\ missed = FALSE /\ turns = [s \in Sessions |-> 0]

NoneSyncing == \A j \in Syncers : job[j].pc \notin {"record", "write", "drain"}
Heard == wire = <<>> /\ events = <<>>   \* every report has been handled

-----------------------------------------------------------------------------
\* The user, the device and Claude

\* A tap cycles the firmware's mode, which it reports.
Tap ==
  /\ taps < MaxTaps /\ taps' = taps + 1 /\ missed' = FALSE
  /\ Overlap \/ \A j \in Syncers : job[j].pc \notin {"record", "write"}
  /\ led' = NextMode(led) /\ wire' = Append(wire, NextMode(led))
  /\ UNCHANGED <<claude, keys, daemonVars, typed, moved, turns, shiftTabs>>

\* Shift+Tab cycles Claude's mode: typed at the terminal, or injected.
Type(s) ==
  /\ typed < MaxKeys /\ typed' = typed + 1
  /\ claude' = [claude EXCEPT ![s] = NextMode(@)] /\ turns' = [turns EXCEPT ![s] = @ + 1]
  /\ UNCHANGED <<led, wire, keys, daemonVars, taps, moved, missed, shiftTabs>>

Injected(s) ==
  /\ keys[s] > 0
  /\ keys' = [keys EXCEPT ![s] = @ - 1]
  /\ claude' = [claude EXCEPT ![s] = NextMode(@)] /\ turns' = [turns EXCEPT ![s] = @ + 1]
  /\ UNCHANGED <<led, wire, daemonVars, taps, typed, moved, missed, shiftTabs>>

-----------------------------------------------------------------------------
\* The event loop and the reader thread

\* The reader thread polls unless a command holds the device.
Poll ==
  /\ wire # <<>> /\ \A j \in Syncers : job[j].pc # "drain"
  /\ events' = Append(events, Head(wire)) /\ wire' = Tail(wire)
  /\ UNCHANGED <<led, claude, keys, known, last, disk, active, status, job, inject, countVars>>

\* DeviceStateChanged: a mode that differs from the recorded one is a tap, but
\* for the first report of a connection.
Handle ==
  /\ events # <<>> /\ ~inject
  /\ events' = Tail(events)
  /\ status' = [mode |-> Head(events), initialized |-> TRUE]
  /\ inject' = (status.initialized /\ status.mode # Head(events))
  /\ UNCHANGED <<worldVars, known, last, disk, active, job, countVars>>

\* The Shift+Tab goes to whichever session is active by now.
Inject ==
  /\ inject /\ inject' = FALSE
  /\ keys' = [keys EXCEPT ![active] = @ + 1]
  /\ shiftTabs' = IF shiftTabs > MaxTaps THEN shiftTabs ELSE shiftTabs + 1
  /\ UNCHANGED <<led, wire, claude, events, known, last, disk, active, status, job,
                 taps, typed, moved, missed, turns>>

-----------------------------------------------------------------------------
\* A session's hook

\* The mode Claude is in is noted with its session.
\* (Mutant: it is not noted.)
NotedNot(s) == known
Noted(s) == [known EXCEPT ![s] = claude[s]]

\* The mode a hook carries is noted; one that is new to the daemon is kept on
\* disk, and shown if the session was the active one.
Hook(s) ==
  LET changed == known[s] # claude[s]
  IN /\ job[s].pc = "idle" /\ changed
     /\ known' = Noted(s) /\ turns' = [turns EXCEPT ![s] = 0]
     /\ job' = [job EXCEPT ![s] = [pc |-> "store", mode |-> claude[s], show |-> s = active]]
     /\ UNCHANGED <<worldVars, events, last, disk, active, status, inject,
                    taps, typed, moved, missed, shiftTabs>>

Then(show) == IF show THEN [pc |-> "read"] ELSE Idle

\* set_permission_mode: the map is changed and copied under its lock...
Store(s) ==
  /\ job[s].pc = "store"
  /\ last' = [last EXCEPT ![s] = job[s].mode]
  /\ job' = [job EXCEPT ![s] = IF last[s] = @.mode THEN Then(@.show)
                               ELSE [pc |-> "flush", copy |-> last', show |-> @.show]]
  /\ UNCHANGED <<worldVars, events, known, disk, active, status, inject, countVars>>

\* ...and the copy written without it.
Flush(s) ==
  /\ job[s].pc = "flush"
  /\ disk' = job[s].copy
  /\ job' = [job EXCEPT ![s] = Then(@.show)]
  /\ UNCHANGED <<worldVars, events, known, last, active, status, inject, countVars>>

\* A focus report or the knob makes another session active, and syncs the LED.
Focus(s) ==
  /\ moved < MaxFocus /\ moved' = moved + 1
  /\ s # active /\ job[Desk].pc = "idle"
  /\ Overlap \/ NoneSyncing
  /\ active' = s
  /\ job' = [job EXCEPT ![Desk] = [pc |-> "read"]]
  /\ UNCHANGED <<worldVars, events, known, last, disk, status, inject, taps, typed, missed,
                 turns, shiftTabs>>

-----------------------------------------------------------------------------
\* sync_active_mode_to_device

\* The target is the active session's mode, else what its wrapper last had.
\* (Mutant: what the wrapper last had comes first.)
TargetFromStore == IF last[active] # None THEN last[active] ELSE known[active]
Target == IF known[active] # None THEN known[active] ELSE last[active]

\* A session whose mode nobody knows leaves the LED alone.
Aim(mode) == IF mode = None THEN Idle ELSE [pc |-> "record", mode |-> mode]

Read(j) ==
  /\ job[j].pc = "read"
  /\ Overlap \/ (NoneSyncing /\ Heard)
  /\ job' = [job EXCEPT ![j] = Aim(Target)]
  /\ UNCHANGED <<worldVars, events, known, last, disk, active, status, inject, countVars>>

\* It is recorded before it is written, so that the echo is not taken for a tap.
\* (Mutant: it is not recorded.)
RecordedNot(mode) == status
Recorded(mode) == [status EXCEPT !.mode = mode]

Record(j) ==
  /\ job[j].pc = "record"
  /\ status' = Recorded(job[j].mode)
  /\ job' = [job EXCEPT ![j] = IF status.mode = @.mode THEN Idle ELSE [@ EXCEPT !.pc = "write"]]
  /\ UNCHANGED <<worldVars, events, known, last, disk, active, inject, countVars>>

\* set_mode, under the HID lock: the firmware takes the mode and reports it.
Write(j) ==
  /\ job[j].pc = "write" /\ \A k \in Syncers : job[k].pc # "drain"
  /\ led' = job[j].mode /\ wire' = Append(wire, job[j].mode) /\ missed' = FALSE
  /\ job' = [job EXCEPT ![j] = [pc |-> "drain", left |-> Reads]]
  /\ UNCHANGED <<claude, keys, events, known, last, disk, active, status, inject,
                 taps, typed, moved, turns, shiftTabs>>

\* drain_response: reports read now are dropped, that of a tap behind the echo too; one
\* later than its time-out is not.
Drain(j) ==
  /\ job[j].pc = "drain" /\ wire # <<>>
  /\ wire' = Tail(wire) /\ missed' = (job[j].left < Reads /\ Tail(wire) = <<>>)
  /\ job' = [job EXCEPT ![j] = IF @.left = 1 THEN Idle ELSE [@ EXCEPT !.left = job[j].left - 1]]
  /\ UNCHANGED <<led, claude, keys, events, known, last, disk, active, status, inject,
                 taps, typed, moved, turns, shiftTabs>>

Drained(j) ==
  /\ job[j].pc = "drain"
  /\ job' = [job EXCEPT ![j] = Idle]
  /\ UNCHANGED <<worldVars, events, known, last, disk, active, status, inject, countVars>>

-----------------------------------------------------------------------------
Session(s) == Injected(s) \/ Hook(s) \/ Store(s) \/ Flush(s)
Sync(j)    == Read(j) \/ Record(j) \/ Write(j) \/ Drained(j)

Next ==
  \/ Tap \/ Poll \/ Handle \/ Inject
  \/ \E s \in Sessions : Type(s) \/ Focus(s) \/ Session(s)
  \/ \E j \in Syncers : Sync(j) \/ Drain(j)

Spec == Init /\ [][Next]_vars

\* The threads and tasks run, and Claude goes on calling its hooks.
FairSpec ==
  /\ Spec /\ WF_vars(Poll) /\ WF_vars(Handle) /\ WF_vars(Inject)
  /\ \A s \in Sessions : WF_vars(Session(s))
  /\ \A j \in Syncers : WF_vars(Sync(j))

-----------------------------------------------------------------------------
Quiet == Heard /\ ~inject /\ \A j \in Syncers : job[j] = Idle
Told(s) == known[s] = claude[s] /\ keys[s] = 0

\* Every Shift+Tab the daemon injects is owed to a tap: the echo of its own
\* write, read late, is not taken for one.
EveryShiftTabIsATap == shiftTabs <= taps

\* At rest the daemon knows the LED, and the LED shows the mode Claude is in, once a hook
\* has told of it; but for a tap whose report was dropped, until another tap or a write.
\* With as many changes since a hook last brought news as there are modes it need not: the
\* mode came round to the one the daemon knows, and no sync follows.
LedShowsClaude ==
  Quiet /\ status.initialized /\ ~missed =>
    /\ status.mode = led
    /\ Told(active) /\ turns[active] < Modes => led = claude[active]

\* The two directions do not keep each other going.
Settles == <>[](Quiet /\ \A s \in Sessions : Told(s))
=============================================================================
