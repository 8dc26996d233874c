----------------------------- MODULE DeviceLink -----------------------------
(***************************************************************************)
(* The link to the device: the thread that pings it, the thread that hears *)
(* of hotplug events, the tasks that open it and push the tab list to its  *)
(* display, and the event loop that keeps the shared status.               *)
(***************************************************************************)
EXTENDS Naturals, Sequences

CONSTANTS
  Emitters,   \* the tasks in emit_tab_list
  MaxEdits,   \* bound: changes of the tab list in a run
  MaxPlugs,   \* bound: times the cable is pulled or put back
  MaxBreaks,  \* bound: times the link dies with the device still plugged in
  Threshold,  \* DISCONNECT_THRESHOLD
  SlowProbe,  \* whether probing the protocol outlasts another thread's teardown
  None

ASSUME DeviceLinkAssumption ==
  /\ None \notin Nat \cup {"good", "dead"} /\ SlowProbe \in BOOLEAN /\ Threshold \in Nat \ {0}
  /\ MaxEdits \in Nat /\ MaxPlugs \in Nat /\ MaxBreaks \in Nat

VARIABLES
  plugged,    \* the device is on the bus
  shown,      \* the tab list on its display, None after power-up
  notes,      \* hotplug notifications on their way to the watcher
  plugs, breaks,
  handle,     \* device: None, or a handle that is "good" or "dead"
  connected, available,
  framing,    \* protocol_mode
  last,       \* last_display_payload
  events,     \* the event channel
  reader, fails,  \* the reader thread, and consecutive_failures
  watcher,    \* the thread that watches for the device
  watch,      \* how it does: by "hotplug" notices, or by "polling" without them
  hid,        \* who holds the HID manager, and for what
  status,     \* DeviceStatus, as the event loop keeps it
  content,    \* the tab list as it would be built now, 0 for an empty one
  working,    \* some session is active, with a wrapper connected
  edits,
  emit        \* per emitter: the snapshot it is to push; there is nothing to push in 0

deviceVars  == <<plugged, shown, notes, plugs, breaks>>
linkVars    == <<handle, connected, available, framing, last>>
threadVars  == <<reader, fails, watcher, watch>>
taskVars    == <<hid, status, content, working, edits, emit>>
vars == <<deviceVars, linkVars, events, threadVars, taskVars>>

Firmware == "vial"       \* what the device speaks; "standalone" is the default
Free == [by |-> "free", pc |-> "free"]

\* The daemon starts with the device plugged in and just announced.
Init ==
  /\ plugged = TRUE /\ shown = None /\ notes = <<>> /\ plugs = 0 /\ breaks = 0
  /\ handle = None /\ connected = FALSE /\ available = TRUE
  /\ framing = "standalone" /\ last = None
  /\ events = <<"available">>
  /\ reader = "poll" /\ fails = 0 /\ watcher = "wait" /\ watch \in {"hotplug", "polling"}
  /\ hid = Free /\ status = [connected |-> FALSE, available |-> FALSE]
  /\ content = 0 /\ working = FALSE /\ edits = 0 /\ emit = [e \in Emitters |-> 0]

-----------------------------------------------------------------------------
\* The device and its cable

Noticed(what) == IF watch = "hotplug" THEN Append(notes, what) ELSE notes

Unplug ==
  /\ plugged /\ plugs < MaxPlugs
  /\ plugged' = FALSE /\ shown' = None /\ plugs' = plugs + 1
  /\ notes' = Noticed("removed")
  /\ handle' = IF handle = None THEN None ELSE "dead"
  /\ hid' = IF hid.pc = "probe" THEN [hid EXCEPT !.pc = "probing dead"] ELSE hid
  /\ UNCHANGED <<breaks, connected, available, framing, last, events, threadVars, status,
                 content, working, edits, emit>>

Plug ==
  /\ ~plugged /\ plugs < MaxPlugs
  /\ plugged' = TRUE /\ plugs' = plugs + 1 /\ notes' = Noticed("arrived")
  /\ UNCHANGED <<shown, breaks, linkVars, events, threadVars, taskVars>>

\* A handle goes stale without a hotplug event: sleep, a bus reset.
Break ==
  /\ handle = "good" /\ breaks < MaxBreaks
  /\ handle' = "dead" /\ breaks' = breaks + 1 /\ shown' \in {shown, None}
  /\ UNCHANGED <<plugged, notes, plugs, connected, available, framing, last, events,
                 threadVars, taskVars>>

-----------------------------------------------------------------------------
\* A teardown, store by store, in the two threads that do it.

\* (Mutant: nobody is told.)
NextPcSilent == [close |-> "flag", flag |-> "reset", reset |-> "done", tell |-> "done"]
NextPc == [close |-> "flag", flag |-> "reset", reset |-> "tell", tell |-> "done"]

\* What is known of a link that is gone.
\* (Mutant: the last display payload is kept.)
DefaultsKeepLast == [framing |-> "standalone", last |-> last]
Defaults == [framing |-> "standalone", last |-> None]

Teardown(pc) ==
  /\ handle' = IF pc = "close" THEN None ELSE handle
  /\ connected' = IF pc = "flag" THEN FALSE ELSE connected
  /\ framing' = IF pc = "reset" THEN Defaults.framing ELSE framing
  /\ last' = IF pc = "reset" THEN Defaults.last ELSE last
  /\ events' = IF pc = "tell" THEN Append(events, "disconnected") ELSE events
  /\ UNCHANGED <<available, deviceVars, taskVars>>

TearingDown == DOMAIN NextPc

\* A ping succeeds when the write and the read do.
\* (Mutant: it succeeds whenever there is a handle.)
AliveByHandle == handle # None
Alive == handle = "good"

\* The reader thread pings while `connected` is set; the third failure in a row
\* takes the link down.
Ping ==
  /\ reader = "poll" /\ connected
  /\ \/ Alive /\ fails' = 0 /\ reader' = reader
     \/ /\ ~Alive /\ fails' = fails + 1
        /\ reader' = IF fails + 1 >= Threshold THEN "close" ELSE "poll"
  /\ UNCHANGED <<deviceVars, linkVars, events, watcher, watch, taskVars>>

\* A torn down link starts counting anew.
ReaderTeardown ==
  /\ reader \in TearingDown
  /\ Teardown(reader)
  /\ reader' = IF NextPc[reader] = "done" THEN "poll" ELSE NextPc[reader]
  /\ fails' = IF NextPc[reader] = "done" THEN 0 ELSE fails
  /\ UNCHANGED <<watcher, watch>>

\* The hotplug thread: an arrival counts once the device can be enumerated, for
\* which the HID library must be free.
Arrived ==
  /\ watcher = "wait" /\ notes # <<>> /\ Head(notes) = "arrived" /\ hid = Free
  /\ notes' = Tail(notes)
  /\ available' = (plugged \/ available)
  /\ events' = IF plugged THEN Append(events, "available") ELSE events
  /\ UNCHANGED <<plugged, shown, plugs, breaks, handle, connected, framing, last,
                 threadVars, taskVars>>

Removed ==
  /\ watcher = "wait" /\ notes # <<>> /\ Head(notes) = "removed"
  /\ notes' = Tail(notes) /\ available' = FALSE
  /\ watcher' = IF connected THEN "close" ELSE "done"
  /\ UNCHANGED <<plugged, shown, plugs, breaks, handle, connected, framing, last, events,
                 reader, fails, watch, taskVars>>

\* Without notices the thread looks for the device time and again; an absence
\* between two looks is not noticed.
Seen ==
  /\ watch = "polling" /\ watcher = "wait" /\ plugged /\ ~available /\ hid = Free
  /\ available' = TRUE /\ events' = Append(events, "available")
  /\ UNCHANGED <<deviceVars, handle, connected, framing, last, threadVars, taskVars>>

Missed ==
  /\ watch = "polling" /\ watcher = "wait" /\ ~plugged /\ available /\ hid = Free
  /\ available' = FALSE
  /\ watcher' = IF connected THEN "close" ELSE "done"
  /\ UNCHANGED <<deviceVars, handle, connected, framing, last, events, reader, fails, watch,
                 taskVars>>

WatcherTeardown ==
  /\ watcher \in TearingDown
  /\ Teardown(watcher)
  /\ watcher' = NextPc[watcher]
  /\ UNCHANGED <<reader, fails, watch>>

Unavailable ==
  /\ watcher = "done"
  /\ watcher' = "wait" /\ events' = Append(events, "unavailable")
  /\ UNCHANGED <<deviceVars, linkVars, reader, fails, watch, taskVars>>

-----------------------------------------------------------------------------
\* Tasks that hold the HID manager

\* open_device: nothing to do if the flag is set; else the device is looked for
\* and opened, and its protocol probed.
Open(who) ==
  /\ hid = Free
  /\ hid' = IF connected \/ ~plugged THEN Free ELSE [by |-> who, pc |-> "probe"]

\* A device that is gone by the end of the probe leaves the defaults behind, and
\* counts as connected nonetheless.
Opened ==
  LET good == hid.pc = "probe"
  IN /\ hid # Free
     /\ SlowProbe => {reader, watcher} \cap TearingDown = {}
     /\ framing' = IF good THEN Firmware ELSE "standalone"
     /\ handle' = IF good THEN "good" ELSE "dead"
     /\ connected' = TRUE /\ hid' = Free
     /\ events' = Append(events, "connected")
     /\ UNCHANGED <<deviceVars, available, last, threadVars, status, content, working, edits, emit>>

\* A wrapper or the app connects, and opens the device if it is there.
ClientOpens ==
  /\ available /\ ~connected
  /\ Open("client")
  /\ UNCHANGED <<deviceVars, linkVars, events, threadVars, status, content, working, edits, emit>>

\* The event loop: on DeviceAvailable it opens the device itself.
Handle ==
  LET e == Head(events)
  IN /\ events # <<>> /\ hid.by # "loop"
     /\ events' = Tail(events)
     /\ status' = CASE e = "connected" -> [connected |-> TRUE, available |-> TRUE]
                    [] e = "disconnected" -> [status EXCEPT !.connected = FALSE]
                    [] e = "available" -> [status EXCEPT !.available = TRUE]
                    [] e = "unavailable" -> [status EXCEPT !.available = FALSE]
     /\ IF e = "available" THEN Open("loop") ELSE hid' = hid
     /\ UNCHANGED <<deviceVars, linkVars, threadVars, content, working, edits, emit>>

-----------------------------------------------------------------------------
\* emit_tab_list: the snapshot is built first, and pushed when the HID manager
\* is free; an empty one is not.  Every change of the tab list emits it, and so
\* does the ticker, but only while a wrapper is connected and some session at work.
Edit(e) ==
  /\ emit[e] = 0 /\ edits < MaxEdits
  /\ edits' = edits + 1
  /\ content' \in {0, edits + 1} /\ working' \in BOOLEAN /\ (working' => content' # 0)
  /\ emit' = [emit EXCEPT ![e] = content']
  /\ UNCHANGED <<deviceVars, linkVars, events, threadVars, hid, status>>

Tick(e) ==
  /\ emit[e] = 0 /\ working
  /\ emit' = [emit EXCEPT ![e] = content]
  /\ UNCHANGED <<deviceVars, linkVars, events, threadVars, hid, status, content, working, edits>>

\* send_display_update: a payload equal to the last one that arrived is skipped.
\* (Mutant: a payload is remembered even if it did not arrive.)
RememberedAnyway(payload, arrives) == payload
Remembered(payload, arrives) == IF arrives THEN payload ELSE last

Push(e) ==
  LET arrives == last # emit[e] /\ handle = "good"
  IN /\ emit[e] # 0 /\ hid = Free
     /\ shown' = IF arrives THEN emit[e] ELSE shown
     /\ last' = Remembered(emit[e], arrives)
     /\ emit' = [emit EXCEPT ![e] = 0]
     /\ UNCHANGED <<plugged, notes, plugs, breaks, handle, connected, available, framing,
                    events, threadVars, hid, status, content, working, edits>>

-----------------------------------------------------------------------------
ReaderStep  == Ping \/ ReaderTeardown
WatcherStep == Arrived \/ Removed \/ Seen \/ Missed \/ WatcherTeardown \/ Unavailable

Next ==
  \/ Unplug \/ Plug \/ Break
  \/ ReaderStep \/ WatcherStep \/ Opened \/ ClientOpens \/ Handle
  \/ \E e \in Emitters : Edit(e) \/ Tick(e) \/ Push(e)

Spec == Init /\ [][Next]_vars

\* Threads run, the event loop and the emitters are polled; ticks keep coming while
\* some session is at work.
FairSpec ==
  /\ Spec /\ WF_vars(ReaderStep) /\ WF_vars(WatcherStep)
  /\ WF_vars(Opened) /\ SF_vars(Handle)
  /\ \A e \in Emitters : WF_vars(Tick(e)) /\ SF_vars(Push(e))

-----------------------------------------------------------------------------
Settled == {reader, watcher} \cap TearingDown = {} /\ hid = Free

\* Between teardowns the flag, the handle, the framing and the last payload tell
\* the same story: never an open device the daemon believes closed, never a good
\* link spoken to in the other protocol's packets, and a display update skipped as
\* a repeat only when the display shows it.
LinkIsCoherent ==
  Settled =>
    /\ connected <=> handle # None
    /\ handle = "good" => framing = Firmware
    /\ handle = "good" /\ last # None => shown = last
    /\ ~connected => framing = "standalone" /\ last = None

\* Once every event has been handled, the status that gates prompts and the tray
\* row says what the link is.
StatusFollowsLink ==
  Settled /\ events = <<>> => status.connected = connected

\* A dead handle is noticed and dropped.
DeadLinkIsDropped == handle = "dead" ~> handle # "dead"

\* While some session is at work, and so ticks come in, a device that stays connected
\* ends up showing the current tab list, whatever happened to the cable.
DisplayCatchesUp == []<>(handle = "good" /\ working => shown = content)
=============================================================================
