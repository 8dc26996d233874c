-------------------------- MODULE DeviceLinkProofs --------------------------
(***************************************************************************)
(* The link is coherent and the status follows it, for any number of       *)
(* emitters and any bounds, as long as probing a device takes longer than  *)
(* a teardown in another thread.                                           *)
(***************************************************************************)
EXTENDS DeviceLink, TLAPS

\* The parts of the state the argument is about.
LinkTypes ==
  /\ handle \in {None, "good", "dead"} /\ connected \in BOOLEAN
  /\ framing \in {"standalone", Firmware}
  /\ reader \in TearingDown \cup {"poll"}
  /\ watcher \in TearingDown \cup {"wait", "done"}
  /\ emit \in [Emitters -> Nat] /\ content \in Nat /\ edits \in Nat

At(pc) == pc \in {reader, watcher}

\* A link is closed before it is flagged as closed, and its traces are erased last:
\* from the close to the end of a teardown nobody opens it anew.
LinkInv ==
  /\ LinkTypes
  /\ ~connected => handle = None
  /\ At("flag") \/ At("reset") \/ At("tell") => handle = None
  /\ connected /\ handle = None => At("flag")
  /\ ~connected => At("reset") \/ (framing = "standalone" /\ last = None)
  /\ hid # Free => ~connected
  /\ handle = "good" => framing = Firmware
  /\ handle = "good" /\ last # None => shown = last

USE DEF deviceVars, linkVars, threadVars, taskVars

\* The order of a teardown.
LEMMA TeardownOrder ==
  /\ TearingDown = {"close", "flag", "reset", "tell"}
  /\ NextPc["close"] = "flag" /\ NextPc["flag"] = "reset"
  /\ NextPc["reset"] = "tell" /\ NextPc["tell"] = "done"
BY DEF TearingDown, NextPc

\* The daemon starts with the link closed.
LEMMA LinkStarts == Init => LinkInv
<1> SUFFICES ASSUME Init PROVE LinkInv OBVIOUS
<1>1. LinkTypes BY TeardownOrder DEF Init, LinkTypes, Firmware
<1>2. ~At("flag") /\ ~At("reset") /\ ~At("tell") BY DEF Init, At
<1> QED BY <1>1, <1>2, DeviceLinkAssumption DEF Init, LinkInv, Free

-----------------------------------------------------------------------------
\* A teardown step in one of the two threads keeps the invariant, whatever the
\* other is at.  `here` is the step it takes, `there` where the other thread is.
LEMMA TeardownKeeps ==
  ASSUME LinkInv, NEW here \in TearingDown, NEW there \in TearingDown \cup {"poll", "wait", "done"},
         here \in {reader, watcher}, there \in {reader, watcher},
         {reader, watcher} = {here, there},
         Teardown(here), NEW after, after \in {NextPc[here], "poll"},
         after = "poll" => here = "tell",
         {reader', watcher'} = {after, there},
         reader' \in TearingDown \cup {"poll"}, watcher' \in TearingDown \cup {"wait", "done"}
  PROVE  LinkInv'
<1>1. LinkTypes' BY DeviceLinkAssumption DEF LinkInv, LinkTypes, Teardown, Defaults
<1>2. hid' = hid /\ shown' = shown BY DEF Teardown
<1>3. CASE here = "close"
  <2>1. handle' = None /\ UNCHANGED <<connected, framing, last>> BY <1>3 DEF Teardown
  <2>2. after = "flag" BY <1>3, TeardownOrder
  <2>3. At("flag")' BY <2>2 DEF At
  <2>4. At("reset") => At("reset")' BY <1>3 DEF At
  <2> QED BY <1>1, <1>2, <2>1, <2>3, <2>4, DeviceLinkAssumption DEF LinkInv
<1>4. CASE here = "flag"
  <2>1. connected' = FALSE /\ UNCHANGED <<handle, framing, last>> BY <1>4 DEF Teardown
  <2>2. handle = None BY <1>4 DEF LinkInv, At
  <2>3. At("reset")' BY <1>4, TeardownOrder DEF At
  <2> QED BY <1>1, <1>2, <2>1, <2>2, <2>3, DeviceLinkAssumption DEF LinkInv
<1>5. CASE here = "reset"
  <2>1. framing' = "standalone" /\ last' = None /\ UNCHANGED <<handle, connected>>
    BY <1>5 DEF Teardown, Defaults
  <2>2. handle = None BY <1>5 DEF LinkInv, At
  <2>3. At("flag") => At("flag")' BY <1>5 DEF At
  <2> QED BY <1>1, <1>2, <2>1, <2>2, <2>3, DeviceLinkAssumption DEF LinkInv
<1>6. CASE here = "tell"
  <2>1. UNCHANGED <<handle, connected, framing, last>> BY <1>6 DEF Teardown
  <2>2. handle = None BY <1>6 DEF LinkInv, At
  <2>3. (At("flag") => At("flag")') /\ (At("reset") => At("reset")') BY <1>6 DEF At
  <2> QED BY <1>1, <1>2, <2>1, <2>2, <2>3, DeviceLinkAssumption DEF LinkInv
<1> QED BY <1>3, <1>4, <1>5, <1>6, TeardownOrder

\* Steps that leave the link and the threads alone.
LEMMA LinkAlone ==
  ASSUME LinkInv, UNCHANGED <<handle, connected, framing, last, reader, watcher, shown, hid>>,
         emit' \in [Emitters -> Nat], content' \in Nat /\ edits' \in Nat
  PROVE  LinkInv'
BY DEF LinkInv, LinkTypes, At

\* A device is opened only while the flag says it is not.
LEMMA OpenKeeps ==
  ASSUME LinkInv, NEW who, Open(who),
         UNCHANGED <<linkVars, reader, watcher, shown, emit, content, edits>>
  PROVE  LinkInv'
<1>1. hid' # Free => ~connected BY DEF Open
<1> QED BY <1>1 DEF LinkInv, LinkTypes, At

\* The reader thread.
LEMMA ReaderKeeps == ASSUME LinkInv, ReaderStep PROVE LinkInv'
<1>1. CASE Ping
  <2>1. reader' \in {"poll", "close"} /\ reader = "poll" BY <1>1 DEF Ping
  <2>2. UNCHANGED <<linkVars, watcher, shown, hid, emit, content, edits>> BY <1>1 DEF Ping
  <2>3. \A pc \in {"flag", "reset", "tell"} : At(pc)' <=> At(pc) BY <2>1, <2>2 DEF At
  <2>4. LinkTypes' BY <2>1, <2>2, TeardownOrder DEF LinkInv, LinkTypes
  <2> QED BY <2>2, <2>3, <2>4 DEF LinkInv
<1>2. CASE ReaderTeardown
  <2>1. Teardown(reader) /\ reader \in TearingDown /\ watcher' = watcher
    BY <1>2 DEF ReaderTeardown
  <2>2. reader' = IF NextPc[reader] = "done" THEN "poll" ELSE NextPc[reader]
    BY <1>2 DEF ReaderTeardown
  <2>3. reader' \in TearingDown \cup {"poll"} /\ (reader' = "poll" => reader = "tell")
    BY <2>1, <2>2, TeardownOrder
  <2>4. watcher \in TearingDown \cup {"wait", "done"} BY DEF LinkInv, LinkTypes
  <2> QED BY <2>1, <2>2, <2>3, <2>4, TeardownKeeps
<1> QED BY <1>1, <1>2 DEF ReaderStep

\* The thread that watches for the device.
LEMMA WatcherKeeps == ASSUME LinkInv, WatcherStep PROVE LinkInv'
<1> USE DEF Noticed
<1>1. CASE Arrived \/ Seen
  BY <1>1, LinkAlone DEF Arrived, Seen, LinkInv, LinkTypes
<1>2. CASE Removed \/ Missed
  <2>1. watcher' \in {"close", "done"} /\ watcher = "wait" BY <1>2 DEF Removed, Missed
  <2>2. UNCHANGED <<handle, connected, framing, last, reader, shown, hid, emit, content, edits>>
    BY <1>2 DEF Removed, Missed
  <2>3. \A pc \in {"flag", "reset", "tell"} : At(pc)' <=> At(pc) BY <2>1, <2>2 DEF At
  <2>4. LinkTypes' BY <2>1, <2>2, TeardownOrder DEF LinkInv, LinkTypes
  <2> QED BY <2>2, <2>3, <2>4 DEF LinkInv
<1>3. CASE WatcherTeardown
  <2>1. /\ Teardown(watcher) /\ watcher \in TearingDown
        /\ reader' = reader /\ watcher' = NextPc[watcher]
    BY <1>3 DEF WatcherTeardown
  <2>2. watcher' \in TearingDown \cup {"wait", "done"} /\ watcher' # "poll" BY <2>1, TeardownOrder
  <2>3. reader \in TearingDown \cup {"poll"} BY DEF LinkInv, LinkTypes
  <2> QED BY <2>1, <2>2, <2>3, TeardownKeeps
<1>4. CASE Unavailable
  <2>1. watcher = "done" /\ watcher' = "wait" BY <1>4 DEF Unavailable
  <2>2. UNCHANGED <<linkVars, reader, shown, hid, emit, content, edits>> BY <1>4 DEF Unavailable
  <2>3. \A pc \in {"flag", "reset", "tell"} : At(pc)' <=> At(pc) BY <2>1, <2>2 DEF At
  <2>4. LinkTypes' BY <2>1, <2>2 DEF LinkInv, LinkTypes
  <2> QED BY <2>2, <2>3, <2>4 DEF LinkInv
<1> QED BY <1>1, <1>2, <1>3, <1>4 DEF WatcherStep

\* The device and its cable.
LEMMA CableKeeps == ASSUME LinkInv, Unplug \/ Plug \/ Break PROVE LinkInv'
<1>1. CASE Unplug
  <2>1. handle' # "good" /\ (handle' = None <=> handle = None) /\ handle' \in {None, "dead"}
    BY <1>1, DeviceLinkAssumption DEF Unplug
  <2>2. UNCHANGED <<connected, framing, last, reader, watcher, emit, content, edits>>
    BY <1>1 DEF Unplug
  <2>3. hid = Free => hid' = Free BY <1>1 DEF Unplug, Free
  <2>4. LinkTypes' BY <2>1, <2>2 DEF LinkInv, LinkTypes
  <2> QED BY <2>1, <2>2, <2>3, <2>4 DEF LinkInv, At
<1>2. CASE Plug BY <1>2, LinkAlone DEF Plug, LinkInv, LinkTypes
<1>3. CASE Break
  BY <1>3, DeviceLinkAssumption DEF Break, LinkInv, LinkTypes, At
<1> QED BY <1>1, <1>2, <1>3

\* A link that opens finds the traces of the last one gone: no teardown is under way.
LEMMA OpenedKeeps == ASSUME SlowProbe, LinkInv, Opened PROVE LinkInv'
<1>1. hid # Free /\ {reader, watcher} \cap TearingDown = {} BY DEF Opened
<1>2. ~At("flag") /\ ~At("reset") /\ ~At("tell") BY <1>1, TeardownOrder DEF At
<1>3. last = None BY <1>1, <1>2 DEF LinkInv
<1>4. /\ connected' = TRUE /\ hid' = Free
      /\ UNCHANGED <<reader, watcher, emit, content, edits, last, shown>>
  BY DEF Opened
<1>5. \/ handle' = "good" /\ framing' = Firmware
      \/ handle' = "dead" /\ framing' = "standalone"
  BY DEF Opened
<1>6. LinkTypes' BY <1>4, <1>5, DeviceLinkAssumption DEF LinkInv, LinkTypes
<1>7. \A pc \in {"flag", "reset", "tell"} : ~At(pc)' BY <1>2, <1>4 DEF At
<1>8. handle' # None /\ (handle' = "good" => framing' = Firmware)
  BY <1>5, DeviceLinkAssumption DEF Firmware
<1> QED BY <1>3, <1>4, <1>6, <1>7, <1>8 DEF LinkInv

\* The other tasks.
LEMMA TasksKeep ==
  ASSUME LinkInv,
         ClientOpens \/ Handle \/ \E e \in Emitters : Edit(e) \/ Tick(e) \/ Push(e)
  PROVE  LinkInv'
<1>1. CASE ClientOpens BY <1>1, OpenKeeps DEF ClientOpens
<1>2. CASE Handle
  <2>1. UNCHANGED <<linkVars, reader, watcher, shown, emit, content, edits>> BY <1>2 DEF Handle
  <2>2. CASE Open("loop") BY <2>1, <2>2, OpenKeeps
  <2>3. CASE hid' = hid BY <2>1, <2>3, LinkAlone DEF LinkInv, LinkTypes
  <2> QED BY <1>2, <2>2, <2>3 DEF Handle
<1>3. ASSUME NEW e \in Emitters, Edit(e) \/ Tick(e) PROVE LinkInv'
  <2>1. emit' \in [Emitters -> Nat] /\ content' \in Nat /\ edits' \in Nat
    BY <1>3 DEF Edit, Tick, LinkInv, LinkTypes
  <2> QED BY <1>3, <2>1, LinkAlone DEF Edit, Tick
<1>4. ASSUME NEW e \in Emitters, Push(e) PROVE LinkInv'
  <2>1. LinkTypes' BY <1>4 DEF Push, LinkInv, LinkTypes
  <2>2. UNCHANGED <<handle, connected, framing, reader, watcher, hid>> BY <1>4 DEF Push
  <2>3. handle # "good" => last' = last BY <1>4 DEF Push, Remembered
  <2>4. handle = "good" /\ last' # None => shown' = last'
    BY <1>4 DEF Push, Remembered, LinkInv
  <2> QED BY <2>1, <2>2, <2>3, <2>4, DeviceLinkAssumption DEF LinkInv, At
<1> QED BY <1>1, <1>2, <1>3, <1>4

\* Every step keeps the invariant.
LEMMA LinkSteps == ASSUME SlowProbe, LinkInv, [Next]_vars PROVE LinkInv'
<1>1. CASE UNCHANGED vars BY <1>1 DEF vars, LinkInv, LinkTypes, At
<1> QED BY <1>1, CableKeeps, ReaderKeeps, WatcherKeeps, OpenedKeeps, TasksKeep DEF Next

-----------------------------------------------------------------------------
\* Between teardowns the flag, the handle, the framing and the last display payload
\* agree, in every behaviour of the threads and tasks of hid/device.rs.
THEOREM LinkStaysCoherent == ASSUME SlowProbe PROVE Spec => []LinkIsCoherent
<1>1. LinkInv => LinkIsCoherent
  <2> SUFFICES ASSUME LinkInv, Settled PROVE LinkIsCoherent!2 BY DEF LinkIsCoherent
  <2>1. ~At("flag") /\ ~At("reset") BY TeardownOrder DEF At, Settled
  <2> QED BY <2>1 DEF LinkInv
<1> QED BY <1>1, LinkStarts, LinkSteps, PTL DEF Spec
-----------------------------------------------------------------------------
\* What the events on their way will make of the status.

EventNames == {"connected", "disconnected", "available", "unavailable"}
Words == {"connected", "disconnected"}
Word(c) == IF c THEN "connected" ELSE "disconnected"

\* The last word on the connection is c: that of the events, or else the status itself.
Says(c) ==
  \/ \E i \in 1 .. Len(events) :
       /\ events[i] = Word(c)
       /\ \A k \in 1 .. Len(events) : k > i => events[k] \notin Words
  \/ /\ \A k \in 1 .. Len(events) : events[k] \notin Words
     /\ status.connected = c

\* The last word is true, but for a teardown that has cleared the flag and not yet told.
StatusInv ==
  /\ LinkInv
  /\ events \in Seq(EventNames) /\ status \in [connected : BOOLEAN, available : BOOLEAN]
  /\ At("reset") \/ At("tell") => ~connected
  /\ ~At("reset") /\ ~At("tell") => Says(connected)

\* The daemon starts with a word on nothing but the device's presence.
LEMMA StatusStarts == Init => StatusInv
<1> SUFFICES ASSUME Init PROVE StatusInv OBVIOUS
<1>1. LinkInv BY LinkStarts
<1>2. events = <<"available">> /\ status.connected = FALSE /\ connected = FALSE BY DEF Init
<1>3. Len(events) = 1 /\ events[1] = "available" BY <1>2
<1>4. Says(FALSE)
  <2>1. \A k \in 1 .. Len(events) : events[k] \notin Words BY <1>3 DEF Words
  <2> QED BY <1>2, <2>1 DEF Says
<1>5. ~At("reset") /\ ~At("tell") BY DEF Init, At
<1>6. events \in Seq(EventNames) BY <1>2 DEF EventNames
<1>7. status \in [connected : BOOLEAN, available : BOOLEAN] BY DEF Init
<1> QED BY <1>1, <1>2, <1>4, <1>5, <1>6, <1>7 DEF StatusInv

\* A word that is sent is the last one; any other event leaves the last word as it is.
LEMMA SentLast ==
  ASSUME StatusInv, NEW e \in EventNames, events' = Append(events, e), status' = status
  PROVE  /\ events' \in Seq(EventNames)
         /\ \A c \in BOOLEAN : e = Word(c) => Says(c)'
         /\ \A c \in BOOLEAN : e \notin Words /\ Says(c) => Says(c)'
<1>1. events \in Seq(EventNames) BY DEF StatusInv
<1>2. /\ events' \in Seq(EventNames) /\ Len(events') = Len(events) + 1 /\ Len(events) \in Nat
      /\ events'[Len(events) + 1] = e
      /\ \A k \in 1 .. Len(events) : events'[k] = events[k]
  BY <1>1
<1>3. ASSUME NEW c \in BOOLEAN, e = Word(c) PROVE Says(c)'
  <2>1. \A k \in 1 .. Len(events') : ~(k > Len(events) + 1) BY <1>2
  <2>2. Len(events) + 1 \in 1 .. Len(events') BY <1>2
  <2> QED BY <1>2, <1>3, <2>1, <2>2 DEF Says, Word
<1>4. ASSUME NEW c \in BOOLEAN, e \notin Words, Says(c) PROVE Says(c)'
  <2>1. CASE \E i \in 1 .. Len(events) :
               events[i] = Word(c) /\ \A k \in 1 .. Len(events) : k > i => events[k] \notin Words
    <3>1. PICK i \in 1 .. Len(events) :
                 events[i] = Word(c) /\ \A k \in 1 .. Len(events) : k > i => events[k] \notin Words
      BY <2>1
    <3>2. i \in 1 .. Len(events') /\ events'[i] = Word(c) BY <1>2, <3>1
    <3>3. \A k \in 1 .. Len(events') : k > i => events'[k] \notin Words BY <1>2, <1>4, <3>1
    <3> QED BY <3>2, <3>3 DEF Says
  <2>2. CASE (\A k \in 1 .. Len(events) : events[k] \notin Words) /\ status.connected = c
    <3>1. \A k \in 1 .. Len(events') : events'[k] \notin Words BY <1>2, <1>4, <2>2
    <3> QED BY <2>2, <3>1 DEF Says
  <2> QED BY <1>4, <2>1, <2>2 DEF Says
<1> QED BY <1>2, <1>3, <1>4

\* Handling the oldest event leaves the last word as it is.
LEMMA HandledLast ==
  ASSUME StatusInv, Handle
  PROVE  /\ events' \in Seq(EventNames) /\ status' \in [connected : BOOLEAN, available : BOOLEAN]
         /\ \A c \in BOOLEAN : Says(c) => Says(c)'
<1>1. /\ events \in Seq(EventNames) /\ events # <<>> /\ events' = Tail(events)
      /\ status \in [connected : BOOLEAN, available : BOOLEAN]
  BY DEF StatusInv, Handle
<1>2. /\ events' \in Seq(EventNames) /\ Len(events') = Len(events) - 1 /\ Len(events) \in Nat \ {0}
      /\ Head(events) = events[1] /\ Head(events) \in EventNames
      /\ \A k \in 1 .. Len(events') : events'[k] = events[k + 1]
  BY <1>1
<1>3. /\ status' \in [connected : BOOLEAN, available : BOOLEAN]
      /\ \A c \in BOOLEAN : events[1] = Word(c) => status'.connected = c
      /\ events[1] \notin Words => status'.connected = status.connected
  BY <1>1, <1>2 DEF Handle, EventNames, Words, Word
<1>4. ASSUME NEW c \in BOOLEAN, Says(c) PROVE Says(c)'
  <2>1. CASE \E i \in 1 .. Len(events) :
               events[i] = Word(c) /\ \A k \in 1 .. Len(events) : k > i => events[k] \notin Words
    <3>1. PICK i \in 1 .. Len(events) :
                 events[i] = Word(c) /\ \A k \in 1 .. Len(events) : k > i => events[k] \notin Words
      BY <2>1
    <3>2. \A k \in 1 .. Len(events') : k + 1 > i => events'[k] \notin Words BY <1>2, <3>1
    <3>3. CASE i = 1
      <4>1. \A k \in 1 .. Len(events') : events'[k] \notin Words BY <1>2, <3>2, <3>3
      <4> QED BY <1>3, <3>1, <3>3, <4>1 DEF Says
    <3>4. CASE i # 1
      <4>1. i - 1 \in 1 .. Len(events') /\ events'[i - 1] = Word(c) BY <1>2, <3>1, <3>4
      <4>2. \A k \in 1 .. Len(events') : k > i - 1 => events'[k] \notin Words BY <3>2, <1>2
      <4> QED BY <4>1, <4>2 DEF Says
    <3> QED BY <3>3, <3>4
  <2>2. CASE (\A k \in 1 .. Len(events) : events[k] \notin Words) /\ status.connected = c
    <3>1. events[1] \notin Words /\ \A k \in 1 .. Len(events') : events'[k] \notin Words
      BY <1>2, <2>2
    <3> QED BY <1>3, <2>2, <3>1 DEF Says
  <2> QED BY <1>4, <2>1, <2>2 DEF Says
<1> QED BY <1>2, <1>3, <1>4

\* Steps that send and handle nothing, and leave the flag and the teardowns alone.
LEMMA WordAlone ==
  ASSUME StatusInv, LinkInv', UNCHANGED <<connected, events, status>>,
         \A pc \in {"reset", "tell"} : At(pc)' <=> At(pc)
  PROVE  StatusInv'
BY DEF StatusInv, Says

\* A teardown tells of what it did before it ends.
LEMMA TeardownTells ==
  ASSUME StatusInv, LinkInv', NEW here \in TearingDown, NEW there,
         {reader, watcher} = {here, there}, Teardown(here),
         NEW after, after \in {NextPc[here], "poll"}, after = "poll" => here = "tell",
         {reader', watcher'} = {after, there}
  PROVE  StatusInv'
<1>1. status' = status BY DEF Teardown
<1>2. status' \in [connected : BOOLEAN, available : BOOLEAN] BY <1>1 DEF StatusInv
<1>3. CASE here = "close"
  <2>1. UNCHANGED <<connected, events>> BY <1>3 DEF Teardown
  <2>2. after = "flag" BY <1>3, TeardownOrder
  <2>3. \A pc \in {"reset", "tell"} : At(pc)' <=> At(pc) BY <1>3, <2>2 DEF At
  <2> QED BY <1>1, <2>1, <2>3, WordAlone
<1>4. CASE here = "flag"
  <2>1. connected' = FALSE /\ events' = events BY <1>4 DEF Teardown
  <2>2. At("reset")' BY <1>4, TeardownOrder DEF At
  <2> QED BY <1>2, <2>1, <2>2 DEF StatusInv
<1>5. CASE here = "reset"
  <2>1. UNCHANGED <<connected, events>> /\ ~connected BY <1>5 DEF Teardown, StatusInv, At
  <2>2. At("tell")' BY <1>5, TeardownOrder DEF At
  <2> QED BY <1>2, <2>1, <2>2 DEF StatusInv
<1>6. CASE here = "tell"
  <2>1. connected' = connected /\ ~connected BY <1>6 DEF Teardown, StatusInv, At
  <2>2. events' = Append(events, "disconnected") BY <1>6 DEF Teardown
  <2>3. events' \in Seq(EventNames) /\ Says(FALSE)'
    BY <1>1, <2>2, SentLast DEF EventNames, Word
  <2> QED BY <1>2, <2>1, <2>3 DEF StatusInv, LinkInv, LinkTypes
<1> QED BY <1>3, <1>4, <1>5, <1>6, TeardownOrder

\* The reader thread.
LEMMA ReaderTells == ASSUME StatusInv, LinkInv', ReaderStep PROVE StatusInv'
<1>1. CASE Ping
  <2>1. reader' \in {"poll", "close"} /\ reader = "poll" /\ watcher' = watcher BY <1>1 DEF Ping
  <2>2. \A pc \in {"reset", "tell"} : At(pc)' <=> At(pc) BY <2>1 DEF At
  <2> QED BY <1>1, <2>2, WordAlone DEF Ping
<1>2. CASE ReaderTeardown
  <2>1. Teardown(reader) /\ reader \in TearingDown /\ watcher' = watcher
    BY <1>2 DEF ReaderTeardown
  <2>2. reader' = IF NextPc[reader] = "done" THEN "poll" ELSE NextPc[reader]
    BY <1>2 DEF ReaderTeardown
  <2>3. reader' \in {NextPc[reader], "poll"} /\ (reader' = "poll" => reader = "tell")
    BY <2>1, <2>2, TeardownOrder
  <2> QED BY <2>1, <2>3, TeardownTells
<1> QED BY <1>1, <1>2 DEF ReaderStep

\* The thread that watches for the device.
LEMMA WatcherTells == ASSUME StatusInv, LinkInv', WatcherStep PROVE StatusInv'
<1>1. CASE Arrived \/ Seen \/ Unavailable
  <2>1. connected' = connected /\ status' = status BY <1>1 DEF Arrived, Seen, Unavailable
  <2>2. \A pc \in {"reset", "tell"} : At(pc)' <=> At(pc)
    BY <1>1 DEF Arrived, Seen, Unavailable, At
  <2>3. CASE events' = events BY <2>1, <2>2, <2>3, WordAlone
  <2>4. CASE \E e \in {"available", "unavailable"} : events' = Append(events, e)
    <3>1. events' \in Seq(EventNames) /\ \A c \in BOOLEAN : Says(c) => Says(c)'
      BY <2>1, <2>4, SentLast DEF EventNames, Words
    <3> QED BY <2>1, <2>2, <3>1 DEF StatusInv, LinkInv, LinkTypes
  <2> QED BY <1>1, <2>3, <2>4 DEF Arrived, Seen, Unavailable
<1>2. CASE Removed \/ Missed
  <2>1. watcher' \in {"close", "done"} /\ watcher = "wait" /\ reader' = reader
    BY <1>2 DEF Removed, Missed
  <2>2. \A pc \in {"reset", "tell"} : At(pc)' <=> At(pc) BY <2>1 DEF At
  <2> QED BY <1>2, <2>2, WordAlone DEF Removed, Missed
<1>3. CASE WatcherTeardown
  <2>1. /\ Teardown(watcher) /\ watcher \in TearingDown
        /\ reader' = reader /\ watcher' = NextPc[watcher]
    BY <1>3 DEF WatcherTeardown
  <2>2. watcher' # "poll" BY <2>1, TeardownOrder
  <2> QED BY <2>1, <2>2, TeardownTells
<1> QED BY <1>1, <1>2, <1>3 DEF WatcherStep

\* Every step keeps the last word true.
LEMMA StatusSteps == ASSUME SlowProbe, StatusInv, [Next]_vars PROVE StatusInv'
<1>1. LinkInv' BY LinkSteps DEF StatusInv
<1>2. CASE UNCHANGED vars BY <1>1, <1>2, WordAlone DEF vars, At
<1>3. CASE Unplug \/ Plug \/ Break
  BY <1>1, <1>3, WordAlone DEF Unplug, Plug, Break, At
<1>4. CASE Opened
  <2>1. connected' = TRUE /\ status' = status /\ events' = Append(events, "connected")
    BY <1>4 DEF Opened
  <2>2. ~At("reset")' /\ ~At("tell")' BY <1>4, TeardownOrder DEF Opened, At
  <2>3. events' \in Seq(EventNames) /\ Says(TRUE)' BY <2>1, SentLast DEF EventNames, Word
  <2> QED BY <1>1, <2>1, <2>2, <2>3 DEF StatusInv
<1>5. CASE Handle
  <2>1. connected' = connected /\ \A pc \in {"reset", "tell"} : At(pc)' <=> At(pc)
    BY <1>5 DEF Handle, At
  <2> QED BY <1>1, <1>5, <2>1, HandledLast DEF StatusInv, LinkInv, LinkTypes
<1>6. CASE ClientOpens \/ \E e \in Emitters : Edit(e) \/ Tick(e) \/ Push(e)
  BY <1>1, <1>6, WordAlone DEF ClientOpens, Edit, Tick, Push, At
<1> QED BY <1>1, <1>2, <1>3, <1>4, <1>5, <1>6, ReaderTells, WatcherTells DEF Next

\* Once every event is handled and no teardown is under way, the status that gates the
\* prompts is the link's, in every behaviour of the threads of hid/device.rs and the event
\* loop of main.rs.
THEOREM StatusIsTheLinks == ASSUME SlowProbe PROVE Spec => []StatusFollowsLink
<1>1. StatusInv => StatusFollowsLink
  <2> SUFFICES ASSUME StatusInv, Settled, events = <<>> PROVE status.connected = connected
    BY DEF StatusFollowsLink
  <2>1. ~At("reset") /\ ~At("tell") BY TeardownOrder DEF At, Settled
  <2>2. Says(connected) BY <2>1 DEF StatusInv
  <2>3. Len(events) = 0 OBVIOUS
  <2> QED BY <2>2, <2>3 DEF Says
<1> QED BY <1>1, StatusStarts, StatusSteps, PTL DEF Spec
=============================================================================
