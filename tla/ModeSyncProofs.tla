--------------------------- MODULE ModeSyncProofs ---------------------------
(***************************************************************************)
(* The daemon takes no echo for a tap, and at rest the LED shows the mode  *)
(* of the active session's Claude; for any sessions, any modes and any     *)
(* bounds, as long as changes do not overlap (Overlap is FALSE).           *)
(*                                                                         *)
(* The first part follows the reports on their way: all of them are taps,  *)
(* but for the oldest, which may repeat what the daemon has on record.     *)
(* The second follows the modes: what Claude has turned to since a hook    *)
(* last brought news of it, and who still has to show that news.           *)
(***************************************************************************)
EXTENDS ModeSync, TLAPS

\* What a syncer may be at.
Jobs ==
  {Idle} \cup [pc : {"read"}] \cup [pc : {"store"}, mode : Mode, show : BOOLEAN]
    \cup [pc : {"flush"}, copy : [Sessions -> Mode \cup {None}], show : BOOLEAN]
    \cup [pc : {"record", "write"}, mode : Mode] \cup [pc : {"drain"}, left : 1 .. Reads]

ModeTypes ==
  /\ led \in Mode /\ wire \in Seq(Mode) /\ events \in Seq(Mode)
  /\ claude \in [Sessions -> Mode] /\ keys \in [Sessions -> Nat]
  /\ {known, last, disk} \subseteq [Sessions -> Mode \cup {None}]
  /\ active \in Sessions /\ status \in [mode : Mode, initialized : BOOLEAN]
  /\ job \in [Syncers -> Jobs] /\ inject \in BOOLEAN
  /\ {taps, typed, moved, shiftTabs} \subseteq Nat /\ missed \in BOOLEAN
  /\ turns \in [Sessions -> Nat]

\* The next mode is a mode.
LEMMA NextIsMode == \A m \in Mode : NextMode(m) \in Mode
BY ModeSyncAssumption DEF Mode, NextMode

\* Every session's hook task is a syncer, and so is the desk.
LEMMA SyncersAre == Sessions \subseteq Syncers /\ Desk \in Syncers
BY DEF Syncers

\* What a job carries, by where it is.
LEMMA JobCarries ==
  ASSUME NEW x \in Jobs
  PROVE  /\ x.pc = "store" => x.mode \in Mode /\ x.show \in BOOLEAN
         /\ x.pc = "flush" => x.copy \in [Sessions -> Mode \cup {None}] /\ x.show \in BOOLEAN
         /\ x.pc \in {"record", "write"} => /\ x = [pc |-> x.pc, mode |-> x.mode]
                                            /\ x.mode \in Mode
         /\ x.pc = "drain" => x = [pc |-> x.pc, left |-> x.left] /\ x.left \in 1 .. Reads
BY DEF Jobs, Idle

\* What becomes of a job that goes on.
LEMMA JobGoesOn ==
  ASSUME NEW x \in Jobs
  PROVE  /\ x.pc = "drain" =>
              [x EXCEPT !.left = x.left - 1] = [pc |-> "drain", left |-> x.left - 1]
         /\ x.pc = "record" => [x EXCEPT !.pc = "write"] = [pc |-> "write", mode |-> x.mode]
<1>1. ASSUME x.pc = "drain"
      PROVE  [x EXCEPT !.left = x.left - 1] = [pc |-> "drain", left |-> x.left - 1]
  <2>1. PICK n \in 1 .. Reads : x = [pc |-> "drain", left |-> n]
    BY <1>1, JobCarries
  <2>2. QED
    BY <2>1
<1>2. ASSUME x.pc = "record"
      PROVE  [x EXCEPT !.pc = "write"] = [pc |-> "write", mode |-> x.mode]
  <2>1. PICK m \in Mode : x = [pc |-> "record", mode |-> m]
    BY <1>2, JobCarries
  <2>2. QED
    BY <2>1
<1>3. QED
  BY <1>1, <1>2

\* Jobs of each kind.
LEMMA JobsAre ==
  /\ Idle \in Jobs /\ \A show \in BOOLEAN : Then(show) \in Jobs
  /\ \A m \in Mode, show \in BOOLEAN : [pc |-> "store", mode |-> m, show |-> show] \in Jobs
  /\ \A c \in [Sessions -> Mode \cup {None}], show \in BOOLEAN :
       [pc |-> "flush", copy |-> c, show |-> show] \in Jobs
  /\ \A m \in Mode \cup {None} : Aim(m) \in Jobs
  /\ \A m \in Mode : [pc |-> "write", mode |-> m] \in Jobs
  /\ \A n \in 1 .. Reads : [pc |-> "drain", left |-> n] \in Jobs
BY DEF Jobs, Then, Aim, Idle

\* A step of one syncer leaves the others' jobs alone.
LEMMA JobKept ==
  ASSUME job \in [Syncers -> Jobs], NEW j \in Syncers, NEW x \in Jobs
  PROVE  [job EXCEPT ![j] = x] \in [Syncers -> Jobs]
OBVIOUS

\* Every step keeps the types.
LEMMA NextKeepsTypes ==
  ASSUME ModeTypes, [Next]_vars
  PROVE  ModeTypes'
<1> USE DEF ModeTypes
<1>1. CASE Tap
  <2>1. NextMode(led) \in Mode
    BY NextIsMode
  <2>2. missed' \in BOOLEAN
    BY <1>1 DEF Tap
  <2>3. QED
    BY <1>1, <2>1, <2>2 DEF Tap, daemonVars
<1>2. CASE Poll
  <2>1. Head(wire) \in Mode /\ Tail(wire) \in Seq(Mode)
    BY <1>2 DEF Poll
  <2>2. QED
    BY <1>2, <2>1 DEF Poll, countVars
<1>3. CASE Handle
  BY <1>3 DEF Handle, worldVars, countVars
<1>4. CASE Inject
  <2>1. keys[active] + 1 \in Nat
    OBVIOUS
  <2>2. keys' \in [Sessions -> Nat]
    BY <1>4, <2>1 DEF Inject
  <2>3. shiftTabs' \in Nat
    BY <1>4 DEF Inject
  <2>4. QED
    BY <1>4, <2>2, <2>3 DEF Inject
<1>5. ASSUME NEW s \in Sessions, Type(s) \/ Injected(s)
      PROVE  ModeTypes'
  <2>1. NextMode(claude[s]) \in Mode
    BY NextIsMode
  <2>2. claude' \in [Sessions -> Mode]
    BY <1>5, <2>1 DEF Type, Injected
  <2>3. keys[s] > 0 => keys[s] - 1 \in Nat
    OBVIOUS
  <2>4. keys' \in [Sessions -> Nat]
    BY <1>5, <2>3 DEF Type, Injected
  <2>5. turns[s] + 1 \in Nat
    OBVIOUS
  <2>6. turns' \in [Sessions -> Nat]
    BY <1>5, <2>5 DEF Type, Injected
  <2>7. QED
    BY <1>5, <2>2, <2>4, <2>6 DEF Type, Injected, daemonVars
<1>6. ASSUME NEW s \in Sessions, Hook(s)
      PROVE  ModeTypes'
  <2>1. [pc |-> "store", mode |-> claude[s], show |-> s = active] \in Jobs
    BY JobsAre
  <2>2. job' \in [Syncers -> Jobs]
    BY <1>6, <2>1, SyncersAre, JobKept DEF Hook
  <2>3. QED
    BY <1>6, <2>2 DEF Hook, Noted, worldVars
<1>7. ASSUME NEW s \in Sessions, Store(s)
      PROVE  ModeTypes'
  <2>1. job[s] \in Jobs /\ job[s].pc = "store" /\ s \in Syncers
    BY <1>7, SyncersAre DEF Store
  <2>2. job[s].mode \in Mode /\ job[s].show \in BOOLEAN
    BY <2>1, JobCarries
  <2>3. last' \in [Sessions -> Mode \cup {None}]
    BY <1>7, <2>2 DEF Store
  <2>4. /\ Then(job[s].show) \in Jobs
        /\ [pc |-> "flush", copy |-> last', show |-> job[s].show] \in Jobs
    BY <2>2, <2>3, JobsAre
  <2>5. job' = [job EXCEPT ![s] = Then(job[s].show)]
          \/ job' = [job EXCEPT ![s] = [pc |-> "flush", copy |-> last', show |-> job[s].show]]
    BY <1>7, <2>1 DEF Store
  <2>6. job' \in [Syncers -> Jobs]
    BY <2>1, <2>4, <2>5, JobKept
  <2>7. QED
    BY <1>7, <2>3, <2>6 DEF Store, worldVars, countVars
<1>8. ASSUME NEW s \in Sessions, Flush(s)
      PROVE  ModeTypes'
  <2>1. job[s] \in Jobs /\ job[s].pc = "flush" /\ s \in Syncers
    BY <1>8, SyncersAre DEF Flush
  <2>2. job[s].copy \in [Sessions -> Mode \cup {None}] /\ Then(job[s].show) \in Jobs
    BY <2>1, JobCarries, JobsAre
  <2>3. job' \in [Syncers -> Jobs]
    BY <1>8, <2>1, <2>2, JobKept DEF Flush
  <2>4. QED
    BY <1>8, <2>2, <2>3 DEF Flush, worldVars, countVars
<1>9. ASSUME NEW s \in Sessions, Focus(s)
      PROVE  ModeTypes'
  <2>1. [pc |-> "read"] \in Jobs
    BY DEF Jobs
  <2>2. job' \in [Syncers -> Jobs]
    BY <1>9, <2>1, SyncersAre, JobKept DEF Focus
  <2>3. QED
    BY <1>9, <2>2 DEF Focus, worldVars
<1>10. ASSUME NEW j \in Syncers, Read(j) \/ Drained(j)
      PROVE  ModeTypes'
  <2>1. Target \in Mode \cup {None}
    BY DEF Target
  <2>2. Aim(Target) \in Jobs /\ Idle \in Jobs
    BY <2>1, JobsAre
  <2>3. job' \in [Syncers -> Jobs]
    BY <1>10, <2>2, JobKept DEF Read, Drained
  <2>4. QED
    BY <1>10, <2>3 DEF Read, Drained, worldVars, countVars
<1>11. ASSUME NEW j \in Syncers, Record(j)
       PROVE  ModeTypes'
  <2>1. job[j] \in Jobs /\ job[j].pc = "record" /\ job[j].mode \in Mode
    BY <1>11, JobCarries DEF Record
  <2>2. [job[j] EXCEPT !.pc = "write"] = [pc |-> "write", mode |-> job[j].mode]
    BY <2>1, JobGoesOn
  <2>3. [job[j] EXCEPT !.pc = "write"] \in Jobs /\ Idle \in Jobs
    BY <2>1, <2>2, JobsAre
  <2>4. job' = [job EXCEPT ![j] = Idle] \/ job' = [job EXCEPT ![j] = [job[j] EXCEPT !.pc = "write"]]
    BY <1>11 DEF Record
  <2>5. job' \in [Syncers -> Jobs]
    BY <2>3, <2>4, JobKept
  <2>6. QED
    BY <1>11, <2>1, <2>5 DEF Record, Recorded, worldVars, countVars
<1>12. ASSUME NEW j \in Syncers, Write(j)
       PROVE  ModeTypes'
  <2>1. job[j].mode \in Mode
    BY <1>12, JobCarries DEF Write
  <2>2. [pc |-> "drain", left |-> Reads] \in Jobs
    BY JobsAre DEF Reads
  <2>3. job' \in [Syncers -> Jobs]
    BY <1>12, <2>2, JobKept DEF Write
  <2>4. missed' \in BOOLEAN
    BY <1>12 DEF Write
  <2>5. QED
    BY <1>12, <2>1, <2>3, <2>4 DEF Write
<1>13. ASSUME NEW j \in Syncers, Drain(j)
       PROVE  ModeTypes'
  <2>1. job[j] \in Jobs /\ job[j].pc = "drain" /\ job[j].left \in 1 .. Reads
    BY <1>13, JobCarries DEF Drain
  <2> DEFINE left == [job[j] EXCEPT !.left = job[j].left - 1]
             then == IF job[j].left = 1 THEN Idle ELSE left
  <2>2. left = [pc |-> "drain", left |-> job[j].left - 1]
    BY <2>1, JobGoesOn
  <2>3. job[j].left # 1 => job[j].left - 1 \in 1 .. Reads
    BY <2>1 DEF Reads
  <2>4. then \in Jobs
    BY <2>2, <2>3, JobsAre
  <2>5. job' = [job EXCEPT ![j] = then]
    BY <1>13 DEF Drain
  <2>6. job' \in [Syncers -> Jobs]
    BY <2>4, <2>5, JobKept
  <2>7. missed' \in BOOLEAN
    BY <1>13 DEF Drain
  <2>8. QED
    BY <1>13, <2>6, <2>7 DEF Drain
<1>14. CASE UNCHANGED vars
  BY <1>14 DEF vars, worldVars, daemonVars, countVars
<1>15. QED
  BY <1>1, <1>2, <1>3, <1>4, <1>5, <1>6, <1>7, <1>8, <1>9, <1>10, <1>11, <1>12, <1>13, <1>14
  DEF Next, Session, Sync

-----------------------------------------------------------------------------
\* One change of the LED at a time

Phases == {"record", "write", "drain"}

\* No two syncers are changing the LED.
OneSyncs ==
  \A j, k \in Syncers : job[j].pc \in Phases /\ job[k].pc \in Phases => j = k

\* Where a change of the LED is: every report was handled when it began, and the first
\* that it finds is its own echo.
Changing(j) ==
  /\ job[j].pc \in Phases => status.initialized
  /\ job[j].pc \in {"record", "write"} => Heard
  /\ job[j].pc = "write" => status.mode = job[j].mode
  /\ job[j].pc = "drain" =>
       /\ events = <<>>
       /\ job[j].left = Reads => wire # <<>> /\ Head(wire) = status.mode

\* The reports on their way, oldest first: those in the channel, then those on the wire.
OnWay == Len(events) + Len(wire)
NextReport == IF events # <<>> THEN Head(events) ELSE Head(wire)
LastReport == IF wire # <<>> THEN wire[Len(wire)]
              ELSE IF events # <<>> THEN events[Len(events)] ELSE status.mode

\* The last report says what the LED shows, unless it is about to be written or that
\* report was dropped; and the first of a connection is not a tap.
ReportsRight ==
  /\ (\A j \in Syncers : job[j].pc # "write") /\ ~missed => LastReport = led
  /\ missed => Heard
  /\ ~status.initialized => OnWay > 0 /\ NextReport = status.mode

\* Each Shift+Tab, injected or owed, and each report on its way is of a tap; but for one
\* report, the oldest, which says what the daemon has recorded.
Owing == IF inject THEN 1 ELSE 0
TapsCounted ==
  \/ shiftTabs + Owing + OnWay <= taps
  \/ OnWay > 0 /\ NextReport = status.mode /\ shiftTabs + Owing + OnWay <= taps + 1

InStep ==
  ModeTypes /\ OneSyncs /\ (\A j \in Syncers : Changing(j)) /\ ReportsRight /\ TapsCounted

\* A report that the reader thread takes over keeps its place.
LEMMA PollMoves ==
  ASSUME ModeTypes, Poll
  PROVE  OnWay' = OnWay /\ NextReport' = NextReport /\ LastReport' = LastReport
<1>1. /\ wire \in Seq(Mode) /\ events \in Seq(Mode) /\ wire # <<>>
      /\ events' = Append(events, Head(wire)) /\ wire' = Tail(wire) /\ status' = status
  BY DEF ModeTypes, Poll
<1>2. /\ Len(wire) \in Nat \ {0} /\ Len(events) \in Nat /\ Len(wire') = Len(wire) - 1
      /\ Len(events') = Len(events) + 1 /\ events' # <<>>
  BY <1>1
<1>3. OnWay' = OnWay
  BY <1>2 DEF OnWay
<1>4. NextReport' = NextReport
  <2>1. CASE events = <<>>
    BY <1>1, <1>2, <2>1 DEF NextReport
  <2>2. CASE events # <<>>
    <3>1. events'[1] = events[1]
      BY <1>1, <1>2, <2>2
    <3>2. QED
      BY <1>1, <1>2, <2>2, <3>1 DEF NextReport
  <2>3. QED
    BY <2>1, <2>2
<1>5. LastReport' = LastReport
  <2>1. CASE wire' = <<>>
    <3>1. Len(wire) = 1 /\ events'[Len(events')] = wire[1]
      BY <1>1, <1>2, <2>1
    <3>2. QED
      BY <1>1, <1>2, <2>1, <3>1 DEF LastReport
  <2>2. CASE wire' # <<>>
    <3>1. wire'[Len(wire')] = wire[Len(wire)]
      BY <1>1, <1>2, <2>2
    <3>2. QED
      BY <1>1, <2>2, <3>1 DEF LastReport
  <2>3. QED
    BY <2>1, <2>2
<1>6. QED
  BY <1>3, <1>4, <1>5

\* The report that is handled is the oldest; what is then recorded is the last one, if no
\* other follows.
LEMMA HandleTakes ==
  ASSUME ModeTypes, Handle
  PROVE  /\ OnWay > 0 /\ NextReport = Head(events) /\ status'.mode = NextReport
         /\ OnWay' = OnWay - 1 /\ LastReport' = LastReport
<1>1. /\ wire \in Seq(Mode) /\ events \in Seq(Mode) /\ events # <<>>
      /\ events' = Tail(events) /\ wire' = wire /\ status'.mode = Head(events)
  BY DEF ModeTypes, Handle, worldVars
<1>2. Len(events) \in Nat \ {0} /\ Len(wire) \in Nat /\ Len(events') = Len(events) - 1
  BY <1>1
<1>3. LastReport' = LastReport
  <2>1. CASE events' = <<>>
    <3>1. Len(events') = 0
      BY <2>1
    <3>2. Len(events) = 1 /\ Head(events) = events[1]
      BY <1>1, <1>2, <3>1
    <3>3. QED
      BY <1>1, <2>1, <3>2 DEF LastReport
  <2>2. CASE events' # <<>>
    <3>1. events'[Len(events')] = events[Len(events)]
      BY <1>1, <1>2, <2>2
    <3>2. QED
      BY <1>1, <2>2, <3>1 DEF LastReport
  <2>3. QED
    BY <2>1, <2>2
<1>4. QED
  BY <1>1, <1>2, <1>3 DEF OnWay, NextReport

\* A write finds no report on its way, and leaves one: its echo.
LEMMA WriteEchoes ==
  ASSUME InStep, NEW j \in Syncers, Write(j)
  PROVE  /\ wire = <<>> /\ events = <<>> /\ status.mode = job[j].mode /\ led' = job[j].mode
         /\ wire' = <<job[j].mode>> /\ events' = <<>> /\ status' = status
         /\ OnWay = 0 /\ OnWay' = 1 /\ NextReport' = job[j].mode
<1>1. wire = <<>> /\ events = <<>> /\ status.mode = job[j].mode
  BY DEF InStep, Changing, Heard, Write
<1>2. wire' = <<job[j].mode>> /\ events' = <<>>
  BY <1>1 DEF Write
<1>3. QED
  BY <1>1, <1>2 DEF Write, OnWay, NextReport

\* What is dropped first is the echo; if it is the last report on its way, so is what
\* the LED shows.
LEMMA DrainDrops ==
  ASSUME InStep, NEW j \in Syncers, Drain(j)
  PROVE  /\ wire # <<>> /\ events = <<>> /\ events' = <<>> /\ status' = status /\ led' = led
         /\ status.initialized /\ ~missed /\ OnWay > 0 /\ OnWay' = OnWay - 1
         /\ missed' \/ LastReport' = led
         /\ missed' => wire' = <<>>
<1>1. /\ job[j].pc = "drain" /\ wire # <<>> /\ wire' = Tail(wire)
      /\ UNCHANGED <<events, status, led>>
      /\ missed' <=> job[j].left < Reads /\ wire' = <<>>
  BY DEF Drain
<1>2. events = <<>> /\ status.initialized /\ (job[j].left = Reads => Head(wire) = status.mode)
  BY <1>1 DEF InStep, Changing, Phases
<1>3. ~missed
  BY <1>1 DEF InStep, ReportsRight, Heard
<1>4. wire \in Seq(Mode) /\ job[j].left \in 1 .. Reads
  <2>1. job[j] \in Jobs
    BY DEF InStep, ModeTypes
  <2>2. QED
    BY <1>1, <2>1, JobCarries DEF InStep, ModeTypes
<1>5. Len(wire) \in Nat \ {0} /\ Len(wire') = Len(wire) - 1 /\ Len(events) = 0 /\ Len(events') = 0
  BY <1>1, <1>2, <1>4
<1>6. LastReport = led
  <2>1. \A k \in Syncers : job[k].pc # "write"
    BY <1>1 DEF InStep, Changing, Heard
  <2>2. QED
    BY <1>3, <2>1 DEF InStep, ReportsRight
<1>7. missed' \/ LastReport' = led
  <2>1. CASE wire' = <<>>
    <3>1. Len(wire) = 1 /\ Head(wire) = wire[Len(wire)]
      <4>1. Len(wire') = 0
        BY <2>1
      <4>2. QED
        BY <1>1, <1>4, <1>5, <4>1
    <3>2. ~missed' => job[j].left = Reads
      BY <1>1, <1>4, <2>1 DEF Reads
    <3>3. ~missed' => led = status.mode
      BY <1>1, <1>2, <1>6, <3>1, <3>2 DEF LastReport
    <3>4. QED
      BY <1>1, <1>2, <2>1, <3>3 DEF LastReport
  <2>2. CASE wire' # <<>>
    <3>1. wire'[Len(wire')] = wire[Len(wire)]
      BY <1>1, <1>4, <1>5, <2>2
    <3>2. QED
      BY <1>1, <1>6, <2>2, <3>1 DEF LastReport
  <2>3. QED
    BY <2>1, <2>2
<1>8. QED
  BY <1>1, <1>2, <1>3, <1>5, <1>7 DEF OnWay

\* A tap is reported last.
LEMMA TapReports ==
  ASSUME ModeTypes, Tap
  PROVE  /\ OnWay' = OnWay + 1
         /\ OnWay > 0 => NextReport' = NextReport
         /\ wire' # <<>> /\ LastReport' = led' /\ events' = events
         /\ wire # <<>> => Head(wire') = Head(wire)
<1>1. wire \in Seq(Mode) /\ wire' = Append(wire, led') /\ events' = events /\ led' \in Mode
  BY NextIsMode DEF ModeTypes, Tap, daemonVars
<1>2. /\ Len(wire') = Len(wire) + 1 /\ wire'[Len(wire) + 1] = led'
      /\ \A i \in 1 .. Len(wire) : wire'[i] = wire[i]
  BY <1>1
<1>3. OnWay' = OnWay + 1
  BY <1>1, <1>2 DEF OnWay, ModeTypes
<1>4. OnWay > 0 => NextReport' = NextReport
  <2>1. wire # <<>> => Head(wire') = Head(wire)
    BY <1>1
  <2>2. OnWay > 0 /\ events = <<>> => wire # <<>>
    BY <1>1 DEF OnWay
  <2>3. QED
    BY <1>1, <2>1, <2>2 DEF NextReport
<1>5. wire' # <<>> /\ LastReport' = led' /\ (wire # <<>> => Head(wire') = Head(wire))
  BY <1>1, <1>2 DEF LastReport
<1>6. QED
  BY <1>1, <1>3, <1>4, <1>5

\* A tap: the reports stay in step.
LEMMA TapInStep ==
  ASSUME ~Overlap, InStep, ModeTypes', Tap
  PROVE  InStep'
<1>1. job' = job /\ status' = status /\ inject' = inject /\ events' = events /\ missed' = FALSE
      /\ taps' = taps + 1 /\ shiftTabs' = shiftTabs
      /\ \A k \in Syncers : job[k].pc \notin {"record", "write"}
  BY DEF Tap, daemonVars
<1>2. OneSyncs'
  BY <1>1 DEF InStep, OneSyncs
<1>3. \A k \in Syncers : Changing(k)'
  BY <1>1, TapReports DEF InStep, Phases, Changing
<1>4. OnWay \in Nat /\ OnWay' = OnWay + 1 /\ (OnWay > 0 => NextReport' = NextReport)
      /\ (OnWay = 0 => Heard)
  <2>1. wire \in Seq(Mode) /\ events \in Seq(Mode)
    BY DEF InStep, ModeTypes
  <2>2. Len(wire) \in Nat /\ Len(events) \in Nat
        /\ (Len(wire) = 0 => wire = <<>>) /\ (Len(events) = 0 => events = <<>>)
    BY <2>1
  <2>3. QED
    BY <2>2, TapReports DEF InStep, OnWay, Heard
<1>5. ReportsRight'
  BY <1>1, <1>4, TapReports DEF InStep, ReportsRight
<1>6. TapsCounted'
  <2>1. {shiftTabs, taps, Owing} \subseteq Nat /\ Owing' = Owing
    BY <1>1 DEF InStep, ModeTypes, Owing
  <2>2. QED
    BY <1>1, <1>4, <2>1 DEF InStep, TapsCounted
<1>7. QED
  BY <1>2, <1>3, <1>5, <1>6 DEF InStep

\* A report is taken over: the reports stay in step.
LEMMA PollInStep ==
  ASSUME ~Overlap, InStep, ModeTypes', Poll
  PROVE  InStep'
<1>1. OneSyncs'
  BY SyncersAre DEF InStep, OneSyncs, Poll
<1>2. \A k \in Syncers : Changing(k)'
  BY SyncersAre DEF InStep, Changing, Poll, Heard
<1>3. ReportsRight'
  BY PollMoves DEF InStep, ReportsRight, countVars, Heard, Poll
<1>4. TapsCounted'
  BY PollMoves DEF InStep, TapsCounted, Owing, Poll, countVars
<1>5. QED
  BY <1>1, <1>2, <1>3, <1>4 DEF InStep

\* A report is handled: the reports stay in step.
LEMMA HandleInStep ==
  ASSUME ~Overlap, InStep, ModeTypes', Handle
  PROVE  InStep'
<1>1. OneSyncs'
  BY SyncersAre DEF InStep, OneSyncs, Handle
<1>2. \A k \in Syncers : Changing(k)'
  BY SyncersAre DEF InStep, Changing, Handle, Heard
<1>3. ReportsRight'
  BY HandleTakes DEF InStep, ReportsRight, countVars, Heard, Handle, worldVars
<1>4. TapsCounted'
  BY SyncersAre
    DEF InStep, ModeTypes, Handle, OnWay, NextReport, TapsCounted, Owing, worldVars, countVars
<1>5. QED
  BY <1>1, <1>2, <1>3, <1>4 DEF InStep

\* A Shift+Tab is injected: the reports stay in step.
LEMMA InjectInStep ==
  ASSUME ~Overlap, InStep, ModeTypes', Inject
  PROVE  InStep'
<1>1. OneSyncs'
  BY SyncersAre DEF InStep, OneSyncs, Inject
<1>2. \A k \in Syncers : Changing(k)'
  BY SyncersAre DEF InStep, Changing, Inject, Heard
<1>3. ReportsRight'
  BY SyncersAre DEF InStep, Inject, ReportsRight, countVars, Heard, LastReport, OnWay, NextReport
<1>4. TapsCounted'
  BY SyncersAre DEF InStep, ModeTypes, Inject, OnWay, NextReport, TapsCounted, Owing
<1>5. QED
  BY <1>1, <1>2, <1>3, <1>4 DEF InStep

\* A Shift+Tab is typed: the reports stay in step.
LEMMA TypeInStep ==
  ASSUME ~Overlap, InStep, ModeTypes', NEW s \in Sessions, Type(s)
  PROVE  InStep'
<1>1. OneSyncs'
  BY SyncersAre DEF InStep, OneSyncs, Type, daemonVars
<1>2. \A k \in Syncers : Changing(k)'
  BY SyncersAre DEF InStep, Changing, Type, Heard, daemonVars
<1>3. ReportsRight'
  BY SyncersAre
    DEF InStep, Type, ReportsRight, LastReport, OnWay, NextReport, Heard,
        daemonVars
<1>4. TapsCounted'
  BY SyncersAre DEF InStep, Type, OnWay, NextReport, TapsCounted, Owing, daemonVars
<1>5. QED
  BY <1>1, <1>2, <1>3, <1>4 DEF InStep

\* An injected Shift+Tab arrives: the reports stay in step.
LEMMA InjectedInStep ==
  ASSUME ~Overlap, InStep, ModeTypes', NEW s \in Sessions, Injected(s)
  PROVE  InStep'
<1>1. OneSyncs'
  BY SyncersAre DEF InStep, OneSyncs, Injected, daemonVars
<1>2. \A k \in Syncers : Changing(k)'
  BY SyncersAre DEF InStep, Changing, Injected, Heard, daemonVars
<1>3. ReportsRight'
  BY SyncersAre
    DEF InStep, Injected, ReportsRight, LastReport, OnWay, NextReport, Heard,
        daemonVars
<1>4. TapsCounted'
  BY SyncersAre DEF InStep, Injected, OnWay, NextReport, TapsCounted, Owing, daemonVars, countVars
<1>5. QED
  BY <1>1, <1>2, <1>3, <1>4 DEF InStep

\* A hook notes the mode of its session: the reports stay in step.
LEMMA HookInStep ==
  ASSUME ~Overlap, InStep, ModeTypes', NEW s \in Sessions, Hook(s)
  PROVE  InStep'
<1>1. OneSyncs'
  BY SyncersAre DEF InStep, OneSyncs, Phases, Hook
<1>2. \A k \in Syncers : Changing(k)'
  BY SyncersAre DEF InStep, Phases, Changing, Hook, Heard, worldVars
<1>3. ReportsRight'
  BY SyncersAre
    DEF InStep, Hook, ReportsRight, LastReport, OnWay, NextReport, Heard,
        worldVars, countVars
<1>4. TapsCounted'
  BY SyncersAre DEF InStep, Hook, OnWay, NextReport, TapsCounted, Owing, worldVars, countVars
<1>5. QED
  BY <1>1, <1>2, <1>3, <1>4 DEF InStep

\* The mode is kept: the reports stay in step.
LEMMA StoreInStep ==
  ASSUME ~Overlap, InStep, ModeTypes', NEW s \in Sessions, Store(s)
  PROVE  InStep'
<1>1. OneSyncs'
  BY SyncersAre DEF InStep, OneSyncs, Phases, Store, Then, Idle
<1>2. \A k \in Syncers : Changing(k)'
  BY SyncersAre DEF InStep, Phases, Changing, Store, Then, Heard, Idle, worldVars
<1>3. ReportsRight'
  BY SyncersAre
    DEF InStep, Store, ReportsRight, LastReport, OnWay, NextReport, Heard,
        worldVars, countVars
<1>4. TapsCounted'
  BY SyncersAre DEF InStep, Store, OnWay, NextReport, TapsCounted, Owing, worldVars, countVars
<1>5. QED
  BY <1>1, <1>2, <1>3, <1>4 DEF InStep

\* The file is written: the reports stay in step.
LEMMA FlushInStep ==
  ASSUME ~Overlap, InStep, ModeTypes', NEW s \in Sessions, Flush(s)
  PROVE  InStep'
<1>1. OneSyncs'
  BY SyncersAre DEF InStep, OneSyncs, Phases, Flush, Then, Idle
<1>2. \A k \in Syncers : Changing(k)'
  BY SyncersAre DEF InStep, Phases, Changing, Flush, Then, Heard, Idle, worldVars
<1>3. ReportsRight'
  BY SyncersAre
    DEF InStep, Flush, ReportsRight, LastReport, OnWay, NextReport, Heard,
        worldVars, countVars
<1>4. TapsCounted'
  BY SyncersAre DEF InStep, Flush, OnWay, NextReport, TapsCounted, Owing, worldVars, countVars
<1>5. QED
  BY <1>1, <1>2, <1>3, <1>4 DEF InStep

\* Another session is active: the reports stay in step.
LEMMA FocusInStep ==
  ASSUME ~Overlap, InStep, ModeTypes', NEW s \in Sessions, Focus(s)
  PROVE  InStep'
<1>1. OneSyncs'
  BY SyncersAre DEF OneSyncs, Phases, Focus, NoneSyncing
<1>2. \A k \in Syncers : Changing(k)'
  BY SyncersAre DEF Phases, Changing, Focus, NoneSyncing
<1>3. ReportsRight'
  BY SyncersAre
    DEF InStep, Focus, ReportsRight, LastReport, OnWay, NextReport, Heard,
        worldVars, countVars
<1>4. TapsCounted'
  BY SyncersAre DEF InStep, Focus, OnWay, NextReport, TapsCounted, Owing, worldVars
<1>5. QED
  BY <1>1, <1>2, <1>3, <1>4 DEF InStep

\* A syncer reads its target: the reports stay in step.
LEMMA ReadInStep ==
  ASSUME ~Overlap, InStep, ModeTypes', NEW j \in Syncers, Read(j)
  PROVE  InStep'
<1>1. OneSyncs'
  BY SyncersAre DEF OneSyncs, Phases, Read, NoneSyncing
<1>2. \A k \in Syncers : Changing(k)'
  <2>1. CASE Aim(Target) = Idle
    BY <2>1 DEF InStep, Changing, Phases, Heard, Read, Idle, worldVars
  <2>2. CASE Aim(Target) = [pc |-> "record", mode |-> Target]
    <3>1. NoneSyncing /\ Heard
      BY DEF Read
    <3>2. status.initialized
      BY <3>1 DEF InStep, ReportsRight, LastReport, OnWay, NoneSyncing, Heard
    <3>3. QED
      BY <2>2, <3>1, <3>2 DEF InStep, Changing, Heard, Read, worldVars
  <2>3. QED
    BY <2>1, <2>2 DEF Aim
<1>3. ReportsRight'
  BY SyncersAre
    DEF InStep, Read, ReportsRight, LastReport, OnWay, NextReport, Heard,
        worldVars, countVars
<1>4. TapsCounted'
  BY SyncersAre DEF InStep, Read, OnWay, NextReport, TapsCounted, Owing, worldVars, countVars
<1>5. QED
  BY <1>1, <1>2, <1>3, <1>4 DEF InStep

\* It records it: the reports stay in step.
LEMMA RecordInStep ==
  ASSUME ~Overlap, InStep, ModeTypes', NEW j \in Syncers, Record(j)
  PROVE  InStep'
<1>1. OneSyncs'
  BY SyncersAre DEF InStep, OneSyncs, Phases, Record
<1>2. \A k \in Syncers : Changing(k)'
  BY SyncersAre
    DEF InStep, ModeTypes, OneSyncs, Phases, Changing, Record, Recorded, Heard, Idle, worldVars
<1>3. ReportsRight'
  BY SyncersAre
    DEF InStep, ModeTypes, Changing, Record, Recorded, Heard, ReportsRight, LastReport, OnWay,
        worldVars, countVars
<1>4. TapsCounted'
  BY SyncersAre
    DEF InStep, Changing, Record, Heard, OnWay, TapsCounted, Owing, worldVars, countVars
<1>5. QED
  BY <1>1, <1>2, <1>3, <1>4 DEF InStep

\* It writes it: the reports stay in step.
LEMMA WriteInStep ==
  ASSUME ~Overlap, InStep, ModeTypes', NEW j \in Syncers, Write(j)
  PROVE  InStep'
<1>1. OneSyncs'
  BY SyncersAre DEF InStep, OneSyncs, Phases, Write
<1>2. \A k \in Syncers : Changing(k)'
  <2>1. /\ wire = <<>> /\ events = <<>>
        /\ status.mode = job[j].mode /\ status.initialized
    BY DEF InStep, Changing, Phases, Heard, Write
  <2>2. wire' = <<job[j].mode>>
    BY <2>1 DEF Write
  <2>3. job'[j].pc = "drain" /\ \A k \in Syncers \ {j} : job'[k] = job[k] /\ job[k].pc \notin Phases
    BY DEF InStep, ModeTypes, OneSyncs, Phases, Write
  <2>4. QED
    BY <2>1, <2>2, <2>3 DEF Changing, Phases, Write
<1>3. ReportsRight'
  BY SyncersAre DEF InStep, Changing, Write, Heard, ReportsRight, countVars, LastReport, OnWay
<1>4. TapsCounted'
  BY SyncersAre
    DEF InStep, ModeTypes, Changing, Write, Heard, OnWay, NextReport, TapsCounted, Owing,
        countVars
<1>5. QED
  BY <1>1, <1>2, <1>3, <1>4 DEF InStep

\* It drops a report: the reports stay in step.
LEMMA DrainInStep ==
  ASSUME ~Overlap, InStep, ModeTypes', NEW j \in Syncers, Drain(j)
  PROVE  InStep'
<1>1. OneSyncs'
  BY SyncersAre DEF InStep, OneSyncs, Phases, Drain
<1>2. \A k \in Syncers : Changing(k)'
  <2>1. job[j].left \in 1 .. Reads /\ job[j] \in Jobs
        /\ job[j] = [pc |-> "drain", left |-> job[j].left]
    BY JobCarries DEF InStep, ModeTypes, Drain
  <2>2. job'[j] = Idle \/ (job'[j].pc = "drain" /\ job'[j].left # Reads)
    BY <2>1 DEF InStep, ModeTypes, Drain, Reads
  <2>3. \A k \in Syncers \ {j} : job'[k] = job[k] /\ job[k].pc \notin Phases
    BY DEF InStep, ModeTypes, OneSyncs, Phases, Drain
  <2>4. QED
    BY <2>2, <2>3, DrainDrops DEF Changing, Phases, Idle
<1>3. ReportsRight'
  BY DrainDrops DEF ReportsRight, countVars, Heard
<1>4. TapsCounted'
  <2>1. {shiftTabs, taps, Owing, OnWay} \subseteq Nat
        /\ Owing' = Owing /\ shiftTabs' = shiftTabs /\ taps' = taps
    BY DEF InStep, ModeTypes, Owing, OnWay, Drain
  <2>2. OnWay > 0 /\ OnWay' = OnWay - 1
    BY DrainDrops
  <2>3. QED
    BY <2>1, <2>2 DEF InStep, TapsCounted
<1>5. QED
  BY <1>1, <1>2, <1>3, <1>4 DEF InStep

\* It is done: the reports stay in step.
LEMMA DrainedInStep ==
  ASSUME ~Overlap, InStep, ModeTypes', NEW j \in Syncers, Drained(j)
  PROVE  InStep'
<1>1. OneSyncs'
  BY SyncersAre DEF InStep, OneSyncs, Phases, Drained
<1>2. \A k \in Syncers : Changing(k)'
  BY SyncersAre DEF InStep, ModeTypes, OneSyncs, Phases, Changing, Drained, Idle
<1>3. ReportsRight'
  BY SyncersAre
    DEF InStep, Drained, ReportsRight, LastReport, OnWay, NextReport, Heard,
        worldVars, countVars
<1>4. TapsCounted'
  BY SyncersAre DEF InStep, Drained, OnWay, NextReport, TapsCounted, Owing, worldVars, countVars
<1>5. QED
  BY <1>1, <1>2, <1>3, <1>4 DEF InStep

-----------------------------------------------------------------------------
\* What the daemon knows and what it shows

\* What Claude's mode has turned since a hook last brought news of it.
NewsKept(s) ==
  known[s] # None /\ turns[s] < Modes =>
    claude[s] = known[s] + turns[s] \/ claude[s] = known[s] + turns[s] - Modes

\* A syncer has still to read the mode it will aim at.
Owed == \E j \in Syncers : \/ job[j].pc = "read"
                           \/ job[j].pc \in {"store", "flush"} /\ job[j].show

\* Unless one has, what is about to be recorded is the mode the daemon knows of the active
\* session...
AimIsKnown ==
  known[active] # None /\ ~Owed =>
    \A j \in Syncers : job[j].pc = "record" => job[j].mode = known[active]

\* ...and when nothing is, that mode is the recorded one; or else a change is on its way to
\* Claude, or Claude has changed since.
RecordIsKnown ==
  /\ known[active] # None /\ ~Owed /\ \A j \in Syncers : job[j].pc # "record"
  /\ ~inject /\ keys[active] = 0 /\ turns[active] = 0
  => status.mode = known[active]

\* All of it.
InOrder == (\A s \in Sessions : NewsKept(s)) /\ AimIsKnown /\ RecordIsKnown

\* What the argument counts with are numbers.
LEMMA Numbers ==
  ASSUME ModeTypes
  PROVE  /\ OnWay \in Nat /\ Owing \in Nat /\ Modes \in Nat \ {0} /\ active \in Sessions
         /\ \A s \in Sessions : /\ claude[s] \in 0 .. Modes - 1 /\ keys[s] \in Nat
                                /\ turns[s] \in Nat
                                /\ known[s] # None => known[s] \in 0 .. Modes - 1
BY ModeSyncAssumption DEF ModeTypes, Mode, OnWay, Owing

\* The modes come round.
LEMMA NextIsMore ==
  ASSUME NEW m \in Mode
  PROVE  NextMode(m) = IF m = Modes - 1 THEN 0 ELSE m + 1
BY ModeSyncAssumption DEF Mode, NextMode

\* The device and the event loop: the modes stay in order.
LEMMA DeviceInOrder ==
  ASSUME InStep, InOrder, Tap \/ Poll \/ Handle \/ Inject
  PROVE  InOrder'
<1>1. CASE Tap \/ Poll
  BY <1>1 DEF Tap, Poll, daemonVars, countVars, InOrder, NewsKept, AimIsKnown, RecordIsKnown, Owed
<1>2. CASE Handle
  <2>1. UNCHANGED <<claude, known, turns, keys, active, job>> /\ ~inject
    BY <1>2 DEF Handle, worldVars, countVars
  <2>2. ~inject' => status'.mode = status.mode
    BY <1>2, HandleTakes DEF Handle, InStep, ReportsRight
  <2>3. QED
    BY <2>1, <2>2 DEF InOrder, NewsKept, AimIsKnown, RecordIsKnown, Owed
<1>3. CASE Inject
  <2>1. UNCHANGED <<claude, known, turns, active, job, status>>
    BY <1>3 DEF Inject
  <2>2. keys'[active] = keys[active] + 1 /\ keys[active] \in Nat
    BY <1>3, Numbers DEF Inject, InStep, ModeTypes
  <2>3. QED
    BY <2>1, <2>2 DEF InOrder, NewsKept, AimIsKnown, RecordIsKnown, Owed
<1>4. QED
  BY <1>1, <1>2, <1>3

\* Claude changes its mode: the modes stay in order.
LEMMA TurnInOrder ==
  ASSUME InStep, InOrder, NEW s \in Sessions, Type(s) \/ Injected(s)
  PROVE  InOrder'
<1>1. /\ UNCHANGED <<known, active, job, status, inject>>
      /\ claude' = [claude EXCEPT ![s] = NextMode(claude[s])]
      /\ turns' = [turns EXCEPT ![s] = turns[s] + 1]
      /\ \A t \in Sessions \ {s} : keys'[t] = keys[t]
  BY DEF Type, Injected, daemonVars, InStep, ModeTypes
<1>2. /\ claude'[s] = NextMode(claude[s]) /\ turns'[s] = turns[s] + 1
      /\ \A t \in Sessions \ {s} : claude'[t] = claude[t] /\ turns'[t] = turns[t]
  BY <1>1 DEF InStep, ModeTypes
<1>3. NewsKept(s)'
  <2>1. claude'[s] = IF claude[s] = Modes - 1 THEN 0 ELSE claude[s] + 1
    BY <1>2, NextIsMore DEF InStep, ModeTypes
  <2>2. NewsKept(s) /\ turns[s] \in Nat /\ claude[s] \in 0 .. Modes - 1 /\ Modes \in Nat \ {0}
        /\ (known[s] # None => known[s] \in 0 .. Modes - 1)
    BY Numbers DEF InStep, InOrder
  <2>3. QED
    BY <1>1, <1>2, <2>1, <2>2 DEF NewsKept
<1>4. \A t \in Sessions : NewsKept(t)'
  BY <1>1, <1>2, <1>3 DEF InOrder, NewsKept
<1>5. active \in Sessions /\ turns[s] \in Nat
  BY Numbers DEF InStep
<1>6. RecordIsKnown'
  BY <1>1, <1>2, <1>5 DEF InOrder, RecordIsKnown, Owed
<1>7. QED
  BY <1>1, <1>4, <1>6 DEF InOrder, AimIsKnown, Owed

\* A hook brings news: the modes stay in order.
LEMMA HookInOrder ==
  ASSUME InStep, InOrder, NEW s \in Sessions, Hook(s)
  PROVE  InOrder'
<1>1. /\ UNCHANGED <<claude, keys, active, status, inject>> /\ s \in Syncers /\ active \in Sessions
      /\ known'[s] = claude[s] /\ turns'[s] = 0
      /\ \A t \in Sessions \ {s} : known'[t] = known[t] /\ turns'[t] = turns[t]
      /\ job'[s] = [pc |-> "store", mode |-> claude[s], show |-> s = active] /\ job[s].pc = "idle"
      /\ \A j \in Syncers \ {s} : job'[j] = job[j]
  BY SyncersAre DEF Hook, Noted, worldVars, InStep, ModeTypes
<1>2. \A t \in Sessions : NewsKept(t)'
  BY <1>1, Numbers DEF InStep, InOrder, NewsKept
<1>3. CASE s = active
  <2>1. job'[s].pc = "store" /\ job'[s].show
    <3>1. job'[s].pc = "store" /\ job'[s].show = (s = active)
      BY <1>1
    <3>2. QED
      BY <1>3, <3>1, Zenon
  <2>2. Owed'
    BY <1>1, <2>1 DEF Owed
  <2>3. QED
    BY <1>2, <2>2 DEF InOrder, AimIsKnown, RecordIsKnown
<1>4. CASE s # active
  <2>1. Owed => Owed'
    BY <1>1 DEF Owed
  <2>2. known'[active'] = known[active] /\ turns'[active'] = turns[active]
    BY <1>1, <1>4
  <2>3. \A j \in Syncers : job'[j].pc = "record" <=> job[j].pc = "record"
    BY <1>1
  <2>4. QED
    BY <1>1, <1>2, <2>1, <2>2, <2>3 DEF InOrder, AimIsKnown, RecordIsKnown
<1>5. QED
  BY <1>3, <1>4

\* A step of one syncer that has still to read, if it is to show the mode: the modes stay
\* in order.
LEMMA OwesInOrder ==
  ASSUME InOrder, UNCHANGED <<claude, keys, known, turns, active, status, inject>>,
         job \in [Syncers -> Jobs], NEW j \in Syncers, NEW x, job' = [job EXCEPT ![j] = x],
         job[j].pc \in {"store", "flush"}, x.pc # "record",
         job[j].show => x.pc = "read" \/ (x.pc = "flush" /\ x.show)
  PROVE  InOrder'
<1>1. job'[j] = x /\ \A k \in Syncers \ {j} : job'[k] = job[k]
  OBVIOUS
<1>2. Owed => Owed'
  BY <1>1 DEF Owed
<1>3. \A k \in Syncers : job'[k].pc = "record" <=> job[k].pc = "record"
  BY <1>1
<1>4. \A k \in Syncers : job[k].pc = "record" => job'[k] = job[k]
  BY <1>1
<1>5. QED
  BY <1>2, <1>3, <1>4 DEF InOrder, NewsKept, AimIsKnown, RecordIsKnown

\* The mode is kept, and the file written: the modes stay in order.
LEMMA StoreInOrder ==
  ASSUME InStep, InOrder, NEW s \in Sessions, Store(s) \/ Flush(s)
  PROVE  InOrder'
<1>1. s \in Syncers /\ job \in [Syncers -> Jobs]
  BY SyncersAre DEF InStep, ModeTypes
<1>2. CASE Store(s)
  <2> DEFINE x == IF last[s] = job[s].mode THEN Then(job[s].show)
                  ELSE [pc |-> "flush", copy |-> last', show |-> job[s].show]
  <2>1. job' = [job EXCEPT ![s] = x] /\ job[s].pc = "store"
        /\ UNCHANGED <<claude, keys, known, turns, active, status, inject>>
    BY <1>2 DEF Store, worldVars, countVars
  <2>2. x.pc # "record" /\ (job[s].show => x.pc = "read" \/ (x.pc = "flush" /\ x.show))
    BY DEF Then, Idle
  <2>3. QED
    BY <1>1, <2>1, <2>2, OwesInOrder
<1>3. CASE Flush(s)
  <2>1. job' = [job EXCEPT ![s] = Then(job[s].show)] /\ job[s].pc = "flush"
        /\ UNCHANGED <<claude, keys, known, turns, active, status, inject>>
    BY <1>3 DEF Flush, worldVars, countVars
  <2>2. Then(job[s].show).pc # "record" /\ (job[s].show => Then(job[s].show).pc = "read")
    BY DEF Then, Idle
  <2>3. QED
    BY <1>1, <2>1, <2>2, OwesInOrder
<1>4. QED
  BY <1>2, <1>3

\* Another session is active: the modes stay in order.
LEMMA FocusInOrder ==
  ASSUME InStep, InOrder, NEW s \in Sessions, Focus(s)
  PROVE  InOrder'
<1>1. UNCHANGED <<claude, known, turns>> /\ job'[Desk].pc = "read" /\ Desk \in Syncers
  BY SyncersAre DEF Focus, worldVars, InStep, ModeTypes
<1>2. Owed'
  BY <1>1 DEF Owed
<1>3. QED
  BY <1>1, <1>2 DEF InOrder, NewsKept, AimIsKnown, RecordIsKnown

\* A syncer reads its target: the modes stay in order.
LEMMA ReadInOrder ==
  ASSUME ~Overlap, InStep, InOrder, NEW j \in Syncers, Read(j)
  PROVE  InOrder'
<1>1. /\ UNCHANGED <<claude, keys, known, turns, active, status, inject>>
      /\ job'[j] = Aim(Target) /\ job[j].pc = "read"
      /\ \A k \in Syncers \ {j} : job'[k] = job[k]
      /\ \A k \in Syncers : job[k].pc # "record"
  BY DEF Read, worldVars, countVars, NoneSyncing, InStep, ModeTypes
<1>2. known[active] # None => job'[j] = [pc |-> "record", mode |-> known[active]]
  BY <1>1 DEF Aim, Target
<1>3. known[active] # None => AimIsKnown' /\ RecordIsKnown'
  BY <1>1, <1>2 DEF AimIsKnown, RecordIsKnown
<1>4. known[active] = None => AimIsKnown' /\ RecordIsKnown'
  BY <1>1 DEF AimIsKnown, RecordIsKnown
<1>5. QED
  BY <1>1, <1>3, <1>4 DEF InOrder, NewsKept

\* It records it: the modes stay in order.
LEMMA RecordInOrder ==
  ASSUME InStep, InOrder, NEW j \in Syncers, Record(j)
  PROVE  InOrder'
<1>1. /\ UNCHANGED <<claude, keys, known, turns, active, inject>>
      /\ status'.mode = job[j].mode /\ job[j].pc = "record" /\ job'[j].pc \in {"idle", "write"}
      /\ \A k \in Syncers \ {j} : job'[k] = job[k] /\ job[k].pc # "record"
  <2>1. job[j] \in Jobs /\ job[j].pc = "record"
    BY DEF Record, InStep, ModeTypes
  <2>2. [job[j] EXCEPT !.pc = "write"] = [pc |-> "write", mode |-> job[j].mode]
    BY <2>1, JobGoesOn
  <2>3. job'[j] = Idle \/ job'[j] = [pc |-> "write", mode |-> job[j].mode]
    BY <2>2 DEF Record, InStep, ModeTypes
  <2>4. status'.mode = job[j].mode
    BY DEF Record, Recorded, InStep, ModeTypes
  <2>5. \A k \in Syncers \ {j} : job'[k] = job[k] /\ job[k].pc # "record"
    BY <2>1 DEF Record, InStep, ModeTypes, OneSyncs, Phases
  <2>6. job'[j].pc \in {"idle", "write"}
    BY <2>3 DEF Idle
  <2>7. QED
    BY <2>1, <2>4, <2>5, <2>6 DEF Record, worldVars, countVars
<1>2. Owed' = Owed
  BY <1>1 DEF Owed
<1>3. QED
  BY <1>1, <1>2 DEF InOrder, NewsKept, AimIsKnown, RecordIsKnown

\* It writes it, and hears what comes of it: the modes stay in order.
LEMMA WriteInOrder ==
  ASSUME InStep, InOrder, NEW j \in Syncers, Write(j) \/ Drain(j) \/ Drained(j)
  PROVE  InOrder'
<1>1. UNCHANGED <<claude, keys, known, turns, active, status, inject>>
  BY DEF Write, Drain, Drained, worldVars, countVars
<1>2. /\ job[j].pc \in {"write", "drain"} /\ job'[j].pc \in {"idle", "drain"}
      /\ \A k \in Syncers \ {j} : job'[k] = job[k]
  <2>1. job[j] \in Jobs
    BY DEF InStep, ModeTypes
  <2>2. job[j].pc = "drain" =>
          [job[j] EXCEPT !.left = job[j].left - 1] = [pc |-> "drain", left |-> job[j].left - 1]
    BY <2>1, JobGoesOn
  <2>3. job[j].pc \in {"write", "drain"} /\ \A k \in Syncers \ {j} : job'[k] = job[k]
    BY DEF Write, Drain, Drained, InStep, ModeTypes
  <2>4. \/ job'[j] = [pc |-> "drain", left |-> Reads] \/ job'[j] = Idle
        \/ job'[j] = [pc |-> "drain", left |-> job[j].left - 1]
    BY <2>2 DEF Write, Drain, Drained, InStep, ModeTypes
  <2>5. job'[j].pc \in {"idle", "drain"}
    BY <2>4 DEF Idle
  <2>6. QED
    BY <2>3, <2>5
<1>3. Owed' = Owed
  BY <1>2 DEF Owed
<1>4. \A k \in Syncers : (job'[k].pc = "record" <=> job[k].pc = "record")
                         /\ (job[k].pc = "record" => job'[k] = job[k])
  BY <1>2
<1>5. QED
  BY <1>1, <1>3, <1>4 DEF InOrder, NewsKept, AimIsKnown, RecordIsKnown

-----------------------------------------------------------------------------
\* The first state.
LEMMA InitInStep == Init => InStep
<1> SUFFICES ASSUME Init
             PROVE  InStep
  OBVIOUS
<1>1. 0 \in Mode
  BY ModeSyncAssumption DEF Mode
<1>2. ModeTypes
  <2>1. wire \in Seq(Mode) /\ events \in Seq(Mode)
    BY <1>1 DEF Init
  <2>2. job \in [Syncers -> Jobs]
    BY JobsAre DEF Init
  <2>3. /\ claude \in [Sessions -> Mode] /\ keys \in [Sessions -> Nat]
        /\ known \in [Sessions -> Mode \cup {None}]
        /\ last \in [Sessions -> Mode \cup {None}] /\ disk = last
    BY <1>1 DEF Init
  <2>4. /\ led \in Mode /\ active \in Sessions /\ inject \in BOOLEAN
        /\ status \in [mode : Mode, initialized : BOOLEAN]
        /\ taps \in Nat /\ typed \in Nat /\ moved \in Nat /\ shiftTabs \in Nat
        /\ missed \in BOOLEAN /\ turns \in [Sessions -> Nat]
    BY <1>1, ModeSyncAssumption DEF Init
  <2>5. QED
    BY <2>1, <2>2, <2>3, <2>4 DEF ModeTypes
<1>3. \A j \in Syncers : job[j].pc = "idle"
  BY DEF Init, Idle
<1>4. Len(wire) = 1 /\ Len(events) = 0 /\ wire[1] = 0 /\ Head(wire) = 0 /\ wire # <<>>
  BY DEF Init
<1>5. ReportsRight /\ TapsCounted
  BY <1>4 DEF Init, ReportsRight, TapsCounted, LastReport, NextReport, OnWay, Owing
<1>6. QED
  BY <1>2, <1>3, <1>5 DEF InStep, OneSyncs, Changing, Phases

\* Nothing is known of Claude's modes then.
LEMMA InitInOrder == Init => InOrder
BY ModeSyncAssumption DEF Init, InOrder, NewsKept, AimIsKnown, RecordIsKnown

\* Every step keeps the reports in step.
LEMMA NextInStep ==
  ASSUME ~Overlap, InStep, [Next]_vars
  PROVE  InStep'
<1>1. ModeTypes'
  BY NextKeepsTypes DEF InStep
<1>2. CASE Tap \/ Poll \/ Handle \/ Inject
  BY <1>1, <1>2, TapInStep, PollInStep, HandleInStep, InjectInStep
<1>3. CASE \E s \in Sessions : Type(s) \/ Focus(s) \/ Session(s)
  BY <1>1, <1>3, TypeInStep, FocusInStep, InjectedInStep, HookInStep, StoreInStep, FlushInStep
  DEF Session
<1>4. CASE \E j \in Syncers : Sync(j) \/ Drain(j)
  BY <1>1, <1>4, ReadInStep, RecordInStep, WriteInStep, DrainedInStep, DrainInStep DEF Sync
<1>5. CASE UNCHANGED vars
  BY <1>1, <1>5
    DEF vars, worldVars, daemonVars, countVars, InStep, OneSyncs, Changing, Heard, ReportsRight,
        LastReport, NextReport, OnWay, TapsCounted, Owing
<1>6. QED
  BY <1>2, <1>3, <1>4, <1>5 DEF Next

\* And the modes in order.
LEMMA NextInOrder ==
  ASSUME ~Overlap, InStep, InOrder, [Next]_vars
  PROVE  InOrder'
<1>1. CASE Tap \/ Poll \/ Handle \/ Inject
  BY <1>1, DeviceInOrder
<1>2. CASE \E s \in Sessions : Type(s) \/ Focus(s) \/ Session(s)
  BY <1>2, TurnInOrder, FocusInOrder, HookInOrder, StoreInOrder DEF Session
<1>3. CASE \E j \in Syncers : Sync(j) \/ Drain(j)
  BY <1>3, ReadInOrder, RecordInOrder, WriteInOrder DEF Sync
<1>4. CASE UNCHANGED vars
  BY <1>4
    DEF vars, worldVars, daemonVars, countVars, InOrder, NewsKept, AimIsKnown, RecordIsKnown, Owed
<1>5. QED
  BY <1>1, <1>2, <1>3, <1>4 DEF Next

\* In every behaviour the reports are in step.
LEMMA AlwaysInStep ==
  ASSUME ~Overlap
  PROVE  Spec => []InStep
<1>1. InStep /\ [Next]_vars => InStep'
  BY NextInStep
<1>2. QED
  BY InitInStep, <1>1, PTL DEF Spec

-----------------------------------------------------------------------------
\* Every Shift+Tab that the daemon injects is owed to a tap on the device: neither the first
\* report of a connection nor the echo of its own write, read late, is taken for one; for any
\* sessions, any number of modes and any bounds, as long as modes do not change while another
\* change is on its way to the LED (DeviceStateChanged in src/crates/coredeck/src/main.rs,
\* sync_active_mode_to_device in src/crates/coredeck/src/wrapper.rs).
THEOREM ShiftTabsAreTaps ==
  ASSUME ~Overlap
  PROVE  Spec => []EveryShiftTabIsATap
<1>1. InStep => EveryShiftTabIsATap
  <2> SUFFICES ASSUME InStep
               PROVE  shiftTabs <= taps
    BY DEF EveryShiftTabIsATap
  <2>1. OnWay \in Nat /\ Owing \in Nat /\ shiftTabs \in Nat /\ taps \in Nat
    BY Numbers DEF InStep, ModeTypes
  <2>2. \/ shiftTabs + Owing + OnWay <= taps
        \/ OnWay > 0 /\ shiftTabs + Owing + OnWay <= taps + 1
    BY DEF InStep, TapsCounted
  <2>3. QED
    BY <2>1, <2>2
<1>2. QED
  BY <1>1, AlwaysInStep, PTL

\* When nothing is on its way the daemon knows what the LED shows, but for a tap whose
\* report was dropped.
RecordIsLed == Quiet /\ status.initialized /\ ~missed => status.mode = led

LEMMA RecordFollows == InStep => RecordIsLed
<1> SUFFICES ASSUME InStep, Quiet, ~missed
             PROVE  status.mode = led
  BY DEF RecordIsLed
<1>1. \A j \in Syncers : job[j].pc # "write"
  BY DEF Quiet, Idle
<1>2. LastReport = status.mode
  BY DEF Quiet, Heard, LastReport
<1>3. QED
  BY <1>1, <1>2 DEF InStep, ReportsRight

\* At rest the daemon has the LED's mode on record, and the LED shows the mode Claude is in,
\* whatever taps, Shift+Tabs, hooks, syncs and late echoes went before and however many; but
\* for a tap whose report was dropped, and for a mode that came round to the one the daemon
\* knows before a hook told of it (status.mode in main.rs and wrapper.rs, the noting of
\* permission_mode in hooks.rs, sync_active_mode_to_device in wrapper.rs).
THEOREM LedShows ==
  ASSUME ~Overlap
  PROVE  Spec => []LedShowsClaude
<1>1. InStep /\ InOrder /\ [Next]_vars => (InStep /\ InOrder)'
  BY NextInStep, NextInOrder
<1>2. InStep /\ InOrder => LedShowsClaude
  <2> SUFFICES ASSUME InStep, InOrder, Quiet, status.initialized, ~missed
               PROVE  status.mode = led
                      /\ (Told(active) /\ turns[active] < Modes => led = claude[active])
    BY DEF LedShowsClaude
  <2>1. status.mode = led
    BY RecordFollows DEF RecordIsLed
  <2>2. ~Owed /\ ~inject /\ \A j \in Syncers : job[j].pc # "record"
    BY DEF Quiet, Owed, Idle
  <2>3. ASSUME Told(active), turns[active] < Modes
        PROVE  led = claude[active]
    <3>1. known[active] = claude[active] /\ keys[active] = 0
      BY <2>3 DEF Told
    <3>2. active \in Sessions /\ claude[active] \in 0 .. Modes - 1 /\ turns[active] \in Nat
          /\ Modes \in Nat \ {0}
      BY Numbers DEF InStep
    <3>3. known[active] # None
      BY <3>1, <3>2, ModeSyncAssumption
    <3>4. turns[active] = 0
      BY <2>3, <3>1, <3>2, <3>3 DEF InOrder, NewsKept
    <3>5. status.mode = known[active]
      BY <2>2, <3>1, <3>3, <3>4 DEF InOrder, RecordIsKnown
    <3>6. QED
      BY <2>1, <3>1, <3>5
  <2>4. QED
    BY <2>1, <2>3
<1>3. QED
  BY InitInStep, InitInOrder, <1>1, <1>2, PTL DEF Spec

=============================================================================
