------------------------- MODULE DeviceClientsProofs -------------------------
(***************************************************************************)
(* What the clients of the device may rely on, for any number of apps,     *)
(* calls, presets and keys.  The HID manager's holder has sent the first   *)
(* commands of its job and nobody came between: whatever late commands are *)
(* still ahead of them, once the device has worked off its queue the keys  *)
(* written so far are the preset's.                                        *)
(***************************************************************************)
EXTENDS DeviceClients, SequenceTheorems, TLAPS

USE DEF lockVars, deviceVars, countVars

Whats    == {w \in RestWhats \cup AppWhats : Storable(w)}
Fields   == [cmd : {"set", "get", "reset"}, key : 0 .. KeyCount, value : Values \cup {None},
             save : BOOLEAN]
Commands == {c \in Fields : /\ c.cmd = "set" => c.key \in Ks /\ c.value \in Values
                            /\ c.cmd = "reset" => c.value = Factory
                            /\ c.cmd = "get" => c.key \in Ks /\ ~c.save}

Jobs == [pc : {"idle", "send", "await", "ok", "failed"}, what : Whats \cup {None},
         at : Nat, got : Seq(Commands)]

TypeOK ==
  /\ job \in [Users -> Jobs]
  /\ hid \in Users \cup {None}
  /\ keys \in [Ks -> Values] /\ saved \in [Ks -> Values]
  /\ pending \in Seq(Commands) /\ replies \in Seq(Commands)
  /\ wrote \in Whats \cup {None}
  /\ late \in Nat

Busy(u)   == job[u].pc \in {"send", "await"}
Asked(u)  == CommandsOf(job[u].what)
Sent(u)   == IF job[u].pc = "await" THEN job[u].at ELSE job[u].at - 1

-----------------------------------------------------------------------------
\* A job under way is at one of its commands, has heard one answer to each before,
\* and from its first command on it holds the HID manager.
JobsRight ==
  \A u \in Users : Busy(u) =>
    /\ job[u].what \in Whats /\ job[u].at \in 1 .. Len(Asked(u))
    /\ Len(job[u].got) = job[u].at - 1
    /\ Sent(u) > 0 => hid = u

\* Nothing follows the command that is waited for.
LastIsAwaited ==
  \A u \in Users : job[u].pc = "await" /\ pending # <<>> =>
    pending[Len(pending)] = Asked(u)[job[u].at]

-----------------------------------------------------------------------------
\* Writes

Writes(c, k) == c.cmd = "reset" \/ (c.cmd = "set" /\ c.key = k)

\* The i-th pending command is the last that writes key k.
LastWrite(i, k) ==
  Writes(pending[i], k) /\ \A j \in DOMAIN pending : j > i => ~Writes(pending[j], k)

\* Key k will be v once the device has worked off its commands.
WillBe(k, v) ==
  /\ \A i \in DOMAIN pending : LastWrite(i, k) => pending[i].value = v
  /\ (\A i \in DOMAIN pending : ~Writes(pending[i], k)) => keys[k] = v

Applying(u) == Busy(u) /\ job[u].what.do = "apply"

\* A preset under way: the keys written so far will be as it says, and all are
\* saved by its last command.
PresetsRight ==
  \A u \in Users : Applying(u) =>
    /\ \A k \in 1 .. Sent(u) : WillBe(k, job[u].what.value)
    /\ Sent(u) = KeyCount /\ pending = <<>> => \A k \in Ks : saved[k] = job[u].what.value

\* Since the write that was seen to complete, nothing is on its way that writes.
WroteLast ==
  wrote # None => \A i \in DOMAIN pending : ~IsWrite(pending[i])

-----------------------------------------------------------------------------
\* Reads

\* An answer to command c, as the keys are.
Answers(r, c) == r.cmd = c.cmd /\ r.key = c.key /\ (c.cmd = "get" => r.value = keys[c.key])

\* As long as no answer has come late, there is one command on its way or one
\* answer, and only for the one who waits for it.
OneAtATime ==
  late = 0 =>
    /\ (\A u \in Users : job[u].pc # "await") => pending = <<>> /\ replies = <<>>
    /\ \A u \in Users : job[u].pc = "await" =>
         \/ pending = <<Asked(u)[job[u].at]>> /\ replies = <<>>
         \/ /\ pending = <<>> /\ Len(replies) = 1
            /\ Answers(replies[1], Asked(u)[job[u].at])

Reading(u) == Busy(u) /\ job[u].what.do \in {"read", "get"}

\* An answer r tells of key k, and tells what it is.
Tells(r, k) == /\ r.key = k \/ r.value \in Short
               /\ late = 0 => r.key = k /\ r.value = keys[k]

\* What a reader has got is about the keys it asked for, and as they are.
ReadsRight ==
  \A u \in Users : Reading(u) =>
    \A i \in 1 .. (job[u].at - 1) : Tells(job[u].got[i], Asked(u)[i].key)

ClientsRight ==
  /\ JobsRight /\ LastIsAwaited
  /\ PresetsRight /\ WroteLast /\ PresetIsWhole
  /\ OneAtATime /\ ReadsRight

-----------------------------------------------------------------------------
\* What a call asks of the device.

LEMMA Whatever ==
  ASSUME NEW what \in Whats
  PROVE  \/ what.do = "apply" /\ what.value \in Presets /\ what.save = TRUE
         \/ what.do = "put" /\ what.key \in Ks /\ what.value \in Values /\ what.save \in BOOLEAN
         \/ what.do = "read"
         \/ what.do = "get" /\ what.key \in Ks
         \/ what.do = "reset" /\ what.save = TRUE
  BY DeviceClientsAssumption
  DEF Whats, RestWhats, AppWhats, PutWhats, ResetWhat, Put, Storable, Values, Ks

LEMMA FunctionIsSeq ==
  ASSUME NEW q \in [1 .. KeyCount -> Commands]
  PROVE  /\ q \in Seq(Commands) /\ Len(q) = KeyCount
         /\ \A i \in 1 .. KeyCount : q[i] \in Commands
<1>1. KeyCount \in Nat BY DeviceClientsAssumption
<1>2. q \in Seq(Commands)
  <2>1. [1 .. KeyCount -> Commands] \in {[1 .. n -> Commands] : n \in Nat} BY <1>1
  <2>2. \E F \in {[1 .. n -> Commands] : n \in Nat} : q \in F BY <2>1
  <2>3. q \in UNION {[1 .. n -> Commands] : n \in Nat} BY <2>2
  <2> QED BY <2>3, SeqDef, Zenon
<1>3. Len(q) \in Nat /\ DOMAIN q = 1 .. Len(q) BY <1>2, LenProperties
<1>4. DOMAIN q = 1 .. KeyCount OBVIOUS
<1>5. Len(q) = KeyCount
  <2>1. \A i \in Int : i \in 1 .. Len(q) <=> i \in 1 .. KeyCount BY <1>3, <1>4
  <2>2. Len(q) <= KeyCount BY <1>1, <1>3, <2>1
  <2>3. KeyCount <= Len(q) BY <1>1, <1>3, <2>1
  <2> QED BY <1>1, <1>3, <2>2, <2>3
<1> QED BY <1>2, <1>5

LEMMA ApplyCommands ==
  ASSUME NEW what \in Whats, what.do = "apply"
  PROVE  /\ what.value \in Presets /\ Len(CommandsOf(what)) = KeyCount
         /\ CommandsOf(what) \in Seq(Commands)
         /\ \A k \in Ks : CommandsOf(what)[k] = Set(k, what.value, k = KeyCount)
<1>1. what.value \in Presets BY Whatever
<1>2. CommandsOf(what) = Applied(what.value) BY DEF CommandsOf
<1>3. \A k \in Ks : Set(k, what.value, k = KeyCount) \in Commands
  BY <1>1, DeviceClientsAssumption DEF Set, Fields, Commands, Values, Ks
<1>4. Applied(what.value) \in [1 .. KeyCount -> Commands] BY <1>3 DEF Applied, Ks
<1>5. Applied(what.value) \in Seq(Commands) /\ Len(Applied(what.value)) = KeyCount
  BY <1>4, FunctionIsSeq
<1> QED BY <1>1, <1>2, <1>5 DEF Applied

LEMMA ReadCommands ==
  ASSUME NEW what \in Whats, what.do = "read"
  PROVE  /\ Len(CommandsOf(what)) = KeyCount /\ CommandsOf(what) \in Seq(Commands)
         /\ \A k \in Ks : CommandsOf(what)[k] = Get(k)
<1>1. CommandsOf(what) = [k \in Ks |-> Get(k)] BY DEF CommandsOf
<1>2. \A k \in Ks : Get(k) \in Commands BY DeviceClientsAssumption DEF Get, Fields, Commands, Ks
<1>3. CommandsOf(what) \in [1 .. KeyCount -> Commands] BY <1>1, <1>2 DEF Ks
<1>4. CommandsOf(what) \in Seq(Commands) /\ Len(CommandsOf(what)) = KeyCount
  BY <1>3, FunctionIsSeq
<1> QED BY <1>1, <1>4

LEMMA SingleCommands ==
  ASSUME NEW what \in Whats, what.do \in {"put", "get", "reset"}
  PROVE  /\ Len(CommandsOf(what)) = 1 /\ CommandsOf(what) \in Seq(Commands)
         /\ what.do = "get" => CommandsOf(what)[1] = Get(what.key)
<1> Ks \subseteq 0 .. KeyCount /\ KeyCount \in Nat BY DeviceClientsAssumption DEF Ks
<1>1. CASE what.do = "put"
  <2>1. what.key \in Ks /\ what.value \in Values /\ what.save \in BOOLEAN BY <1>1, Whatever
  <2>2. Set(what.key, what.value, what.save) \in Commands BY <2>1 DEF Set, Fields, Commands
  <2> QED BY <1>1, <2>2 DEF CommandsOf
<1>2. CASE what.do = "get"
  <2>1. what.key \in Ks BY <1>2, Whatever
  <2>2. Get(what.key) \in Commands BY <2>1 DEF Get, Fields, Commands
  <2> QED BY <1>2, <2>2 DEF CommandsOf
<1>3. CASE what.do = "reset"
  <2>1. Reset \in Commands BY DEF Reset, Fields, Commands, Values
  <2> QED BY <1>3, <2>1 DEF CommandsOf
<1> QED BY <1>1, <1>2, <1>3

LEMMA CommandsTyped ==
  ASSUME NEW what \in Whats
  PROVE  /\ CommandsOf(what) \in Seq(Commands)
         /\ \A i \in 1 .. Len(CommandsOf(what)) : CommandsOf(what)[i] \in Commands
         /\ what.do \in {"read", "get"} =>
              \A i \in 1 .. Len(CommandsOf(what)) : CommandsOf(what)[i].cmd = "get"
<1>1. CommandsOf(what) \in Seq(Commands)
  BY Whatever, ApplyCommands, ReadCommands, SingleCommands
<1>2. \A i \in 1 .. Len(CommandsOf(what)) : CommandsOf(what)[i] \in Commands
  BY <1>1, ElementOfSeq, Zenon
<1>3. ASSUME what.do \in {"read", "get"}, NEW i \in 1 .. Len(CommandsOf(what))
      PROVE  CommandsOf(what)[i].cmd = "get"
  <2>1. CASE what.do = "read"
    <3>1. Len(CommandsOf(what)) = KeyCount /\ \A k \in Ks : CommandsOf(what)[k] = Get(k)
      BY <2>1, ReadCommands
    <3>2. CommandsOf(what)[i] = Get(i) BY <3>1 DEF Ks
    <3> QED BY <3>2 DEF Get
  <2>2. CASE what.do = "get"
    <3>1. Len(CommandsOf(what)) = 1 /\ CommandsOf(what)[1] = Get(what.key)
      BY <2>2, SingleCommands
    <3>2. i = 1 BY <3>1
    <3> QED BY <3>1, <3>2 DEF Get
  <2> QED BY <1>3, <2>1, <2>2
<1> QED BY <1>1, <1>2, <1>3

\* A command's execution, on the keys.
LEMMA ExecuteKeys ==
  ASSUME TypeOK, Execute
  PROVE  /\ pending # <<>> /\ Head(pending) \in Commands /\ Head(pending) = pending[1]
         /\ keys' \in [Ks -> Values]
         /\ \A k \in Ks : keys'[k] = IF Writes(pending[1], k) THEN pending[1].value ELSE keys[k]
<1> DEFINE c == Head(pending)
<1>1. pending # <<>> /\ c \in Commands /\ c = pending[1]
  BY HeadTailProperties, LenProperties DEF TypeOK, Execute
<1>2. keys \in [Ks -> Values] /\ Factory \in Values BY DEF TypeOK, Values
<1>3. CASE c.cmd = "set"
  <2>1. keys' = [keys EXCEPT ![c.key] = c.value] BY <1>3 DEF Execute
  <2>2. c.value \in Values BY <1>1, <1>3 DEF Commands
  <2> QED BY <1>1, <1>2, <1>3, <2>1, <2>2 DEF Writes
<1>4. CASE c.cmd = "get"
  <2>1. keys' = keys BY <1>4 DEF Execute
  <2> QED BY <1>1, <1>2, <1>4, <2>1 DEF Writes
<1>5. CASE c.cmd = "reset"
  <2>1. keys' = [k \in Ks |-> Factory] BY <1>5 DEF Execute
  <2>2. c.value = Factory BY <1>1, <1>5 DEF Commands
  <2> QED BY <1>1, <1>2, <1>5, <2>1, <2>2 DEF Writes
<1> QED BY <1>1, <1>3, <1>4, <1>5 DEF Commands, Fields

-----------------------------------------------------------------------------
\* Types.

LEMMA InitTyped == Init => TypeOK
<1> SUFFICES ASSUME Init PROVE TypeOK OBVIOUS
<1>1. NoJob \in Jobs BY EmptySeq DEF NoJob, Jobs
<1>2. pending \in Seq(Commands) /\ replies \in Seq(Commands) BY EmptySeq DEF Init
<1> QED BY <1>1, <1>2 DEF Init, TypeOK, Values

\* A job that begins.
LEMMA BeginsRight ==
  ASSUME TypeOK, NEW u \in Users, ~Busy(u), Request(u) \/ Command(u)
  PROVE  \E what \in Whats :
           job' = [job EXCEPT ![u] = [pc |-> "send", what |-> what, at |-> 1, got |-> <<>>]]
  BY DEF Request, Command, Begin, Whats

\* The command a job sends or waits for.
LEMMA CommandRight ==
  ASSUME TypeOK, JobsRight, NEW u \in Users, Busy(u)
  PROVE  /\ job[u].what \in Whats /\ job[u].at \in Nat \ {0} /\ job[u].at <= Len(Asked(u))
         /\ Asked(u) \in Seq(Commands) /\ Len(Asked(u)) \in Nat
         /\ Asked(u)[job[u].at] \in Commands
<1>1. job[u].what \in Whats /\ job[u].at \in 1 .. Len(Asked(u)) BY DEF JobsRight
<1>2. Asked(u) \in Seq(Commands) /\ Asked(u)[job[u].at] \in Commands
  BY <1>1, CommandsTyped DEF Asked
<1>3. Len(Asked(u)) \in Nat BY <1>2, LenProperties
<1> QED BY <1>1, <1>2, <1>3

LEMMA SendTyped ==
  ASSUME TypeOK, JobsRight, NEW u \in Users, Send(u)
  PROVE  TypeOK'
<1> DEFINE command == Asked(u)[job[u].at]
<1>1. Busy(u) BY DEF Send, Busy
<1>2. command \in Commands BY <1>1, CommandRight
<1>3. pending' \in Seq(Commands) BY <1>2, AppendProperties DEF TypeOK, Send, Asked
<1> QED BY <1>3 DEF TypeOK, Jobs, Send, Finish

\* What an answer does to the job that waits for it.
LEMMA HearsTyped ==
  ASSUME TypeOK, NEW u \in Users, Hear(u)
  PROVE  LET r    == Head(replies)
             ok   == Fits(r, Asked(u)[job[u].at])
             done == ~ok \/ job[u].at = Len(Asked(u))
         IN \/ r.cmd # Asked(u)[job[u].at].cmd /\ UNCHANGED <<job, hid, wrote>>
            \/ /\ r.cmd = Asked(u)[job[u].at].cmd
               /\ job' = [job EXCEPT ![u] =
                    [pc   |-> IF ~ok THEN "failed" ELSE IF done THEN "ok" ELSE "send",
                     what |-> job[u].what, at |-> IF done THEN job[u].at ELSE job[u].at + 1,
                     got  |-> Append(job[u].got, r)]]
               /\ hid' = IF done THEN None ELSE u
  BY DEF TypeOK, Hear, Held, Asked

LEMMA HearTyped ==
  ASSUME TypeOK, JobsRight, NEW u \in Users, Hear(u)
  PROVE  TypeOK'
<1>1. Head(replies) \in Commands /\ replies' \in Seq(Commands)
  BY HeadTailProperties DEF TypeOK, Hear
<1>2. Busy(u) BY DEF Hear, Busy
<1>3. job[u].what \in Whats BY <1>2, CommandRight
<1>4. job[u] \in Jobs BY DEF TypeOK
<1>5. Append(job[u].got, Head(replies)) \in Seq(Commands)
  BY <1>1, <1>4, AppendProperties DEF Jobs
<1>6. job' \in [Users -> Jobs]
  <2>1. ASSUME NEW pc \in {"failed", "ok", "send"}, NEW at \in Nat
        PROVE  [pc |-> pc, what |-> job[u].what, at |-> at,
                got |-> Append(job[u].got, Head(replies))] \in Jobs
    BY <1>3, <1>5, <2>1 DEF Jobs
  <2>2. job[u].at \in Nat /\ job[u].at + 1 \in Nat BY <1>4 DEF Jobs
  <2>3. job' = job \/ \E j \in Jobs : job' = [job EXCEPT ![u] = j] BY <2>1, <2>2, HearsTyped
  <2> QED BY <2>3 DEF TypeOK
<1>7. wrote' \in Whats \cup {None} BY <1>3 DEF TypeOK, Hear
<1>8. hid' \in Users \cup {None} BY DEF TypeOK, Hear, Held
<1> QED BY <1>1, <1>6, <1>7, <1>8 DEF TypeOK, Hear

LEMMA ExecuteTyped ==
  ASSUME TypeOK, Execute
  PROVE  TypeOK'
<1> DEFINE c == Head(pending)
           r == IF c.cmd = "get" THEN [c EXCEPT !.value = keys[c.key]] ELSE c
<1>1. pending # <<>> /\ c \in Commands /\ keys' \in [Ks -> Values] BY ExecuteKeys
<1>2. pending' \in Seq(Commands) BY <1>1, HeadTailProperties DEF TypeOK, Execute
<1>3. r \in Commands BY <1>1 DEF TypeOK, Commands, Fields
<1>4. replies' = Append(replies, r) BY DEF Execute
<1>5. replies' \in Seq(Commands) BY <1>3, <1>4, AppendProperties DEF TypeOK
<1>6. saved' \in [Ks -> Values]
  <2>1. saved' = keys' \/ saved' = saved BY DEF Execute
  <2> QED BY <1>1, <2>1 DEF TypeOK
<1> QED BY <1>1, <1>2, <1>5, <1>6 DEF TypeOK, Execute

LEMMA NextTyped == TypeOK /\ JobsRight /\ [Next]_vars => TypeOK'
<1> SUFFICES ASSUME TypeOK, JobsRight, [Next]_vars PROVE TypeOK' OBVIOUS
<1>1. ASSUME NEW u \in Users, ~Busy(u), Request(u) \/ Command(u) PROVE TypeOK'
  <2>1. PICK what \in Whats :
          job' = [job EXCEPT ![u] = [pc |-> "send", what |-> what, at |-> 1, got |-> <<>>]]
    BY <1>1, BeginsRight
  <2>2. <<>> \in Seq(Commands) BY EmptySeq
  <2> QED BY <1>1, <2>1, <2>2 DEF TypeOK, Jobs, Request, Command
<1>2. ASSUME NEW a \in Apps, Check(a) \/ Enter(a) \/ Leave(a) PROVE TypeOK'
  BY <1>2 DEF TypeOK, Check, Enter, Leave
<1>3. ASSUME NEW u \in Users, TimeOut(u) \/ Reject(u) PROVE TypeOK'
  <2>1. job' \in [Users -> Jobs] BY <1>3 DEF TypeOK, Jobs, TimeOut, Reject, Finish
  <2> QED BY <1>3, <2>1 DEF TypeOK, TimeOut, Reject
<1>4. CASE Poll
  <2>1. replies' \in Seq(Commands) BY <1>4, HeadTailProperties DEF TypeOK, Poll
  <2> QED BY <1>4, <2>1 DEF TypeOK, Poll
<1>5. CASE PowerCycle
  <2>1. pending' \in Seq(Commands) /\ replies' \in Seq(Commands) BY <1>5, EmptySeq DEF PowerCycle
  <2>2. wrote' \in Whats \cup {None} BY <1>5 DEF TypeOK, PowerCycle
  <2> QED BY <1>5, <2>1, <2>2 DEF TypeOK, Jobs, PowerCycle
<1>6. CASE UNCHANGED vars BY <1>6 DEF TypeOK, vars
<1>7. ASSUME NEW c \in Calls, Request(c) PROVE c \in Users /\ ~Busy(c)
  BY <1>7 DEF Users, Request, Busy
<1>8. ASSUME NEW a \in Apps, Command(a) PROVE a \in Users /\ ~Busy(a)
  BY <1>8 DEF Users, Command, Busy
<1> QED BY <1>1, <1>2, <1>3, <1>4, <1>5, <1>6, <1>7, <1>8, SendTyped, HearTyped, ExecuteTyped
  DEF Next

-----------------------------------------------------------------------------
\* The jobs, and what is waited for.

LEMMA AwaitHolds ==
  ASSUME TypeOK, JobsRight, NEW u \in Users, job[u].pc = "await"
  PROVE  Busy(u) /\ Sent(u) = job[u].at /\ hid = u
<1>1. Busy(u) /\ Sent(u) = job[u].at BY DEF Busy, Sent
<1>2. job[u].at > 0 BY <1>1, CommandRight
<1> QED BY <1>1, <1>2 DEF JobsRight

\* Whoever does not hold the HID manager has sent nothing yet.
LEMMA NothingSent ==
  ASSUME TypeOK, JobsRight, NEW u \in Users, Busy(u), hid # u
  PROVE  job[u].pc = "send" /\ job[u].at = 1 /\ Sent(u) = 0
<1>1. job[u].at \in Nat \ {0} BY CommandRight
<1>2. ~(Sent(u) > 0) BY DEF JobsRight
<1> QED BY <1>1, <1>2 DEF Sent, Busy

LEMMA SomeCommand ==
  ASSUME NEW what \in Whats
  PROVE  Len(CommandsOf(what)) \in Nat \ {0}
<1>1. KeyCount \in Nat \ {0} BY DeviceClientsAssumption
<1>2. CASE what.do = "apply" BY <1>1, <1>2, ApplyCommands
<1>3. CASE what.do = "read" BY <1>1, <1>3, ReadCommands
<1>4. CASE what.do \in {"put", "get", "reset"} BY <1>4, SingleCommands
<1> QED BY <1>2, <1>3, <1>4, Whatever

LEMMA NextKeepsJobs == TypeOK /\ JobsRight /\ [Next]_vars => JobsRight'
<1> SUFFICES ASSUME TypeOK, JobsRight, [Next]_vars PROVE JobsRight' OBVIOUS
<1> DEFINE Right(u) ==
      Busy(u) => /\ job[u].what \in Whats /\ job[u].at \in 1 .. Len(Asked(u))
                 /\ Len(job[u].got) = job[u].at - 1
                 /\ Sent(u) > 0 => hid = u
<1>0. \A w \in Users : Right(w) BY DEF JobsRight
<1> SUFFICES ASSUME NEW w \in Users PROVE Right(w)' BY DEF JobsRight
<1>1. ASSUME NEW u \in Users, ~Busy(u), Request(u) \/ Command(u) PROVE Right(w)'
  <2>1. PICK what \in Whats :
          job' = [job EXCEPT ![u] = [pc |-> "send", what |-> what, at |-> 1, got |-> <<>>]]
    BY <1>1, BeginsRight
  <2>2. CASE w = u
    <3>1. job'[w] = [pc |-> "send", what |-> what, at |-> 1, got |-> <<>>]
      BY <2>1, <2>2 DEF TypeOK
    <3>2. Asked(w)' = CommandsOf(what) BY <3>1 DEF Asked
    <3> QED BY <3>1, <3>2, SomeCommand DEF Sent
  <2>3. CASE w # u
    <3>1. job'[w] = job[w] /\ hid' = hid BY <1>1, <2>1, <2>3 DEF TypeOK, Request, Command
    <3> QED BY <1>0, <3>1 DEF Busy, Asked, Sent
  <2> QED BY <2>2, <2>3
<1>2. ASSUME NEW u \in Users, Send(u) PROVE Right(w)'
  <2>1. CASE w = u
    <3>1. job'[w] = [job[w] EXCEPT !.pc = "await"] /\ hid' = w
      BY <1>2, <2>1 DEF TypeOK, Send, Finish
    <3>2. Busy(w) BY <1>2, <2>1 DEF Send, Busy
    <3> QED BY <1>0, <3>1, <3>2 DEF TypeOK, Jobs, Asked
  <2>2. CASE w # u
    <3>1. job'[w] = job[w] /\ hid # w
      BY <1>2, <2>2, DeviceClientsAssumption DEF TypeOK, Send, Finish
    <3> QED BY <1>0, <3>1, NothingSent DEF Busy, Asked, Sent
  <2> QED BY <2>1, <2>2
<1>3. ASSUME NEW u \in Users, Hear(u) PROVE Right(w)'
  <2>0. job[u].pc = "await" /\ Busy(u) /\ hid = u BY <1>3, AwaitHolds DEF Hear
  <2>1. CASE job' = job /\ hid' = hid BY <1>0, <2>1 DEF Busy, Asked, Sent
  <2>2. CASE w = u /\ ~(job' = job /\ hid' = hid)
    <3>1. Busy(w)' => /\ job'[w].pc = "send" /\ hid' = w /\ job'[w].what = job[w].what
                      /\ job[w].at # Len(Asked(w)) /\ job'[w].at = job[w].at + 1
                      /\ job'[w].got = Append(job[w].got, Head(replies))
      BY <1>3, <2>2, HearsTyped DEF TypeOK, Busy
    <3>2. Len(Append(job[w].got, Head(replies))) = Len(job[w].got) + 1
      <4>1. Head(replies) \in Commands BY <1>3, HeadTailProperties DEF TypeOK, Hear
      <4> QED BY <4>1, AppendProperties DEF TypeOK, Jobs
    <3>3. /\ job[w].what \in Whats /\ Len(job[w].got) = job[w].at - 1
          /\ job[w].at \in Nat /\ Len(Asked(w)) \in Nat /\ job[w].at <= Len(Asked(w))
      BY <1>0, <2>0, <2>2, CommandRight
    <3>4. Busy(w)' => Asked(w)' = Asked(w) BY <3>1 DEF Asked
    <3> QED BY <3>1, <3>2, <3>3, <3>4
  <2>3. CASE w # u
    <3>1. job'[w] = job[w] /\ hid # w BY <1>3, <2>0, <2>3, HearsTyped DEF TypeOK
    <3> QED BY <1>0, <3>1, NothingSent DEF Busy, Asked, Sent
  <2> QED BY <2>1, <2>2, <2>3
<1>4. ASSUME NEW u \in Users, TimeOut(u) \/ Reject(u) PROVE Right(w)'
  <2>1. CASE w = u
    <3>1. job'[w].pc = "failed" BY <1>4, <2>1 DEF TypeOK, Jobs, TimeOut, Reject, Finish
    <3> QED BY <3>1 DEF Busy
  <2>2. CASE w # u
    <3>1. hid \in {None, u}
      <4>1. CASE TimeOut(u) BY <4>1, AwaitHolds DEF TimeOut
      <4>2. CASE Reject(u) BY <4>2 DEF Reject
      <4> QED BY <1>4, <4>1, <4>2
    <3>2. job'[w] = job[w] /\ hid # w
      BY <1>4, <2>2, <3>1, DeviceClientsAssumption DEF TypeOK, TimeOut, Reject, Finish
    <3> QED BY <1>0, <3>2, NothingSent DEF Busy, Asked, Sent
  <2> QED BY <2>1, <2>2
<1>5. CASE PowerCycle
  <2>1. CASE hid = w
    <3>1. job'[w].pc = "failed" BY <1>5, <2>1 DEF TypeOK, Jobs, PowerCycle
    <3> QED BY <3>1 DEF Busy
  <2>2. CASE hid # w
    <3>1. job'[w] = job[w] BY <1>5, <2>2 DEF PowerCycle
    <3> QED BY <1>0, <2>2, <3>1, NothingSent DEF Busy, Asked, Sent
  <2> QED BY <2>1, <2>2
<1>6. CASE job' = job /\ hid' = hid BY <1>0, <1>6 DEF Busy, Asked, Sent
<1>7. ASSUME NEW c \in Calls, Request(c) PROVE c \in Users /\ ~Busy(c)
  BY <1>7 DEF Users, Request, Busy
<1>8. ASSUME NEW a \in Apps, Command(a) PROVE a \in Users /\ ~Busy(a)
  BY <1>8 DEF Users, Command, Busy
<1> QED BY <1>1, <1>2, <1>3, <1>4, <1>5, <1>6, <1>7, <1>8
  DEF Next, vars, Check, Enter, Leave, Poll, Execute

\* In the last command of the queue is the one that is waited for, if it is still there.
LEMMA NextKeepsLast ==
  TypeOK /\ JobsRight /\ LastIsAwaited /\ [Next]_vars => LastIsAwaited'
<1> SUFFICES ASSUME TypeOK, JobsRight, LastIsAwaited, [Next]_vars,
                    NEW w \in Users, job'[w].pc = "await", pending' # <<>>
             PROVE  pending'[Len(pending')] = Asked(w)'[job'[w].at]
  BY DEF LastIsAwaited
<1>1. CASE \E u \in Users : Send(u)
  <2>1. PICK u \in Users : Send(u) BY <1>1
  <2>2. job'[w] = [job[w] EXCEPT !.pc = "await"] /\ w = u
    <3>1. w # u => job'[w] = job[w] /\ hid # w
      BY <2>1, DeviceClientsAssumption DEF TypeOK, Send, Finish
    <3>2. w = u BY <3>1, AwaitHolds
    <3> QED BY <2>1, <3>2 DEF TypeOK, Send, Finish
  <2>3. Busy(w) BY <2>1, <2>2 DEF Send, Busy
  <2>4. pending' = Append(pending, Asked(w)[job[w].at]) BY <2>1, <2>2 DEF Send, Asked
  <2>5. pending'[Len(pending')] = Asked(w)[job[w].at]
    BY <2>3, <2>4, CommandRight, AppendProperties DEF TypeOK
  <2> QED BY <2>2, <2>5 DEF TypeOK, Jobs, Asked
<1>2. CASE Execute
  <2>1. pending # <<>> /\ pending' = Tail(pending) /\ job' = job BY <1>2 DEF Execute
  <2>2. /\ Len(pending') = Len(pending) - 1 /\ Len(pending') \in Nat \ {0} /\ Len(pending) \in Nat
        /\ \A i \in 1 .. Len(pending') : pending'[i] = pending[i + 1]
    <3>1. Tail(pending) \in Seq(Commands) BY <2>1, HeadTailProperties DEF TypeOK
    <3> QED BY <2>1, <3>1, HeadTailProperties, EmptySeq, LenProperties DEF TypeOK
  <2>3. pending'[Len(pending')] = pending[Len(pending)] BY <2>2
  <2> QED BY <2>1, <2>3 DEF LastIsAwaited, Asked
<1>3. CASE job' = job /\ pending' = pending BY <1>3 DEF LastIsAwaited, Asked
<1>4. ASSUME NEW u \in Users, job' = [job EXCEPT ![u] = job'[u]], job'[u].pc # "await",
             pending' = pending
      PROVE  pending'[Len(pending')] = Asked(w)'[job'[w].at]
  <2>1. job'[w] = job[w] BY <1>4 DEF TypeOK
  <2> QED BY <1>4, <2>1 DEF LastIsAwaited, Asked
<1>5. ASSUME NEW u \in Users, ~Busy(u), Request(u) \/ Command(u)
      PROVE  job' = [job EXCEPT ![u] = job'[u]] /\ job'[u].pc # "await" /\ pending' = pending
  BY <1>5, BeginsRight DEF TypeOK, Request, Command
<1>6. ASSUME NEW u \in Users, Hear(u)
      PROVE  \/ job' = job /\ pending' = pending
             \/ job' = [job EXCEPT ![u] = job'[u]] /\ job'[u].pc # "await" /\ pending' = pending
  BY <1>6, HearsTyped DEF TypeOK, Hear
<1>7. ASSUME NEW u \in Users, TimeOut(u) \/ Reject(u)
      PROVE  job' = [job EXCEPT ![u] = job'[u]] /\ job'[u].pc # "await" /\ pending' = pending
  BY <1>7 DEF TypeOK, Jobs, TimeOut, Reject, Finish
<1>8. ~PowerCycle BY DEF PowerCycle
<1>9. ASSUME NEW c \in Calls, Request(c) PROVE c \in Users /\ ~Busy(c)
  BY <1>9 DEF Users, Request, Busy
<1>10. ASSUME NEW a \in Apps, Command(a) PROVE a \in Users /\ ~Busy(a)
  BY <1>10 DEF Users, Command, Busy
<1> QED BY <1>1, <1>2, <1>3, <1>4, <1>5, <1>6, <1>7, <1>8, <1>9, <1>10
  DEF Next, vars, Check, Enter, Leave, Poll

-----------------------------------------------------------------------------
\* What the keys will be, and what they are.

LEMMA Appended ==
  ASSUME TypeOK, NEW c \in Commands, pending' = Append(pending, c)
  PROVE  /\ Len(pending) \in Nat /\ Len(pending') = Len(pending) + 1
         /\ DOMAIN pending = 1 .. Len(pending) /\ DOMAIN pending' = 1 .. Len(pending')
         /\ \A i \in 1 .. Len(pending) : pending'[i] = pending[i]
         /\ pending'[Len(pending) + 1] = c
<1>1. pending \in Seq(Commands) BY DEF TypeOK
<1>2. pending' \in Seq(Commands) BY <1>1, AppendProperties
<1> QED BY <1>1, <1>2, AppendProperties, LenProperties

LEMMA Taken ==
  ASSUME TypeOK, pending # <<>>, pending' = Tail(pending)
  PROVE  /\ Len(pending') \in Nat /\ Len(pending) = Len(pending') + 1
         /\ DOMAIN pending = 1 .. Len(pending) /\ DOMAIN pending' = 1 .. Len(pending')
         /\ \A i \in 1 .. Len(pending') : pending'[i] = pending[i + 1]
<1>1. pending \in Seq(Commands) BY DEF TypeOK
<1>2. pending' \in Seq(Commands) BY <1>1, HeadTailProperties
<1> QED BY <1>1, <1>2, HeadTailProperties, LenProperties

\* A command that does not write k leaves k to those before it; one that writes k
\* decides.
LEMMA AppendKeeps ==
  ASSUME TypeOK, NEW c \in Commands, pending' = Append(pending, c), keys' = keys,
         NEW k, NEW v, WillBe(k, v), ~Writes(c, k)
  PROVE  WillBe(k, v)'
<1>1. ASSUME NEW i \in DOMAIN pending', LastWrite(i, k)' PROVE pending'[i].value = v
  <2>1. i \in DOMAIN pending /\ pending'[i] = pending[i] BY <1>1, Appended DEF LastWrite, Writes
  <2>2. LastWrite(i, k) BY <1>1, <2>1, Appended DEF LastWrite, Writes
  <2> QED BY <2>1, <2>2 DEF WillBe
<1>2. ASSUME \A i \in DOMAIN pending' : ~Writes(pending'[i], k) PROVE keys'[k] = v
  <2>1. \A i \in DOMAIN pending : ~Writes(pending[i], k) BY <1>2, Appended
  <2> QED BY <2>1 DEF WillBe
<1> QED BY <1>1, <1>2 DEF WillBe

LEMMA AppendMakes ==
  ASSUME TypeOK, NEW c \in Commands, pending' = Append(pending, c), NEW k, Writes(c, k)
  PROVE  WillBe(k, c.value)'
<1>1. ASSUME NEW i \in DOMAIN pending', LastWrite(i, k)' PROVE pending'[i] = c
  <2>1. i = Len(pending') BY <1>1, Appended DEF LastWrite
  <2> QED BY <2>1, Appended
<1>2. \E i \in DOMAIN pending' : Writes(pending'[i], k) BY Appended
<1> QED BY <1>1, <1>2 DEF WillBe

LEMMA ExecuteKeeps ==
  ASSUME TypeOK, Execute, NEW k \in Ks, NEW v, WillBe(k, v)
  PROVE  WillBe(k, v)'
<1>0. pending # <<>> /\ pending' = Tail(pending) BY DEF Execute
<1>1. ASSUME NEW i \in DOMAIN pending', LastWrite(i, k)' PROVE pending'[i].value = v
  <2>1. i + 1 \in DOMAIN pending /\ pending'[i] = pending[i + 1] BY <1>0, <1>1, Taken
  <2>2. ASSUME NEW j \in DOMAIN pending, j > i + 1 PROVE ~Writes(pending[j], k)
    <3>1. j - 1 \in DOMAIN pending' /\ j - 1 > i /\ pending'[j - 1] = pending[j]
      BY <1>0, <1>1, <2>2, Taken
    <3> QED BY <1>1, <3>1 DEF LastWrite
  <2>3. LastWrite(i + 1, k) BY <1>1, <2>1, <2>2 DEF LastWrite
  <2> QED BY <2>1, <2>3 DEF WillBe
<1>2. ASSUME \A i \in DOMAIN pending' : ~Writes(pending'[i], k) PROVE keys'[k] = v
  <2>1. 1 \in DOMAIN pending /\ \A j \in DOMAIN pending : j > 1 => ~Writes(pending[j], k)
    <3>1. ASSUME NEW j \in DOMAIN pending, j > 1 PROVE ~Writes(pending[j], k)
      <4>1. j - 1 \in DOMAIN pending' /\ pending'[j - 1] = pending[j] BY <1>0, <3>1, Taken
      <4> QED BY <1>2, <4>1
    <3> QED BY <1>0, <3>1, Taken
  <2>2. CASE Writes(pending[1], k)
    <3>1. LastWrite(1, k) BY <2>1, <2>2 DEF LastWrite
    <3> QED BY <2>1, <2>2, <3>1, ExecuteKeys DEF WillBe
  <2>3. CASE ~Writes(pending[1], k)
    <3>1. \A j \in DOMAIN pending : j = 1 \/ j > 1 BY <1>0, Taken
    <3>2. keys[k] = v BY <2>1, <2>3, <3>1 DEF WillBe
    <3> QED BY <2>3, <3>2, ExecuteKeys
  <2> QED BY <2>2, <2>3
<1> QED BY <1>1, <1>2 DEF WillBe

\* The commands of a preset, as far as they were sent.
LEMMA PresetSent ==
  ASSUME TypeOK, JobsRight, NEW u \in Users, Applying(u)
  PROVE  /\ job[u].what \in Whats /\ Len(Asked(u)) = KeyCount
         /\ \A k \in Ks : Asked(u)[k] = Set(k, job[u].what.value, k = KeyCount)
         /\ job[u].at \in Ks /\ Sent(u) \in 0 .. KeyCount
         /\ Sent(u) = KeyCount => job[u].pc = "await" /\ job[u].at = KeyCount
<1>1. job[u].what \in Whats /\ job[u].what.do = "apply" /\ job[u].at \in Nat \ {0}
  BY CommandRight DEF Applying
<1>2. /\ Len(Asked(u)) = KeyCount
      /\ \A k \in Ks : Asked(u)[k] = Set(k, job[u].what.value, k = KeyCount)
  BY <1>1, ApplyCommands DEF Asked
<1>3. KeyCount \in Nat \ {0} BY DeviceClientsAssumption
<1>4. job[u].at \in 1 .. KeyCount BY <1>1, <1>2, <1>3, CommandRight DEF Applying
<1> QED BY <1>1, <1>2, <1>3, <1>4 DEF Ks, Sent

LEMMA NextKeepsPresets ==
  TypeOK /\ JobsRight /\ LastIsAwaited /\ PresetsRight /\ [Next]_vars => PresetsRight'
<1> SUFFICES ASSUME TypeOK, JobsRight, LastIsAwaited, PresetsRight, [Next]_vars,
                    NEW w \in Users, Applying(w)', NEW v, v = job'[w].what.value
             PROVE  /\ \A k \in 1 .. Sent(w)' : WillBe(k, v)'
                    /\ Sent(w)' = KeyCount /\ pending' = <<>> => \A k \in Ks : saved'[k] = v
  BY DEF PresetsRight, WillBe, LastWrite
<1> DEFINE Goal == /\ \A k \in 1 .. Sent(w)' : WillBe(k, v)'
                   /\ Sent(w)' = KeyCount /\ pending' = <<>> => \A k \in Ks : saved'[k] = v
<1>0. KeyCount \in Nat \ {0} BY DeviceClientsAssumption
<1>a. CASE Sent(w)' = 0 BY <1>0, <1>a
<1>b. CASE /\ Applying(w) /\ job'[w].what = job[w].what /\ Sent(w)' = Sent(w)
           /\ keys' = keys /\ saved' = saved /\ pending' = pending
  <2>1. \A k \in 1 .. Sent(w) : WillBe(k, v) BY <1>b DEF PresetsRight
  <2>2. \A k \in 1 .. Sent(w) : WillBe(k, v)' BY <1>b, <2>1 DEF WillBe, LastWrite
  <2>3. Sent(w) = KeyCount /\ pending = <<>> => \A k \in Ks : saved[k] = v
    BY <1>b DEF PresetsRight
  <2> QED BY <1>b, <2>2, <2>3
<1>1. ASSUME NEW u \in Users, ~Busy(u), Request(u) \/ Command(u) PROVE Goal
  <2>1. PICK what \in Whats :
          job' = [job EXCEPT ![u] = [pc |-> "send", what |-> what, at |-> 1, got |-> <<>>]]
    BY <1>1, BeginsRight
  <2>2. w = u => Sent(w)' = 0 BY <2>1 DEF TypeOK, Sent
  <2>3. w # u => job'[w] = job[w] BY <2>1 DEF TypeOK
  <2> QED BY <1>1, <1>a, <1>b, <2>2, <2>3 DEF Request, Command, Applying, Busy, Sent
<1>2. ASSUME NEW u \in Users, Send(u) PROVE Goal
  <2>1. CASE w # u
    <3>1. job'[w] = job[w] /\ hid # w
      BY <1>2, <2>1, DeviceClientsAssumption DEF TypeOK, Send, Finish
    <3>2. Busy(w) /\ Sent(w)' = Sent(w) BY <3>1 DEF Applying, Busy, Sent
    <3> QED BY <1>a, <3>1, <3>2, NothingSent
  <2>2. CASE w = u
    <3> DEFINE n == job[w].at
    <3>1. job[w].pc = "send" /\ job'[w] = [job[w] EXCEPT !.pc = "await"]
      BY <1>2, <2>2 DEF TypeOK, Send, Finish
    <3>2. /\ job'[w].what = job[w].what /\ job[w].what.value = v
          /\ Sent(w)' = n /\ Sent(w) = n - 1 /\ Applying(w)
      BY <3>1 DEF TypeOK, Jobs, Sent, Applying, Busy
    <3>3. /\ n \in Ks /\ Asked(w)[n] = Set(n, v, n = KeyCount) /\ Asked(w)[n] \in Commands
      BY <3>2, PresetSent, CommandRight DEF Applying
    <3>4. pending' = Append(pending, Asked(w)[n]) /\ keys' = keys BY <1>2, <2>2 DEF Send, Asked
    <3>5. pending' # <<>> BY <3>3, <3>4, Appended
    <3>6. ASSUME NEW k \in 1 .. n PROVE WillBe(k, v)'
      <4>1. CASE k = n
        <5>1. Writes(Asked(w)[n], n) /\ Asked(w)[n].value = v BY <3>3 DEF Writes, Set
        <5> QED BY <3>3, <3>4, <4>1, <5>1, AppendMakes
      <4>2. CASE k # n
        <5>1. k \in 1 .. (n - 1) BY <3>3, <4>2 DEF Ks
        <5>2. WillBe(k, v) BY <3>2, <5>1 DEF PresetsRight
        <5>3. ~Writes(Asked(w)[n], k) BY <3>3, <4>2 DEF Writes, Set
        <5> QED BY <3>3, <3>4, <5>2, <5>3, AppendKeeps
      <4> QED BY <4>1, <4>2
    <3> QED BY <3>2, <3>5, <3>6
  <2> QED BY <2>1, <2>2
<1>3. ASSUME NEW u \in Users, Hear(u) PROVE Goal
  <2>0. job[u].pc = "await" /\ Busy(u) /\ Sent(u) = job[u].at BY <1>3, AwaitHolds DEF Hear
  <2>1. keys' = keys /\ saved' = saved /\ pending' = pending BY <1>3 DEF Hear
  <2>2. CASE job'[w] = job[w] BY <1>b, <2>1, <2>2 DEF Applying, Busy, Sent
  <2>3. CASE w = u /\ job'[w] # job[w]
    <3>1. /\ job'[w].pc = "send" /\ job'[w].what = job[w].what
          /\ job'[w].at = job[w].at + 1
      BY <1>3, <2>3, HearsTyped DEF TypeOK, Applying, Busy
    <3>2. Sent(w)' = Sent(w) /\ Applying(w)
      BY <2>0, <2>3, <3>1, CommandRight DEF Sent, Applying, Busy
    <3> QED BY <1>b, <2>1, <3>1, <3>2
  <2>4. w # u => job'[w] = job[w] BY <1>3, HearsTyped DEF TypeOK
  <2> QED BY <2>2, <2>3, <2>4
<1>4. ASSUME NEW u \in Users, TimeOut(u) \/ Reject(u) PROVE Goal
  <2>1. w = u => job'[w].pc = "failed" BY <1>4 DEF TypeOK, Jobs, TimeOut, Reject, Finish
  <2>2. job'[w] = job[w] BY <1>4, <2>1 DEF TypeOK, TimeOut, Reject, Finish, Applying, Busy
  <2> QED BY <1>4, <1>b, <2>2 DEF TimeOut, Reject, Applying, Busy, Sent
<1>5. CASE PowerCycle
  <2>1. hid = w => job'[w].pc = "failed" BY <1>5 DEF TypeOK, Jobs, PowerCycle
  <2>2. hid # w /\ job'[w] = job[w] BY <1>5, <2>1 DEF PowerCycle, Applying, Busy
  <2>3. Busy(w) /\ Sent(w)' = Sent(w) BY <2>2 DEF Applying, Busy, Sent
  <2> QED BY <1>a, <2>2, <2>3, NothingSent
<1>6. CASE Execute
  <2>1. job' = job /\ pending # <<>> /\ pending' = Tail(pending) BY <1>6 DEF Execute
  <2>2. Applying(w) /\ Sent(w)' = Sent(w) /\ job[w].what.value = v
    BY <2>1 DEF Applying, Busy, Sent
  <2>3. \A k \in 1 .. Sent(w) : k \in Ks BY <1>0, <2>2, PresetSent DEF Ks
  <2>4. \A k \in 1 .. Sent(w) : WillBe(k, v)'
    <3>1. \A k \in 1 .. Sent(w) : WillBe(k, v) BY <2>2 DEF PresetsRight
    <3> QED BY <1>6, <2>3, <3>1, ExecuteKeeps
  <2>5. ASSUME Sent(w) = KeyCount, pending' = <<>>, NEW k \in Ks
        PROVE  saved'[k] = v
    <3>1. job[w].pc = "await" /\ job[w].at = KeyCount BY <2>2, <2>5, PresetSent
    <3>2. Len(pending) = 1
      <4>1. Len(pending') = 0 BY <2>5
      <4> QED BY <2>1, <4>1, Taken
    <3>3. pending[1] = Set(KeyCount, v, TRUE)
      <4>1. pending[1] = Asked(w)[KeyCount] BY <2>1, <3>1, <3>2 DEF LastIsAwaited
      <4>2. KeyCount \in Ks BY <1>0 DEF Ks
      <4>3. Asked(w)[KeyCount] = Set(KeyCount, v, KeyCount = KeyCount)
        BY <2>2, <4>2, PresetSent, Zenon
      <4>4. (KeyCount = KeyCount) = TRUE OBVIOUS
      <4> QED BY <4>1, <4>3, <4>4, Zenon
    <3>4. saved' = keys' BY <1>6, <3>3, ExecuteKeys DEF Execute, Set
    <3>5. keys'[k] = v
      <4>1. WillBe(k, v)' BY <2>4, <2>5 DEF Ks
      <4>2. DOMAIN pending' = {} BY <2>5
      <4> QED BY <4>1, <4>2 DEF WillBe
    <3> QED BY <3>4, <3>5
  <2> QED BY <2>1, <2>2, <2>4, <2>5
<1>7. CASE /\ job' = job /\ keys' = keys /\ saved' = saved /\ pending' = pending
  BY <1>b, <1>7 DEF Applying, Busy, Sent
<1>8. ASSUME NEW c \in Calls, Request(c) PROVE c \in Users /\ ~Busy(c)
  BY <1>8 DEF Users, Request, Busy
<1>9. ASSUME NEW a \in Apps, Command(a) PROVE a \in Users /\ ~Busy(a)
  BY <1>9 DEF Users, Command, Busy
<1> QED BY <1>1, <1>2, <1>3, <1>4, <1>5, <1>6, <1>7, <1>8, <1>9
  DEF Next, vars, Check, Enter, Leave, Poll

\* Nothing that writes is on its way since the write that was seen to complete, and
\* a preset stays whole until something is.
LEMMA NextKeepsWhole ==
  ASSUME TypeOK, JobsRight, PresetsRight, WroteLast, PresetIsWhole, [Next]_vars
  PROVE  WroteLast' /\ PresetIsWhole'
<1> DEFINE Goal == WroteLast' /\ PresetIsWhole'
<1>0. KeyCount \in Nat \ {0} BY DeviceClientsAssumption
<1>a. CASE wrote' = None BY <1>a DEF WroteLast, PresetIsWhole
<1>b. CASE wrote' = wrote /\ pending' = pending /\ keys' = keys /\ saved' = saved
  BY <1>b DEF WroteLast, PresetIsWhole
<1>1. ASSUME NEW u \in Users, Send(u) PROVE Goal
  <2> DEFINE c == Asked(u)[job[u].at]
  <2>1. CASE ~IsWrite(c)
    <3>1. c \in Commands BY <1>1, CommandRight DEF Send, Busy
    <3>2. /\ pending' = Append(pending, c) /\ wrote' = wrote /\ keys' = keys /\ saved' = saved
      BY <1>1, <2>1 DEF Send, Asked
    <3>3. \A i \in DOMAIN pending' :
            pending'[i] = c \/ (i \in DOMAIN pending /\ pending'[i] = pending[i])
      BY <3>1, <3>2, Appended
    <3>4. WroteLast' BY <2>1, <3>2, <3>3 DEF WroteLast
    <3> QED BY <3>2, <3>4 DEF PresetIsWhole
  <2>2. CASE IsWrite(c) BY <1>1, <1>a, <2>2 DEF Send, Asked
  <2> QED BY <2>1, <2>2
<1>2. ASSUME NEW u \in Users, Hear(u) PROVE Goal
  <2>1. pending' = pending /\ keys' = keys /\ saved' = saved BY <1>2 DEF Hear
  <2>2. CASE wrote' = wrote BY <1>b, <2>1, <2>2
  <2>3. CASE wrote' # wrote
    <3>1. pending = <<>> /\ wrote' = job[u].what /\ job[u].at = Len(Asked(u))
      BY <1>2, <2>3 DEF Hear, Asked
    <3>2. ASSUME job[u].what.do = "apply", NEW k \in Ks
          PROVE  keys[k] = job[u].what.value /\ saved[k] = job[u].what.value
      <4>1. Applying(u) /\ Sent(u) = job[u].at BY <1>2, <3>2, AwaitHolds DEF Hear, Applying
      <4>2. Sent(u) = KeyCount BY <3>1, <4>1, PresetSent
      <4>3. WillBe(k, job[u].what.value) BY <4>1, <4>2 DEF PresetsRight, Ks
      <4>4. DOMAIN pending = {} BY <3>1
      <4>5. keys[k] = job[u].what.value BY <4>3, <4>4 DEF WillBe
      <4> QED BY <3>1, <4>1, <4>2, <4>5 DEF PresetsRight
    <3>3. WroteLast' BY <2>1, <3>1 DEF WroteLast
    <3> QED BY <2>1, <3>1, <3>2, <3>3 DEF PresetIsWhole
  <2> QED BY <2>2, <2>3
<1>3. CASE Execute
  <2>1. pending # <<>> /\ pending' = Tail(pending) /\ wrote' = wrote BY <1>3 DEF Execute
  <2>2. CASE wrote # None
    <3>1. \A i \in DOMAIN pending' : i + 1 \in DOMAIN pending /\ pending'[i] = pending[i + 1]
      BY <2>1, Taken
    <3>2. WroteLast' BY <2>1, <2>2, <3>1 DEF WroteLast
    <3>3. ~IsWrite(pending[1]) BY <2>1, <2>2, Taken DEF WroteLast
    <3>4. \A k \in Ks : keys'[k] = keys[k] BY <1>3, <3>3, ExecuteKeys DEF Writes, IsWrite
    <3>5. saved' = saved
      BY <1>3, <3>3, ExecuteKeys DEF Execute, IsWrite, Commands, Fields
    <3> QED BY <2>1, <3>2, <3>4, <3>5 DEF PresetIsWhole
  <2>3. CASE wrote = None BY <1>a, <2>1, <2>3
  <2> QED BY <2>2, <2>3
<1>4. CASE PowerCycle
  <2>1. CASE wrote' = wrote
    <3>1. WroteLast' BY <1>4 DEF PowerCycle, WroteLast
    <3>2. PresetIsWhole' BY <1>4, <2>1 DEF PowerCycle, PresetIsWhole
    <3> QED BY <3>1, <3>2
  <2> QED BY <1>4, <1>a, <2>1 DEF PowerCycle
<1> QED BY <1>1, <1>2, <1>3, <1>4, <1>b
  DEF Next, vars, Request, Begin, Check, Enter, Command, Leave, Reject, TimeOut, Poll

-----------------------------------------------------------------------------
\* What is read.

LEMMA NextKeepsOne ==
  TypeOK /\ JobsRight /\ OneAtATime /\ [Next]_vars => OneAtATime'
<1> SUFFICES ASSUME TypeOK, JobsRight, OneAtATime, [Next]_vars, late' = 0
             PROVE  /\ (\A u \in Users : job'[u].pc # "await") => pending' = <<>> /\ replies' = <<>>
                    /\ \A u \in Users : job'[u].pc = "await" =>
                         \/ pending' = <<Asked(u)'[job'[u].at]>> /\ replies' = <<>>
                         \/ /\ pending' = <<>> /\ Len(replies') = 1
                            /\ Answers(replies[1], Asked(u)[job[u].at])'
  BY DEF OneAtATime
<1> DEFINE Quiet == \A u \in Users : job[u].pc # "await"
           Flight(u) == \/ pending = <<Asked(u)[job[u].at]>> /\ replies = <<>>
                        \/ /\ pending = <<>> /\ Len(replies) = 1
                           /\ Answers(replies[1], Asked(u)[job[u].at])
           Goal == /\ Quiet' => pending' = <<>> /\ replies' = <<>>
                   /\ \A u \in Users : job'[u].pc = "await" => Flight(u)'
<1> SUFFICES Goal BY Zenon
<1>0. late = 0 => /\ Quiet => pending = <<>> /\ replies = <<>>
                  /\ \A u \in Users : job[u].pc = "await" => Flight(u)
  BY DEF OneAtATime
<1>1. CASE /\ late = 0 /\ keys' = keys /\ pending' = pending /\ replies' = replies
           /\ \A u \in Users : (job'[u].pc = "await" \/ job[u].pc = "await") => job'[u] = job[u]
  <2>1. Quiet' => Quiet BY <1>1
  <2>2. ASSUME NEW u \in Users, job'[u].pc = "await" PROVE Flight(u)'
    BY <1>0, <1>1, <2>2 DEF Answers, Asked
  <2> QED BY <1>0, <1>1, <2>1, <2>2
<1>2. ASSUME NEW u \in Users, ~Busy(u), Request(u) \/ Command(u) PROVE Goal
  <2>1. PICK what \in Whats :
          job' = [job EXCEPT ![u] = [pc |-> "send", what |-> what, at |-> 1, got |-> <<>>]]
    BY <1>2, BeginsRight
  <2>2. \A w \in Users : (job'[w].pc = "await" \/ job[w].pc = "await") => job'[w] = job[w]
    BY <1>2, <2>1 DEF TypeOK, Busy
  <2> QED BY <1>1, <1>2, <2>2 DEF Request, Command
<1>3. ASSUME NEW u \in Users, Send(u) PROVE Goal
  <2>1. \A w \in Users \ {u} : job'[w] = job[w] /\ job[w].pc # "await"
    <3>1. \A w \in Users \ {u} : job'[w] = job[w] /\ hid # w
      BY <1>3, DeviceClientsAssumption DEF TypeOK, Send, Finish
    <3> QED BY <3>1, AwaitHolds
  <2>2. job[u].pc = "send" /\ job'[u] = [job[u] EXCEPT !.pc = "await"]
    BY <1>3 DEF TypeOK, Send, Finish
  <2>3. pending = <<>> /\ replies = <<>>
    <3>1. late = 0 BY <1>3 DEF Send
    <3> QED BY <1>0, <2>1, <2>2, <3>1
  <2>4. pending' = <<Asked(u)[job[u].at]>> /\ replies' = <<>>
    BY <1>3, <2>3 DEF Send, Asked
  <2>5. Asked(u)' = Asked(u) /\ job'[u].at = job[u].at /\ job'[u].pc = "await"
    BY <2>2 DEF TypeOK, Jobs, Asked
  <2> QED BY <2>1, <2>4, <2>5
<1>4. ASSUME NEW u \in Users, Hear(u) PROVE Goal
  <2>1. job[u].pc = "await" /\ replies # <<>> /\ replies' = Tail(replies) /\ pending' = pending
    BY <1>4 DEF Hear
  <2>2. \A w \in Users \ {u} : job[w].pc # "await" BY <2>1, AwaitHolds
  <2>3. late = 0 BY <1>4 DEF Hear
  <2>4. pending = <<>> /\ Len(replies) = 1 /\ Answers(replies[1], Asked(u)[job[u].at])
    BY <1>0, <2>1, <2>3
  <2>5. replies' = <<>> /\ Head(replies) = replies[1]
    <3>1. replies' \in Seq(Commands) /\ Len(replies') = 0
      BY <2>1, <2>4, HeadTailProperties DEF TypeOK
    <3> QED BY <2>1, <3>1, EmptySeq
  <2>6. \A w \in Users : job'[w].pc # "await"
    <3>1. job'[u].pc # "await" BY <1>4, <2>4, <2>5, HearsTyped DEF Answers, TypeOK
    <3>2. \A w \in Users \ {u} : job'[w] = job[w] BY <1>4, HearsTyped DEF TypeOK
    <3> QED BY <2>2, <3>1, <3>2
  <2> QED BY <2>1, <2>4, <2>5, <2>6
<1>5. CASE Poll
  <2>1. late = 0 /\ Quiet /\ replies # <<>> BY <1>5 DEF Poll
  <2> QED BY <1>0, <2>1
<1>6. CASE Execute
  <2> DEFINE c == pending[1]
  <2>1. pending # <<>> /\ c \in Commands /\ late = 0 /\ job' = job BY <1>6, ExecuteKeys DEF Execute
  <2>2. PICK u \in Users : job[u].pc = "await" BY <1>0, <2>1
  <2>3. \A w \in Users \ {u} : job'[w].pc # "await" BY <2>1, <2>2, AwaitHolds
  <2>4. pending = <<Asked(u)[job[u].at]>> /\ replies = <<>> BY <1>0, <2>1, <2>2
  <2>5. c = Asked(u)[job[u].at] /\ pending' = <<>> BY <1>6, <2>4 DEF Execute
  <2>6. replies' = <<IF c.cmd = "get" THEN [c EXCEPT !.value = keys[c.key]] ELSE c>>
    BY <1>6, <2>4, ExecuteKeys DEF Execute
  <2>7. c.cmd = "get" => keys' = keys BY <1>6, ExecuteKeys DEF Execute
  <2>8. Len(replies') = 1 /\ Answers(replies[1], Asked(u)[job[u].at])'
    <3>1. Asked(u)' = Asked(u) BY <2>1 DEF Asked
    <3> QED BY <2>1, <2>5, <2>6, <2>7, <3>1 DEF Answers, Commands, Fields
  <2> QED BY <2>1, <2>2, <2>3, <2>5, <2>8
<1>7. CASE PowerCycle
  <2>1. \A w \in Users : hid = w => job'[w].pc = "failed"
    BY <1>7 DEF TypeOK, Jobs, PowerCycle
  <2>2. \A w \in Users : hid # w => job'[w] = job[w] BY <1>7 DEF PowerCycle
  <2>3. \A w \in Users : job'[w].pc # "await" BY <2>1, <2>2, AwaitHolds
  <2> QED BY <1>7, <2>3 DEF PowerCycle
<1>8. ~ \E u \in Users : TimeOut(u) BY DEF TypeOK, TimeOut
<1>11. ASSUME NEW u \in Users, Reject(u) PROVE Goal
  <2>1. \A w \in Users : (job'[w].pc = "await" \/ job[w].pc = "await") => job'[w] = job[w]
    BY <1>11 DEF TypeOK, Jobs, Reject, Finish
  <2> QED BY <1>1, <1>11, <2>1 DEF Reject
<1>9. ASSUME NEW c \in Calls, Request(c) PROVE c \in Users /\ ~Busy(c)
  BY <1>9 DEF Users, Request, Busy
<1>10. ASSUME NEW a \in Apps, Command(a) PROVE a \in Users /\ ~Busy(a)
  BY <1>10 DEF Users, Command, Busy
<1> QED BY <1>1, <1>2, <1>3, <1>4, <1>5, <1>6, <1>7, <1>8, <1>9, <1>10, <1>11
  DEF Next, vars, Check, Enter, Leave

\* An answer a reader takes is about the key it asked for, and as the keys are.
LEMMA HearsTruth ==
  ASSUME TypeOK, JobsRight, OneAtATime, ReadsRight, NEW u \in Users, Hear(u), Reading(u),
         job'[u] # job[u], job'[u].pc # "failed"
  PROVE  LET got == job'[u].got IN
         /\ DOMAIN got = 1 .. job[u].at
         /\ \A i \in 1 .. job[u].at : Tells(got[i], Asked(u)[i].key)
<1> DEFINE r == Head(replies)
           c == Asked(u)[job[u].at]
<1>1. /\ job[u].pc = "await" /\ Busy(u) /\ job[u].what \in Whats
      /\ job[u].at \in Nat \ {0} /\ job[u].at <= Len(Asked(u))
      /\ Len(job[u].got) = job[u].at - 1
  BY AwaitHolds, CommandRight DEF Hear, JobsRight
<1>2. replies # <<>> /\ r \in Commands /\ r = replies[1]
  BY HeadTailProperties, LenProperties DEF Hear, TypeOK
<1>3. c.cmd = "get"
  BY <1>1, CommandsTyped DEF Reading, Asked
<1>4. r.cmd = c.cmd /\ Fits(r, c) /\ job'[u].got = Append(job[u].got, r)
  BY HearsTyped DEF TypeOK
<1>5. r.key = c.key \/ r.value \in Short BY <1>3, <1>4 DEF Fits
<1>6. late = 0 => r.key = c.key /\ r.value = keys[c.key]
  BY <1>1, <1>2, <1>3 DEF OneAtATime, Answers
<1>7. /\ DOMAIN job'[u].got = 1 .. job[u].at
      /\ \A i \in 1 .. (job[u].at - 1) : job'[u].got[i] = job[u].got[i]
      /\ job'[u].got[job[u].at] = r
  <2>1. job[u].got \in Seq(Commands) /\ job'[u].got \in Seq(Commands)
    BY <1>2, <1>4, AppendProperties DEF TypeOK, Jobs
  <2> QED BY <1>1, <1>2, <1>4, <2>1, AppendProperties, LenProperties
<1>8. ASSUME NEW i \in 1 .. job[u].at
      PROVE  Tells(job'[u].got[i], Asked(u)[i].key)
  <2>1. CASE i = job[u].at BY <1>5, <1>6, <1>7, <2>1 DEF Tells
  <2>2. CASE i # job[u].at
    <3>1. i \in 1 .. (job[u].at - 1) BY <1>1, <2>2
    <3> QED BY <1>7, <3>1 DEF ReadsRight
  <2> QED BY <2>1, <2>2
<1> QED BY <1>7, <1>8

LEMMA NextKeepsReads ==
  TypeOK /\ JobsRight /\ OneAtATime /\ ReadsRight /\ [Next]_vars => ReadsRight'
<1> SUFFICES ASSUME TypeOK, JobsRight, OneAtATime, ReadsRight, [Next]_vars,
                    NEW w \in Users, Reading(w)', NEW i \in 1 .. (job'[w].at - 1)
             PROVE  /\ job'[w].got[i].key = Asked(w)'[i].key \/ job'[w].got[i].value \in Short
                    /\ late' = 0 => /\ job'[w].got[i].key = Asked(w)'[i].key
                                    /\ job'[w].got[i].value = keys'[Asked(w)'[i].key]
  BY DEF ReadsRight, Tells
<1> DEFINE Goal == /\ job'[w].got[i].key = Asked(w)'[i].key \/ job'[w].got[i].value \in Short
                   /\ late' = 0 => /\ job'[w].got[i].key = Asked(w)'[i].key
                                   /\ job'[w].got[i].value = keys'[Asked(w)'[i].key]
<1>a. CASE /\ Reading(w) /\ job'[w].what = job[w].what /\ job'[w].at = job[w].at
           /\ job'[w].got = job[w].got /\ keys' = keys /\ late' \in {late, late + 1}
  <2>1. late' = 0 => late = 0 BY <1>a DEF TypeOK
  <2> QED BY <1>a, <2>1 DEF ReadsRight, Tells, Asked
<1>b. CASE job'[w].at = 1 BY <1>b
<1>1. ASSUME NEW u \in Users, ~Busy(u), Request(u) \/ Command(u) PROVE Goal
  <2>1. PICK what \in Whats :
          job' = [job EXCEPT ![u] = [pc |-> "send", what |-> what, at |-> 1, got |-> <<>>]]
    BY <1>1, BeginsRight
  <2>2. w = u => job'[w].at = 1 BY <2>1 DEF TypeOK
  <2>3. w # u => job'[w] = job[w] BY <2>1 DEF TypeOK
  <2> QED BY <1>1, <1>a, <1>b, <2>2, <2>3 DEF Request, Command, Reading, Busy
<1>2. ASSUME NEW u \in Users, Send(u) PROVE Goal
  <2>1. w = u => job'[w] = [job[w] EXCEPT !.pc = "await"] /\ job[w].pc = "send"
    BY <1>2 DEF TypeOK, Send, Finish
  <2>2. w # u => job'[w] = job[w] BY <1>2 DEF TypeOK, Send, Finish
  <2> QED BY <1>2, <1>a, <2>1, <2>2 DEF Send, TypeOK, Jobs, Reading, Busy
<1>3. ASSUME NEW u \in Users, Hear(u) PROVE Goal
  <2>1. keys' = keys /\ late' = late BY <1>3 DEF Hear
  <2>2. CASE job'[w] = job[w] BY <1>a, <2>1, <2>2 DEF Reading, Busy
  <2>3. CASE w = u /\ job'[w] # job[w]
    <3>1. job'[w].what = job[w].what /\ job'[w].pc = "send" /\ job'[w].at = job[w].at + 1
      BY <1>3, <2>3, HearsTyped DEF TypeOK, Reading, Busy
    <3>2. Reading(w) BY <1>3, <2>3, <3>1, AwaitHolds DEF Hear, Reading
    <3>3. job[w].at \in Nat BY <3>2, CommandRight DEF Reading
    <3>4. i \in 1 .. job[w].at BY <3>1, <3>3
    <3>5. Asked(w)' = Asked(w) BY <3>1 DEF Asked
    <3> QED BY <1>3, <2>1, <2>3, <3>1, <3>2, <3>4, <3>5, HearsTruth DEF Tells
  <2>4. w # u => job'[w] = job[w] BY <1>3, HearsTyped DEF TypeOK
  <2> QED BY <2>2, <2>3, <2>4
<1>4. ASSUME NEW u \in Users, TimeOut(u) \/ Reject(u) PROVE Goal
  <2>1. w = u => job'[w].pc = "failed" BY <1>4 DEF TypeOK, Jobs, TimeOut, Reject, Finish
  <2>2. job'[w] = job[w] BY <1>4, <2>1 DEF TypeOK, TimeOut, Reject, Finish, Reading, Busy
  <2> QED BY <1>4, <1>a, <2>2 DEF TimeOut, Reject, Reading, Busy
<1>5. CASE PowerCycle
  <2>1. hid = w => job'[w].pc = "failed" BY <1>5 DEF TypeOK, Jobs, PowerCycle
  <2>2. hid # w /\ job'[w] = job[w] BY <1>5, <2>1 DEF PowerCycle, Reading, Busy
  <2> QED BY <1>b, <2>2, NothingSent DEF Reading, Busy
<1>6. CASE Execute
  <2>1. job' = job /\ late' = late /\ pending # <<>> BY <1>6 DEF Execute
  <2>2. Reading(w) /\ Busy(w) BY <2>1 DEF Reading, Busy
  <2>3. CASE hid # w BY <1>b, <2>1, <2>2, <2>3, NothingSent
  <2>4. CASE late # 0 BY <2>1, <2>2, <2>4 DEF ReadsRight, Tells, Asked
  <2>5. CASE hid = w /\ late = 0
    <3>1. PICK u \in Users : job[u].pc = "await" BY <2>1, <2>5 DEF OneAtATime
    <3>2. u = w BY <2>5, <3>1, AwaitHolds
    <3>3. pending = <<Asked(w)[job[w].at]>> BY <2>1, <2>5, <3>1, <3>2 DEF OneAtATime
    <3>4. Asked(w)[job[w].at].cmd = "get"
      BY <2>2, CommandRight, CommandsTyped DEF Reading, Asked
    <3>5. keys' = keys BY <1>6, <3>3, <3>4 DEF Execute
    <3> QED BY <1>a, <2>1, <2>2, <3>5
  <2> QED BY <2>3, <2>4, <2>5
<1>7. CASE job' = job /\ keys' = keys /\ late' = late BY <1>a, <1>7 DEF Reading, Busy
<1>8. ASSUME NEW c \in Calls, Request(c) PROVE c \in Users /\ ~Busy(c)
  BY <1>8 DEF Users, Request, Busy
<1>9. ASSUME NEW a \in Apps, Command(a) PROVE a \in Users /\ ~Busy(a)
  BY <1>9 DEF Users, Command, Busy
<1> QED BY <1>1, <1>2, <1>3, <1>4, <1>5, <1>6, <1>7, <1>8, <1>9
  DEF Next, vars, Check, Enter, Leave, Poll

-----------------------------------------------------------------------------
\* The theorems.

LEMMA InitRight == Init => ClientsRight
<1> SUFFICES ASSUME Init PROVE ClientsRight OBVIOUS
<1>1. \A u \in Users : job[u].pc = "idle" BY DEF Init, NoJob
<1>2. wrote = None /\ pending = <<>> /\ replies = <<>> BY DEF Init
<1> QED BY <1>1, <1>2
  DEF ClientsRight, JobsRight, LastIsAwaited, PresetsRight, WroteLast, PresetIsWhole, OneAtATime,
      ReadsRight, Busy, Applying, Reading

LEMMA NextRight == TypeOK /\ ClientsRight /\ [Next]_vars => ClientsRight'
  BY NextKeepsJobs, NextKeepsLast, NextKeepsPresets, NextKeepsWhole, NextKeepsOne, NextKeepsReads
  DEF ClientsRight

LEMMA AlwaysRight == Spec => [](TypeOK /\ ClientsRight)
<1>1. TypeOK /\ ClientsRight /\ [Next]_vars => TypeOK' BY NextTyped DEF ClientsRight
<1> QED BY <1>1, InitTyped, InitRight, NextRight, PTL DEF Spec

\* A preset that was written is on the device and in its EEPROM as a whole
\* (apply_soft_key_preset, rpc.rs): commands of calls that gave up before it are ahead of
\* its own, and nobody else's come between.
THEOREM PresetsAreWhole == Spec => []PresetIsWhole
  BY AlwaysRight, PTL DEF ClientsRight

\* What a client reads is about the keys it asked for, but for late answers too short to
\* name one; and as long as no answer has come late it is what the keys are, all at once
\* (get_soft_key, hid/device.rs).
THEOREM ReadsAreAlwaysTrue == Spec => ReadsAreTrue
<1> DEFINE True == \A u \in Users :
      job[u].pc = "await" /\ job'[u].pc = "ok" /\ job[u].what.do \in {"read", "get"} =>
        \A i \in DOMAIN job'[u].got :
          LET heard == job'[u].got[i]
              asked == CommandsOf(job[u].what)[i].key
          IN /\ heard.key = asked \/ heard.value \in Short
             /\ late = 0 => heard.key = asked /\ heard.value = keys[asked]
<1>1. TypeOK /\ ClientsRight /\ [Next]_vars => [True]_vars
  <2> SUFFICES ASSUME TypeOK, ClientsRight, Next, NEW u \in Users,
                      job[u].pc = "await", job'[u].pc = "ok", job[u].what.do \in {"read", "get"}
               PROVE  \A i \in DOMAIN job'[u].got :
                        Tells(job'[u].got[i], CommandsOf(job[u].what)[i].key)
    BY DEF Tells
  <2>1. job'[u] # job[u] /\ Reading(u) BY DEF Reading, Busy
  <2>2. Hear(u)
    <3>1. ASSUME NEW w \in Users, ~Busy(w), Request(w) \/ Command(w) PROVE FALSE
      BY <3>1, BeginsRight DEF TypeOK
    <3>2. ASSUME NEW w \in Users, Send(w) \/ Reject(w) \/ TimeOut(w) PROVE FALSE
      BY <3>2 DEF TypeOK, Jobs, Send, Reject, TimeOut, Finish
    <3>3. ASSUME NEW w \in Users, Hear(w) PROVE w = u BY <2>1, <3>3, HearsTyped DEF TypeOK
    <3>4. ~PowerCycle BY <2>1 DEF TypeOK, Jobs, PowerCycle
    <3>5. ASSUME NEW c \in Calls, Request(c) PROVE c \in Users /\ ~Busy(c)
      BY <3>5 DEF Users, Request, Busy
    <3>6. ASSUME NEW a \in Apps, Command(a) PROVE a \in Users /\ ~Busy(a)
      BY <3>6 DEF Users, Command, Busy
    <3> QED BY <2>1, <3>1, <3>2, <3>3, <3>4, <3>5, <3>6
      DEF Next, Check, Enter, Leave, Poll, Execute
  <2> QED BY <2>1, <2>2, HearsTruth DEF ClientsRight, Asked
<1> QED BY <1>1, AlwaysRight, PTL DEF Spec, ReadsAreTrue
=============================================================================
