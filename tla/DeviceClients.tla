---------------------------- MODULE DeviceClients ----------------------------
(***************************************************************************)
(* The clients of the daemon that program the device's soft keys: the app, *)
(* which holds an exclusive lock while its WebSocket is up, and the REST   *)
(* calls of the settings page, which are refused meanwhile.  Both queue    *)
(* for the HID manager.  The device works off its commands in order, and   *)
(* may answer one only after the daemon has given up waiting.              *)
(***************************************************************************)
EXTENDS Integers, Sequences, FiniteSets

CONSTANTS
  Apps,       \* WebSocket clients
  Calls,      \* REST calls that may be under way together
  Presets,    \* what a preset assigns to its keys, one value for each preset
  Flaw,       \* per preset: the key it has something unstorable for, or 0
  KeyCount,   \* soft keys of the device
  MaxJobs,    \* bound: calls and commands of a run
  MaxLate,    \* bound: answers that come too late
  MaxCycles,  \* bound: times the device loses power
  Factory, Custom, Invalid,  \* assignments: the default, a user's, an unstorable one
  Short,      \* those the device answers with in under two bytes
  None

Users  == Apps \cup Calls
Values == Presets \cup {Factory, Custom}
Ks     == 1 .. KeyCount

ASSUME DeviceClientsAssumption ==
  /\ Apps \cap Calls = {} /\ None \notin Users /\ Invalid \notin Values
  /\ Flaw \in [Presets -> 0 .. KeyCount] /\ Short \subseteq {Factory}
  /\ KeyCount \in Nat \ {0} /\ {MaxJobs, MaxLate, MaxCycles} \subseteq Nat

VARIABLES
  client,        \* ws_client: the app whose events are forwarded
  app,           \* per app: "out", "checked" or "in"
  job,           \* per user: what it asks for and how far that is
  hid,           \* who holds the HID manager
  keys, saved,   \* the device's assignments, and those in its EEPROM
  pending,       \* commands on their way to the device
  replies,       \* answers on their way back
  wrote,         \* history: the write the device has just been seen to complete
  jobs, late, cycles

lockVars   == <<client, app>>
deviceVars == <<keys, saved, pending, replies>>
countVars  == <<jobs, late, cycles>>
vars == <<lockVars, job, hid, deviceVars, wrote, countVars>>

NoJob == [pc |-> "idle", what |-> None, at |-> 0, got |-> <<>>]

Init ==
  /\ client = None /\ app = [a \in Apps |-> "out"]
  /\ job = [u \in Users |-> NoJob] /\ hid = None
  /\ keys = [k \in Ks |-> Factory] /\ saved = keys
  /\ pending = <<>> /\ replies = <<>> /\ wrote = None
  /\ jobs = 0 /\ late = 0 /\ cycles = 0

-----------------------------------------------------------------------------
\* The commands, and the calls made of them

Set(k, v, save) == [cmd |-> "set", key |-> k, value |-> v, save |-> save]
Get(k)          == [cmd |-> "get", key |-> k, value |-> None, save |-> FALSE]
Reset           == [cmd |-> "reset", key |-> 0, value |-> Factory, save |-> TRUE]

\* A preset is written key by key, and saved with the last.
\* (Mutant: it is saved with the first.)
AppliedSavedFirst(p) == [k \in Ks |-> Set(k, p, k = 1)]
Applied(p) == [k \in Ks |-> Set(k, p, k = KeyCount)]

CommandsOf(what) ==
  CASE what.do = "apply" -> Applied(what.value)
    [] what.do = "put"   -> <<Set(what.key, what.value, what.save)>>
    [] what.do = "read"  -> [k \in Ks |-> Get(k)]
    [] what.do = "get"   -> <<Get(what.key)>>
    [] what.do = "reset" -> <<Reset>>

\* validate_soft_key: what the firmware cannot store is not sent, be it a single key or
\* one in the middle of a preset.
Storable(what) == what.do # "put" \/ what.value # Invalid
Sendable(what, at) == what.do = "apply" => Flaw[what.value] # at

Put(do, k, v, save) == [do |-> do, key |-> k, value |-> v, save |-> save]
PutWhats  == {Put("put", 1, v, save) : v \in {Custom, Invalid}, save \in BOOLEAN}
ResetWhat == Put("reset", 0, None, TRUE)
RestWhats == {Put("apply", 0, p, TRUE) : p \in Presets} \cup PutWhats
             \cup {ResetWhat, Put("read", 0, None, FALSE)}
AppWhats  == PutWhats \cup {ResetWhat} \cup {Put("get", k, None, FALSE) : k \in Ks}

Begin(u, what) ==
  /\ jobs < MaxJobs /\ jobs' = jobs + 1
  /\ job' = [job EXCEPT ![u] = [pc |-> "send", what |-> what, at |-> 1, got |-> <<>>]]

-----------------------------------------------------------------------------
\* The lock

\* A REST call is refused while an app has the lock; admitted, it is not asked again.
Request(c) ==
  /\ job[c].pc \notin {"send", "await"} /\ client = None
  /\ \E what \in {w \in RestWhats : Storable(w)} : Begin(c, what)
  /\ UNCHANGED <<lockVars, hid, deviceVars, wrote, late, cycles>>

\* An app finds the lock free...
Check(a) ==
  /\ app[a] = "out" /\ client = None
  /\ app' = [app EXCEPT ![a] = "checked"]
  /\ UNCHANGED <<client, job, hid, deviceVars, wrote, countVars>>

\* ...and takes it once its connection is upgraded, without looking again.
Enter(a) ==
  /\ app[a] = "checked"
  /\ app' = [app EXCEPT ![a] = "in"] /\ client' = a
  /\ UNCHANGED <<job, hid, deviceVars, wrote, countVars>>

\* handle_ws_command: one command at a time.
Command(a) ==
  /\ app[a] = "in" /\ job[a].pc \notin {"send", "await"}
  /\ \E what \in {w \in AppWhats : Storable(w)} : Begin(a, what)
  /\ UNCHANGED <<lockVars, hid, deviceVars, wrote, late, cycles>>

\* When its connection ends the lock is open to all, even if another app came in
\* after it.
Leave(a) ==
  /\ app[a] = "in" /\ job[a].pc \notin {"send", "await"}
  /\ app' = [app EXCEPT ![a] = "out"] /\ client' = None
  /\ UNCHANGED <<job, hid, deviceVars, wrote, countVars>>

-----------------------------------------------------------------------------
\* A job: command by command, under the lock of the HID manager

\* The lock is kept until the job is done.
\* (Mutant: it is given back after each command.)
HeldPerKey(u, done) == None
Held(u, done) == IF done THEN None ELSE u

Finish(u, pc) == job' = [job EXCEPT ![u].pc = pc]
IsWrite(command) == command.cmd \in {"set", "reset"}

Send(u) ==
  LET command == CommandsOf(job[u].what)[job[u].at]
  IN /\ job[u].pc = "send" /\ hid \in {None, u} /\ Sendable(job[u].what, job[u].at)
     /\ hid' = u /\ Finish(u, "await")
     /\ pending' = Append(pending, command)
     /\ wrote' = IF IsWrite(command) THEN None ELSE wrote
     /\ UNCHANGED <<lockVars, keys, saved, replies, countVars>>

\* A preset ends at the key that is not sent: those before it are written.
Reject(u) ==
  /\ job[u].pc = "send" /\ hid \in {None, u} /\ ~Sendable(job[u].what, job[u].at)
  /\ Finish(u, "failed") /\ hid' = None
  /\ UNCHANGED <<lockVars, deviceVars, wrote, countVars>>

\* read_response takes the next answer to a command of this kind; get_soft_key
\* takes it only for the key it asked for, unless it is too short to name one.
\* (Mutant: whatever key it is for.)
FitsAny(r, command) == TRUE
Fits(r, command) == command.cmd = "get" => r.value \in Short \/ r.key = command.key

\* An answer is heard: of another kind, it is passed over.
Hear(u) ==
  LET cs == CommandsOf(job[u].what)
      r  == Head(replies)
      ok == Fits(r, cs[job[u].at])
      done == ~ok \/ job[u].at = Len(cs)
  IN /\ job[u].pc = "await" /\ replies # <<>>
     /\ replies' = Tail(replies)
     /\ IF r.cmd # cs[job[u].at].cmd THEN UNCHANGED <<job, hid, wrote>>
        ELSE /\ job' = [job EXCEPT ![u] =
                  [pc  |-> IF ~ok THEN "failed" ELSE IF done THEN "ok" ELSE "send",
                   at  |-> IF done THEN @.at ELSE @.at + 1, what |-> @.what,
                   got |-> Append(@.got, r)]]
             /\ hid' = Held(u, done)
             /\ wrote' = IF done /\ ok /\ IsWrite(r) /\ pending = <<>> THEN job[u].what ELSE wrote
     /\ UNCHANGED <<lockVars, keys, saved, pending, countVars>>

\* No answer in time: the call fails, and leaves the rest of its keys as they are.
TimeOut(u) ==
  /\ job[u].pc = "await" /\ replies = <<>>
  /\ pending # <<>> /\ late < MaxLate
  /\ late' = late + 1
  /\ Finish(u, "failed") /\ hid' = None
  /\ UNCHANGED <<lockVars, deviceVars, wrote, jobs, cycles>>

\* Between commands the reader thread takes what comes, and drops answers.
Poll ==
  /\ \A u \in Users : job[u].pc # "await"
  /\ replies # <<>> /\ replies' = Tail(replies)
  /\ UNCHANGED <<lockVars, job, hid, keys, saved, pending, wrote, countVars>>

-----------------------------------------------------------------------------
\* The device: a save keeps all the assignments there are.
Execute ==
  LET c   == Head(pending)
      new == CASE c.cmd = "set"   -> [keys EXCEPT ![c.key] = c.value]
               [] c.cmd = "get"   -> keys
               [] c.cmd = "reset" -> [k \in Ks |-> Factory]
  IN /\ pending # <<>>
     /\ pending' = Tail(pending) /\ keys' = new
     /\ saved' = IF c.save THEN new ELSE saved
     /\ replies' = Append(replies, IF c.cmd = "get" THEN [c EXCEPT !.value = keys[c.key]] ELSE c)
     /\ UNCHANGED <<lockVars, job, hid, wrote, countVars>>

\* It loses power: what is under way is lost, and what was not saved.  A job in
\* progress fails with it, for nobody opens the device again before it lets go.
PowerCycle ==
  /\ cycles < MaxCycles /\ cycles' = cycles + 1
  /\ keys' = saved /\ pending' = <<>> /\ replies' = <<>>
  /\ job' = [u \in Users |-> IF hid = u THEN [job[u] EXCEPT !.pc = "failed"] ELSE job[u]]
  /\ hid' = None
  /\ wrote' = IF wrote # None /\ wrote.save THEN wrote ELSE None
  /\ UNCHANGED <<lockVars, saved, jobs, late>>

Next ==
  \/ \E c \in Calls : Request(c)
  \/ \E a \in Apps : Check(a) \/ Enter(a) \/ Command(a) \/ Leave(a)
  \/ \E u \in Users : Send(u) \/ Reject(u) \/ Hear(u) \/ TimeOut(u)
  \/ Poll \/ Execute \/ PowerCycle

Spec == Init /\ [][Next]_vars

-----------------------------------------------------------------------------
\* A preset that was applied is on the device as a whole, and stays there when it
\* loses power: no other client's keys come between, whatever late answers the
\* call took for its own, as long as the device had nothing left to do.
PresetIsWhole ==
  wrote # None /\ wrote.do = "apply" =>
    \A k \in Ks : keys[k] = wrote.value /\ saved[k] = wrote.value

\* What a client reads is about the key it asked for, even when an answer came
\* late before: at worst it is told of the default, by a late answer too short to
\* name its key.  Without late answers the keys it reads are the keys as they are
\* together, in the middle of nobody's preset.
ReadsAreTrue ==
  [][\A u \in Users :
       job[u].pc = "await" /\ job'[u].pc = "ok" /\ job[u].what.do \in {"read", "get"} =>
         \A i \in DOMAIN job'[u].got :
           LET heard == job'[u].got[i]
               asked == CommandsOf(job[u].what)[i].key
           IN /\ heard.key = asked \/ heard.value \in Short
              /\ late = 0 => heard.key = asked /\ heard.value = keys[asked]]_vars
=============================================================================
