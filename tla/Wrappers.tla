------------------------------ MODULE Wrappers ------------------------------
(***************************************************************************)
(* The wrapper registry and its clients: coredeck-claude processes that    *)
(* connect, lose the connection and come back, a daemon that restarts with *)
(* empty tables, SessionStart hooks that bind a Claude session to a        *)
(* wrapper, and the focus reports, knob turns and double taps by which     *)
(* the active session changes.                                             *)
(***************************************************************************)
EXTENDS Integers, Sequences, FiniteSets, SequencesExt, Deque

CONSTANTS
  Wrappers,    \* the wrapper ids, in the order of their start times
  MaxStarts,   \* bound: Claude sessions of a run
  MaxConns,    \* bound: connections of one wrapper
  MaxMoves,    \* bound: focus reports, knob turns and double taps of a run
  MaxCrashes,  \* bound: restarts of the daemon
  RecentMax,   \* RECENT_SESSIONS_MAX
  None

ASSUME WrappersAssumption ==
  /\ IsFiniteSet(Wrappers) /\ Wrappers \subseteq Nat
  /\ None \notin Nat /\ None \notin Nat \X Nat
  /\ MaxStarts \in Nat /\ MaxMoves \in Nat /\ MaxCrashes \in Nat
  /\ MaxConns \in Nat /\ RecentMax \in Nat /\ RecentMax >= 2

Conns == Wrappers \X (1 .. MaxConns)   \* a wrapper's connections, oldest first
Sessions == Wrappers \X (1 .. MaxStarts)
Knob == <<0, 0>>                     \* the event loop
Setters == Conns \cup {Knob}         \* who calls set_active_wrapper
Absent == [conn |-> 0, session |-> None]

VARIABLES
  entry,     \* the registry: state.wrappers
  active,    \* active_session_id
  recent,    \* recent_sessions
  phase,     \* per connection: its task in the daemon
  job,       \* per setter: where it is in changing the active session
  up, down,  \* per connection: frames on their way to the daemon, to the wrapper
  link,      \* per wrapper: the number of its connection, 0 without one
  cache,     \* per wrapper: the session id it echoes in Register
  unsent,    \* per wrapper: focus reports waiting for the connection
  runs,      \* per wrapper: the session its Claude runs
  start,     \* per wrapper: the SessionStart call of that session
  crashes,   \* restarts so far
  moves      \* focus reports, turns and taps so far

registryVars == <<entry, active, recent, phase, job>>
wireVars     == <<up, down>>
clientVars   == <<link, cache, unsent>>
claudeVars   == <<runs, start>>
vars == <<registryVars, wireVars, clientVars, claudeVars, crashes, moves>>

Idle == [pc |-> "idle", to |-> None]
Conn(w) == <<w, link[w]>>
Opened(w) == {n \in 1 .. MaxConns : phase[<<w, n>>] # "unused"}
CanReopen(w) == Cardinality(Opened(w)) < MaxConns

Init ==
  /\ entry = [w \in Wrappers |-> Absent] /\ active = None /\ recent = EmptyDeque
  /\ phase = [c \in Conns |-> "unused"] /\ job = [j \in Setters |-> Idle]
  /\ up = [c \in Conns |-> <<>>] /\ down = [c \in Conns |-> <<>>]
  /\ link = [w \in Wrappers |-> 0] /\ cache = [w \in Wrappers |-> None]
  /\ unsent = [w \in Wrappers |-> <<>>]
  /\ runs = [w \in Wrappers |-> None] /\ start = [w \in Wrappers |-> "none"]
  /\ crashes = 0 /\ moves = 0

-----------------------------------------------------------------------------
\* The wrapper process

Register(w) == [what |-> "register", session |-> cache[w]]
Focus(in)   == [what |-> IF in THEN "focus" ELSE "blur", session |-> None]

\* A wrapper without a connection opens one, says who it is and what session it
\* was last told of, and sends the last of the focus reports that piled up.  The
\* backoff of a second or more lets the daemon read an earlier Register first.
Connect(w) ==
  LET n == Cardinality(Opened(w)) + 1
      c == <<w, n>>
  IN /\ link[w] = 0 /\ CanReopen(w)
     /\ \A m \in Opened(w) : phase[<<w, m>>] # "new"
     /\ link' = [link EXCEPT ![w] = n]
     /\ phase' = [phase EXCEPT ![c] = "new"]
     /\ up' = [up EXCEPT ![c] = <<Register(w)>> \o (IF unsent[w] = <<>> THEN <<>>
                                                    ELSE <<Focus(Last(unsent[w]))>>)]
     /\ unsent' = [unsent EXCEPT ![w] = <<>>]
     /\ UNCHANGED <<entry, active, recent, job, down, cache, claudeVars, crashes, moves>>

Move == moves < MaxMoves /\ moves' = moves + 1

\* The terminal gains or loses focus.
Report(w) ==
  /\ Move
  /\ \E in \in BOOLEAN : unsent' = [unsent EXCEPT ![w] = Append(@, in)]
  /\ UNCHANGED <<registryVars, wireVars, link, cache, claudeVars, crashes>>

\* A connected wrapper sends its reports one by one.
Send(w) ==
  /\ link[w] # 0 /\ unsent[w] # <<>>
  /\ up' = [up EXCEPT ![Conn(w)] = Append(@, Focus(Head(unsent[w])))]
  /\ unsent' = [unsent EXCEPT ![w] = Tail(@)]
  /\ UNCHANGED <<registryVars, down, link, cache, claudeVars, crashes, moves>>

\* It keeps the session id of each SessionBound for its next Register.
Receive(w) ==
  /\ link[w] # 0 /\ down[Conn(w)] # <<>>
  /\ cache' = [cache EXCEPT ![w] = Head(down[Conn(w)])]
  /\ down' = [down EXCEPT ![Conn(w)] = Tail(@)]
  /\ UNCHANGED <<registryVars, up, link, unsent, claudeVars, crashes, moves>>

\* The connection breaks: frames not yet read may be lost, those for the wrapper are.
Drop(w) ==
  /\ link[w] # 0
  /\ CanReopen(w)
  /\ \E n \in 0 .. Len(up[Conn(w)]) : up' = [up EXCEPT ![Conn(w)] = SubSeq(@, 1, n)]
  /\ down' = [down EXCEPT ![Conn(w)] = <<>>]
  /\ link' = [link EXCEPT ![w] = 0]
  /\ UNCHANGED <<registryVars, cache, unsent, claudeVars, crashes, moves>>

-----------------------------------------------------------------------------
\* The active session

\* set_active_session: the newest first, without repetition, capped.
Recalled(seen, s) ==
  LET all     == PushFront(Without(seen, {s}), s)
      dropped == {t \in all.in : Cardinality({u \in all.in : <<u, t>> \in all.ahead}) >= RecentMax}
  IN Without(all, dropped)

SetActive(s) == active' = s /\ recent' = Recalled(recent, s)

Bound(s) == {w \in Wrappers : entry[w].session = s /\ entry[w].conn # 0}

\* previous_session: the most recent other session that still has a wrapper.
PreviousOf(now, seen) ==
  LET live == Without(seen, {t \in seen.in : t = now \/ Bound(t) = {}})
  IN IF live.in = {} THEN None ELSE CHOOSE t \in live.in : IsFront(live, t)

\* set_active_wrapper: a wrapper without a session changes nothing.
\* (Mutant: what is found is made active, whatever it is.)
FoundAnything(s) == [pc |-> "set", to |-> s]
Found(s) == IF s = None THEN Idle ELSE [pc |-> "set", to |-> s]

\* The session is looked up under one lock...
LookUp(j) ==
  LET w == job[j].to
  IN /\ job[j].pc = "look"
     /\ job' = [job EXCEPT ![j] = Found(entry[w].session)]
     /\ UNCHANGED <<entry, active, recent, phase, wireVars, clientVars, claudeVars, crashes, moves>>

\* ...and made the active one under another.
Promote(j) ==
  /\ job[j].pc = "set"
  /\ SetActive(job[j].to)
  /\ job' = [job EXCEPT ![j] = Idle]
  /\ UNCHANGED <<entry, phase, wireVars, clientVars, claudeVars, crashes, moves>>

\* cycle_active: of the wrappers with a session, in tab order, the one next to the
\* active one; past the end it goes on at the other.  Which one is active, and where
\* that stands, is read under later locks than the list, and so may no longer be in it.
\* (Mutant: the knob stops at the ends of the tab list.)
Cands == {w \in Wrappers : entry[w].session # None}
Position(cands, s) == {w \in cands : s # None /\ entry[w].session = s}
Beyond(cands, at, step) ==
  {w \in cands : at = {} \/ (IF step > 0 THEN w > Min(at) ELSE w < Min(at))}
EndMost(cands, step) == IF step > 0 THEN Min(cands) ELSE Max(cands)

NeighbourNoWrap(cands, s, step) ==
  LET next == Beyond(cands, Position(cands, s), step)
  IN IF next = {} THEN EndMost(cands, -step) ELSE EndMost(next, step)
Neighbour(cands, s, step) ==
  LET next == Beyond(cands, Position(cands, s), step)
  IN EndMost(IF next = {} THEN cands ELSE next, step)

Turn(step) ==
  /\ Move /\ job[Knob].pc = "idle" /\ Cardinality(Cands) >= 2
  /\ job' = [job EXCEPT ![Knob] = [pc |-> "turn", to |-> [cands |-> Cands, step |-> step]]]
  /\ UNCHANGED <<entry, active, recent, phase, wireVars, clientVars, claudeVars, crashes>>

FromActive ==
  /\ job[Knob].pc = "turn"
  /\ job' = [job EXCEPT ![Knob] = [pc |-> "from", to |-> [cands |-> @.to.cands,
                                                        step |-> @.to.step, from |-> active]]]
  /\ UNCHANGED <<entry, active, recent, phase, wireVars, clientVars, claudeVars, crashes, moves>>

Choose ==
  /\ job[Knob].pc = "from"
  /\ job' = [job EXCEPT ![Knob] = [pc |-> "look",
                                to |-> Neighbour(@.to.cands, @.to.from, @.to.step)]]
  /\ UNCHANGED <<entry, active, recent, phase, wireVars, clientVars, claudeVars, crashes, moves>>

\* swap_to_previous_session, then set_active_for_session.
Swap ==
  LET s == PreviousOf(active, recent)
  IN /\ Move /\ job[Knob].pc = "idle" /\ s # None
     /\ job' = [job EXCEPT ![Knob] = [pc |-> "find", to |-> s]]
     /\ UNCHANGED <<entry, active, recent, phase, wireVars, clientVars, claudeVars, crashes>>

Find ==
  /\ job[Knob].pc = "find"
  /\ \/ \E w \in Bound(job[Knob].to) : job' = [job EXCEPT ![Knob] = [pc |-> "look", to |-> w]]
     \/ Bound(job[Knob].to) = {} /\ job' = [job EXCEPT ![Knob] = Idle]
  /\ UNCHANGED <<entry, active, recent, phase, wireVars, clientVars, claudeVars, crashes, moves>>

-----------------------------------------------------------------------------
\* The connection's task in the daemon

\* The first frame registers: what is bound already stays, else what the wrapper
\* remembers is adopted.
\* (Mutants: the remembered session is ignored; it is taken in any case.)
AdoptedNothing(c, w) == entry[w].session
AdoptedAlways(c, w) == Head(up[c]).session
Adopted(c, w) ==
  IF entry[w].session # None THEN entry[w].session ELSE Head(up[c]).session

Accept(c) ==
  LET w == c[1]
  IN /\ phase[c] = "new" /\ up[c] # <<>>
     /\ entry' = [entry EXCEPT ![w] = [conn |-> c[2], session |-> Adopted(c, w)]]
     /\ phase' = [phase EXCEPT ![c] = "open"]
     /\ up' = [up EXCEPT ![c] = Tail(@)]
     /\ UNCHANGED <<active, recent, job, down, clientVars, claudeVars, crashes, moves>>

\* A focus report makes the wrapper of this id active, whichever connection the
\* entry belongs to by now.
Read(c) ==
  /\ phase[c] = "open" /\ job[c].pc = "idle" /\ up[c] # <<>>
  /\ up' = [up EXCEPT ![c] = Tail(@)]
  /\ job' = [job EXCEPT ![c] = IF Head(up[c]).what = "focus"
                               THEN [pc |-> "look", to |-> c[1]] ELSE Idle]
  /\ UNCHANGED <<entry, active, recent, phase, down, clientVars, claudeVars, crashes, moves>>

\* The connection is at its end: the entry goes with it, if it is still its own.
\* (Mutant: the entry is taken for its own.)
OursByWrapper(c) == entry[c[1]].conn # 0
Ours(c) == entry[c[1]].conn = c[2]

Close(c) ==
  /\ phase[c] \in {"new", "open"} /\ up[c] = <<>> /\ job[c].pc = "idle"
  /\ Conn(c[1]) # c
  /\ entry' = IF Ours(c) THEN [entry EXCEPT ![c[1]] = Absent] ELSE entry
  /\ phase' = [phase EXCEPT ![c] = "gone"]
  /\ UNCHANGED <<active, recent, job, wireVars, clientVars, claudeVars, crashes, moves>>

-----------------------------------------------------------------------------
\* Claude's hooks

\* A session ends and another begins: /clear, /compact, a new prompt loop.
\* (Mutant: the session leaves the recent ones but stays active.)
EndedStaysActive(s) == active' = active /\ recent' = Without(recent, {s})
EndedAndPruned(s) ==
  /\ active' = IF active = s THEN None ELSE active
  /\ recent' = Without(recent, {s})

Started(s) == runs[s[1]] # None /\ s[2] <= runs[s[1]][2]

NewSession(w) ==
  LET n == IF runs[w] = None THEN 1 ELSE runs[w][2] + 1
  IN /\ Cardinality({s \in Sessions : Started(s)}) < MaxStarts /\ start[w] \notin {"sent", "bound"}
     /\ runs' = [runs EXCEPT ![w] = <<w, n>>]
     /\ start' = [start EXCEPT ![w] = "sent"]
     /\ EndedAndPruned(runs[w])
     /\ UNCHANGED <<entry, phase, job, wireVars, clientVars, crashes, moves>>

\* SessionStart binds the session to the wrapper's entry and tells the wrapper;
\* without an entry the call fails, and nobody repeats it.
RegisterSession(w) ==
  /\ start[w] = "sent"
  /\ IF entry[w].conn = 0
     THEN start' = [start EXCEPT ![w] = "lost"] /\ UNCHANGED <<entry, down>>
     ELSE /\ entry' = [entry EXCEPT ![w].session = runs[w]]
          /\ down' = IF link[w] = entry[w].conn
                     THEN [down EXCEPT ![Conn(w)] = Append(@, runs[w])] ELSE down
          /\ start' = [start EXCEPT ![w] = "bound"]
  /\ UNCHANGED <<active, recent, phase, job, up, clientVars, runs, crashes, moves>>

\* The new session becomes the active one.
StartPromotes(w) ==
  /\ start[w] = "bound"
  /\ SetActive(runs[w])
  /\ start' = [start EXCEPT ![w] = "answered"]
  /\ UNCHANGED <<entry, phase, job, wireVars, clientVars, runs, crashes, moves>>

\* The daemon restarts: its tables are empty, every connection is broken.
Restart ==
  /\ crashes < MaxCrashes /\ \A w \in Wrappers : CanReopen(w)
  /\ crashes' = crashes + 1
  /\ entry' = [w \in Wrappers |-> Absent] /\ active' = None /\ recent' = EmptyDeque
  /\ phase' = [c \in Conns |-> IF phase[c] = "unused" THEN "unused" ELSE "gone"]
  /\ job' = [j \in Setters |-> Idle]
  /\ up' = [c \in Conns |-> <<>>] /\ down' = [c \in Conns |-> <<>>]
  /\ link' = [w \in Wrappers |-> 0]
  /\ start' = [w \in Wrappers |-> IF start[w] \in {"sent", "bound"} THEN "lost" ELSE start[w]]
  /\ UNCHANGED <<cache, unsent, runs, moves>>

-----------------------------------------------------------------------------
Client(w) == Connect(w) \/ Send(w) \/ Receive(w)
Task(c)   == Accept(c) \/ Read(c) \/ LookUp(c) \/ Promote(c) \/ Close(c)
Hook(w)   == RegisterSession(w) \/ StartPromotes(w)
Loop      == FromActive \/ Choose \/ Find \/ LookUp(Knob) \/ Promote(Knob)

Next ==
  \/ \E w \in Wrappers : Client(w) \/ Report(w) \/ Drop(w) \/ NewSession(w) \/ Hook(w)
  \/ \E c \in Conns : Task(c)
  \/ \E step \in {1, -1} : Turn(step)
  \/ Swap \/ Loop \/ Restart

Spec == Init /\ [][Next]_vars

\* A wrapper never stops retrying, and the runtime runs every task that can go on.
FairSpec ==
  /\ Spec
  /\ \A w \in Wrappers : WF_vars(Connect(w)) /\ WF_vars(Hook(w))
  /\ \A c \in Conns : WF_vars(Task(c))

-----------------------------------------------------------------------------
\* Types: every entry and job names things that exist, and the recent sessions are
\* within their cap.
Jobs == {Idle} \cup [pc : {"set", "find"}, to : Sessions] \cup [pc : {"look"}, to : Wrappers]
        \cup [pc : {"turn"}, to : [cands : (SUBSET Wrappers) \ {{}}, step : {1, -1}]]
        \cup [pc : {"from"}, to : [cands : (SUBSET Wrappers) \ {{}}, step : {1, -1},
                                  from : Sessions \cup {None}]]

TypeOK ==
  /\ entry \in [Wrappers -> [conn : 0 .. MaxConns, session : Sessions \cup {None}]]
  /\ active \in Sessions \cup {None}
  /\ IsDeque(recent) /\ recent.in \subseteq Sessions /\ Cardinality(recent.in) <= RecentMax
  /\ phase \in [Conns -> {"unused", "new", "open", "gone"}]
  /\ job \in [Setters -> Jobs]
  /\ link \in [Wrappers -> 0 .. MaxConns]
  /\ cache \in [Wrappers -> Sessions \cup {None}]
  /\ unsent \in [Wrappers -> Seq(BOOLEAN)]
  /\ runs \in [Wrappers -> Sessions \cup {None}]
  /\ start \in [Wrappers -> {"none", "sent", "bound", "answered", "lost"}]
  /\ crashes \in 0 .. MaxCrashes /\ moves \in 0 .. MaxMoves

\* As long as the last connection a wrapper registered over is served, the
\* registry has the wrapper under that connection: the end of an older
\* connection never takes a live wrapper away.
NewestIsRegistered ==
  \A c \in Conns :
    phase[c] = "open" /\ (\A n \in Opened(c[1]) : n > c[2] => phase[<<c[1], n>>] = "new")
      => entry[c[1]].conn = c[2]

\* The active session heads the recent ones, so a double tap goes to the session
\* before, and a second one comes back.
SwapTogglesBack ==
  LET before == PreviousOf(active, recent)
  IN active # None =>
       /\ IsFront(recent, active)
       /\ before # None /\ Bound(active) # {} =>
            PreviousOf(before, Recalled(recent, before)) = active

\* Turned on and on in one direction, from wherever, the knob visits every wrapper
\* that has a session: no other set of them is closed under its turns.
KnobVisitsAll ==
  \A step \in {1, -1} :
    /\ Cands # {} => Neighbour(Cands, active, step) \in Cands
    /\ \A visited \in (SUBSET Cands) \ {{}} :
         (\A w \in visited : Neighbour(Cands, entry[w].session, step) \in visited)
           => visited = Cands

\* A registered wrapper that has been told of the session its Claude runs is
\* bound to it, through whatever flaps and restarts.
CacheRestoresBinding ==
  \A w \in Wrappers :
    cache[w] = runs[w] /\ runs[w] # None /\ entry[w].conn # 0 => entry[w].session = runs[w]

\* A reconnect never replaces the session Claude runs by an older one the
\* wrapper still remembers.
ReconnectKeepsSession ==
  [][\A w \in Wrappers :
       entry[w].session = runs[w] /\ runs'[w] = runs[w] /\ entry'[w].conn # 0
         => entry'[w].session = runs[w]]_vars

\* Once nothing breaks any more, every wrapper is back in the registry, under
\* the connection it has.
EveryWrapperReturns ==
  \A w \in Wrappers : <>[](link[w] # 0 /\ entry[w].conn = link[w])
=============================================================================
