--------------------------- MODULE WrappersProofs ---------------------------
(***************************************************************************)
(* The registry follows the newest connection of each wrapper, the binding *)
(* of a session survives flaps and restarts, a double tap comes back, and  *)
(* the knob goes round all wrappers, for any wrappers and any bounds.      *)
(***************************************************************************)
EXTENDS Wrappers, FiniteSetTheorems, SequenceTheorems, WellFoundedInduction, TLAPS

Frames == [what : {"register", "focus", "blur"}, session : (Nat \X Nat) \cup {None}]

\* The parts of the state the argument is about.
RegistryTypes ==
  /\ entry \in [Wrappers -> [conn : 0 .. MaxConns, session : (Nat \X Nat) \cup {None}]]
  /\ phase \in [Conns -> {"unused", "new", "open", "gone"}]
  /\ up \in [Conns -> Seq(Frames)] /\ down \in [Conns -> Seq(Nat \X Nat)]
  /\ link \in [Wrappers -> 0 .. MaxConns]
  /\ cache \in [Wrappers -> (Nat \X Nat) \cup {None}]
  /\ runs \in [Wrappers -> (Nat \X Nat) \cup {None}]

\* The sessions of a wrapper's Claude so far.
Past(w) == IF runs[w] = None THEN {} ELSE {<<w, m>> : m \in 1 .. runs[w][2]}

\* Connections are opened one after another; only the last may be unregistered.
OpenTo(w, k) ==
  /\ \A n \in 1 .. MaxConns : phase[<<w, n>>] # "unused" <=> n <= k
  /\ \A n \in 1 .. MaxConns : phase[<<w, n>>] = "new" => n = k
  /\ link[w] \in {0, k}

ConnsInOrder == \A w \in Wrappers : \E k \in 0 .. MaxConns : OpenTo(w, k)

\* What a connection not yet registered has sent begins with the Register, which
\* still says what the wrapper knows; and nothing was sent to it.
FirstOf(w, n) ==
  /\ phase[<<w, n>>] \in {"unused", "new"} => down[<<w, n>>] = <<>>
  /\ phase[<<w, n>>] = "new" =>
       /\ up[<<w, n>>] # <<>> => Head(up[<<w, n>>]).session = cache[w]
       /\ link[w] = n => up[<<w, n>>] # <<>>

RegisterComesFirst == \A w \in Wrappers, n \in 1 .. MaxConns : FirstOf(w, n)

\* A wrapper hears of no session but its own, and of none before it began.
OnlyPast ==
  \A w \in Wrappers :
    /\ runs[w] \in Past(w) \cup {None}
    /\ cache[w] \in Past(w) \cup {None}
    /\ \A n \in 1 .. MaxConns :
         \A i \in DOMAIN down[<<w, n>>] : down[<<w, n>>][i] \in Past(w)

\* A SessionStart call that waits is about the session Claude runs.
StartHasSession ==
  /\ start \in [Wrappers -> {"none", "sent", "bound", "answered", "lost"}]
  /\ \A w \in Wrappers : start[w] = "sent" => runs[w] # None

\* An entry belongs to a connection that is served.
Live(w) ==
  IF entry[w].conn = 0 THEN entry[w].session = None
  ELSE phase[<<w, entry[w].conn>>] = "open"

EntriesAreLive == \A w \in Wrappers : Live(w)

\* A session that is being told is bound.
Told(w) ==
  link[w] # 0 /\ entry[w].conn # 0
  /\ (\E i \in DOMAIN down[Conn(w)] : down[Conn(w)][i] = runs[w])
    => entry[w].session = runs[w]

ToldIsBound == \A w \in Wrappers : Told(w)

RegistryInv ==
  /\ RegistryTypes /\ ConnsInOrder /\ RegisterComesFirst
  /\ OnlyPast /\ StartHasSession /\ EntriesAreLive /\ ToldIsBound
  /\ NewestIsRegistered /\ CacheRestoresBinding

-----------------------------------------------------------------------------
\* The number of the last connection is the number of connections opened.
LEMMA OpenedAreNumbered ==
  ASSUME NEW w \in Wrappers, NEW k \in 0 .. MaxConns, OpenTo(w, k)
  PROVE  Opened(w) = 1 .. k /\ Cardinality(Opened(w)) = k
<1>1. MaxConns \in Nat BY WrappersAssumption
<1>2. Opened(w) = 1 .. k BY <1>1 DEF Opened, OpenTo
<1>3. Cardinality(1 .. k) = k BY <1>1, FS_Interval
<1> QED BY <1>2, <1>3

\* What is sent first stays first.
LEMMA FirstStays ==
  ASSUME NEW S, NEW s \in Seq(S), s # <<>>, NEW t \in Seq(S)
  PROVE  s \o t \in Seq(S) /\ s \o t # <<>> /\ Head(s \o t) = Head(s)
<1>1. Len(s) \in Nat /\ Len(s) >= 1 /\ Len(t) \in Nat OBVIOUS
<1>2. Len(s \o t) >= 1 /\ (s \o t)[1] = s[1] /\ s \o t \in Seq(S) BY <1>1, ConcatProperties
<1> QED BY <1>1, <1>2

\* The daemon starts without wrappers, and no wrapper has connected.
LEMMA RegistryStarts == Init => RegistryInv
<1> SUFFICES ASSUME Init PROVE RegistryInv OBVIOUS
<1>0. /\ MaxConns \in Nat /\ Wrappers \subseteq Nat
      BY WrappersAssumption
<1>1. RegistryTypes BY <1>0 DEF Init, RegistryTypes, Absent
<1>2. ConnsInOrder
  <2> SUFFICES ASSUME NEW w \in Wrappers PROVE OpenTo(w, 0) BY <1>0 DEF ConnsInOrder
  <2> QED BY <1>0 DEF Init, OpenTo, Conns
<1>3. RegisterComesFirst /\ OnlyPast BY DEF Init, RegisterComesFirst, FirstOf, OnlyPast, Conns
<1>4. ToldIsBound /\ CacheRestoresBinding /\ EntriesAreLive /\ StartHasSession
  BY DEF Init, ToldIsBound, Told, CacheRestoresBinding, Absent, EntriesAreLive, Live,
         StartHasSession
<1>5. NewestIsRegistered BY DEF Init, NewestIsRegistered
<1> QED BY <1>1, <1>2, <1>3, <1>4, <1>5 DEF RegistryInv

\* What the argument is about.
registry == <<entry, phase, up, down, link, cache, runs>>

\* Steps that only change which session is active keep the invariant.
LEMMA ActiveIsApart ==
  ASSUME RegistryInv, UNCHANGED registry, StartHasSession'
  PROVE  RegistryInv'
<1> USE DEF RegistryInv, registry
<1>1. RegistryTypes' BY DEF RegistryTypes
<1>2. ConnsInOrder' BY DEF ConnsInOrder, OpenTo
<1>3. RegisterComesFirst' BY DEF RegisterComesFirst, FirstOf
<1>4. OnlyPast' BY DEF OnlyPast, Past
<1>5. ToldIsBound' BY DEF ToldIsBound, Told, Conn
<1>6. NewestIsRegistered' BY DEF NewestIsRegistered, Opened
<1>7. CacheRestoresBinding' BY DEF CacheRestoresBinding
<1>8. EntriesAreLive' BY DEF EntriesAreLive, Live
<1> QED BY <1>1, <1>2, <1>3, <1>4, <1>5, <1>6, <1>7, <1>8

\* The connection an entry names is one of the wrapper's.
LEMMA EntryHasConn ==
  ASSUME RegistryTypes, NEW w \in Wrappers, entry[w].conn # 0
  PROVE  entry[w].conn \in 1 .. MaxConns
<1>1. MaxConns \in Nat BY WrappersAssumption
<1>2. entry[w].conn \in 0 .. MaxConns BY DEF RegistryTypes
<1> QED BY <1>1, <1>2

\* A new connection is the last one, and begins with its Register.
LEMMA ConnectKeeps ==
  ASSUME RegistryInv, NEW w \in Wrappers, Connect(w)
  PROVE  RegistryInv'
<1> USE DEF RegistryInv
<1>0. MaxConns \in Nat /\ Wrappers \subseteq Nat BY WrappersAssumption
<1>1. PICK k \in 0 .. MaxConns : OpenTo(w, k) BY DEF ConnsInOrder
<1>2. Opened(w) = 1 .. k /\ Cardinality(Opened(w)) = k BY <1>1, OpenedAreNumbered
<1> DEFINE n == k + 1
           c == <<w, n>>
<1>3. n \in 1 .. MaxConns /\ c \in Conns BY <1>0, <1>2 DEF Connect, CanReopen, Conns
<1>4. /\ link' = [link EXCEPT ![w] = n] /\ phase' = [phase EXCEPT ![c] = "new"]
      /\ up' = [up EXCEPT ![c] = <<Register(w)>> \o (IF unsent[w] = <<>> THEN <<>>
                                                     ELSE <<Focus(Last(unsent[w]))>>)]
      /\ UNCHANGED <<entry, down, cache, runs, start>>
      /\ link[w] = 0 /\ \A m \in 1 .. k : phase[<<w, m>>] # "new"
  BY <1>2 DEF Connect, claudeVars
<1>5. /\ Register(w) \in Frames /\ Register(w).session = cache[w]
      /\ Focus(Last(unsent[w])) \in Frames
  BY DEF Register, Focus, Frames, RegistryTypes
<1>6. up'[c] \in Seq(Frames) /\ up'[c] # <<>> /\ Head(up'[c]).session = cache[w]
  <2>1. CASE unsent[w] = <<>>
    <3>1. up'[c] = <<Register(w)>> BY <1>3, <1>4, <2>1 DEF RegistryTypes
    <3> QED BY <3>1, <1>5
  <2>2. CASE unsent[w] # <<>>
    <3>1. up'[c] = <<Register(w)>> \o <<Focus(Last(unsent[w]))>>
      BY <1>3, <1>4, <2>2 DEF RegistryTypes
    <3>2. <<Register(w)>> \in Seq(Frames) /\ <<Focus(Last(unsent[w]))>> \in Seq(Frames)
      BY <1>5
    <3>3. Head(<<Register(w)>>) = Register(w) /\ <<Register(w)>> # <<>> OBVIOUS
    <3> QED BY <3>1, <3>2, <3>3, <1>5, FirstStays
  <2> QED BY <2>1, <2>2
<1>7. RegistryTypes'
  <2>1. \A d \in Conns : up'[d] \in Seq(Frames) BY <1>3, <1>4, <1>6 DEF RegistryTypes
  <2> QED BY <1>0, <1>3, <1>4, <2>1 DEF RegistryTypes
<1>8. \A v \in Wrappers, m \in 1 .. MaxConns :
        /\ <<v, m>> \in Conns
        /\ <<v, m>> # c => phase'[<<v, m>>] = phase[<<v, m>>] /\ up'[<<v, m>>] = up[<<v, m>>]
        /\ <<v, m>> = c => phase'[<<v, m>>] = "new"
  BY <1>3, <1>4 DEF Conns, RegistryTypes
<1>9. ConnsInOrder'
  <2>1. OpenTo(w, n)'
    <3>1. link'[w] = n BY <1>4 DEF RegistryTypes
    <3>2. ASSUME NEW m \in 1 .. MaxConns
          PROVE  /\ phase'[<<w, m>>] # "unused" <=> m <= n
                 /\ phase'[<<w, m>>] = "new" => m = n
      <4>1. CASE m = n BY <1>8, <4>1
      <4>2. CASE m # n
        <5>1. phase'[<<w, m>>] = phase[<<w, m>>] BY <1>8, <4>2
        <5>2. m <= n <=> m <= k BY <1>0, <4>2
        <5> QED BY <1>1, <1>4, <5>1, <5>2 DEF OpenTo
      <4> QED BY <4>1, <4>2
    <3> QED BY <3>1, <3>2 DEF OpenTo
  <2>2. ASSUME NEW v \in Wrappers, v # w, NEW j \in 0 .. MaxConns, OpenTo(v, j)
        PROVE  OpenTo(v, j)'
    BY <1>3, <1>4, <1>8, <2>2 DEF OpenTo, RegistryTypes
  <2> QED BY <1>3, <2>1, <2>2 DEF ConnsInOrder
<1>10. RegisterComesFirst'
  <2>1. phase[c] = "unused" BY <1>0, <1>1, <1>3 DEF OpenTo, Conns, RegistryTypes
  <2>2. ASSUME NEW v \in Wrappers, NEW m \in 1 .. MaxConns, <<v, m>> # c
        PROVE  link'[v] = m => link[v] = m BY <1>3, <1>4, <2>2 DEF RegistryTypes
  <2>3. down[c] = <<>> BY <1>3, <2>1 DEF RegisterComesFirst, FirstOf
  <2> SUFFICES ASSUME NEW v \in Wrappers, NEW m \in 1 .. MaxConns PROVE FirstOf(v, m)'
    BY DEF RegisterComesFirst
  <2>4. CASE <<v, m>> = c
    <3>1. v = w /\ m = n BY <2>4
    <3>2. cache' = cache /\ down'[c] = <<>> BY <1>4, <2>3
    <3> QED BY <1>6, <3>1, <3>2 DEF FirstOf
  <2>5. CASE <<v, m>> # c BY <1>4, <1>8, <2>2, <2>5 DEF RegisterComesFirst, FirstOf
  <2> QED BY <2>4, <2>5
<1>11. OnlyPast' BY <1>4 DEF OnlyPast, Past
<1>12. ToldIsBound'
  <2>1. down[c] = <<>> BY <1>0, <1>1, <1>3 DEF OpenTo, RegisterComesFirst, FirstOf
  <2>2. Conn(w)' = c /\ \A v \in Wrappers \ {w} : Conn(v)' = Conn(v) /\ link'[v] = link[v]
    BY <1>4 DEF Conn, RegistryTypes
  <2>3. DOMAIN down'[Conn(w)'] = {} BY <1>4, <2>1, <2>2
  <2> SUFFICES ASSUME NEW v \in Wrappers PROVE Told(v)' BY DEF ToldIsBound
  <2>4. CASE v = w BY <1>4, <2>3, <2>4 DEF ToldIsBound, Told
  <2>5. CASE v # w BY <1>4, <2>2, <2>5 DEF ToldIsBound, Told
  <2> QED BY <2>4, <2>5
<1>13. NewestIsRegistered' /\ CacheRestoresBinding'
  <2>1. ASSUME NEW d \in Conns, phase'[d] = "open",
               \A m \in Opened(d[1])' : m > d[2] => phase'[<<d[1], m>>] = "new"
        PROVE  entry[d[1]].conn = d[2]
    <3>1. PICK v \in Wrappers, m \in 1 .. MaxConns : d = <<v, m>> BY DEF Conns
    <3>2. phase[d] = "open" BY <1>8, <2>1, <3>1
    <3>3. \A j \in Opened(v) : j > m => phase[<<v, j>>] = "new"
      <4> SUFFICES ASSUME NEW j \in Opened(v), j > m PROVE phase[<<v, j>>] = "new" OBVIOUS
      <4>1. j \in Opened(v)' /\ <<v, j>> # c BY <1>0, <1>1, <1>3, <1>8 DEF Opened, OpenTo
      <4> QED BY <1>8, <2>1, <3>1, <4>1 DEF Opened
    <3> QED BY <3>1, <3>2, <3>3 DEF NewestIsRegistered
  <2> QED BY <1>4, <2>1 DEF NewestIsRegistered, CacheRestoresBinding
<1>14. EntriesAreLive'
  <2> SUFFICES ASSUME NEW v \in Wrappers PROVE Live(v)' BY DEF EntriesAreLive
  <2>1. Live(v) BY DEF EntriesAreLive
  <2>2. phase[c] = "unused" BY <1>0, <1>1, <1>3 DEF OpenTo, Conns, RegistryTypes
  <2>3. entry[v].conn # 0 => entry[v].conn \in 1 .. MaxConns BY EntryHasConn
  <2> QED BY <1>4, <1>8, <2>1, <2>2, <2>3 DEF Live
<1> QED BY <1>4, <1>7, <1>9, <1>10, <1>11, <1>12, <1>13, <1>14 DEF StartHasSession

\* Steps that only send or read frames keep what does not speak of frames.
LEMMA FramesAreApart ==
  ASSUME RegistryInv, UNCHANGED <<entry, phase, down, link, cache, runs, start>>,
         RegistryTypes', RegisterComesFirst'
  PROVE  RegistryInv'
<1> USE DEF RegistryInv
<1>1. ConnsInOrder' BY DEF ConnsInOrder, OpenTo
<1>2. OnlyPast' BY DEF OnlyPast, Past
<1>3. ToldIsBound' BY DEF ToldIsBound, Told, Conn
<1>4. NewestIsRegistered' BY DEF NewestIsRegistered, Opened
<1>5. CacheRestoresBinding' BY DEF CacheRestoresBinding
<1>6. EntriesAreLive' /\ StartHasSession' BY DEF EntriesAreLive, Live, StartHasSession
<1> QED BY <1>1, <1>2, <1>3, <1>4, <1>5, <1>6

\* The connection a wrapper has is one of its connections.
LEMMA ConnIsOne ==
  ASSUME RegistryTypes, NEW w \in Wrappers, link[w] # 0
  PROVE  link[w] \in 1 .. MaxConns /\ Conn(w) = <<w, link[w]>> /\ Conn(w) \in Conns
BY WrappersAssumption DEF RegistryTypes, Conn, Conns

\* A focus report goes behind the Register.
LEMMA SendKeeps ==
  ASSUME RegistryInv, NEW w \in Wrappers, Send(w)
  PROVE  RegistryInv'
<1> USE DEF RegistryInv
<1> DEFINE c == Conn(w)
           f == Focus(Head(unsent[w]))
<1>1. link[w] \in 1 .. MaxConns /\ c = <<w, link[w]>> /\ c \in Conns BY ConnIsOne DEF Send
<1>2. /\ up' = [up EXCEPT ![c] = Append(@, f)]
      /\ UNCHANGED <<entry, phase, down, link, cache, runs, start>>
  BY DEF Send, registryVars, claudeVars
<1>3. f \in Frames BY DEF Focus, Frames
<1>4. up[c] \in Seq(Frames) BY <1>1 DEF RegistryTypes
<1> HIDE DEF f
<1>5. /\ Append(up[c], f) \in Seq(Frames) /\ Append(up[c], f) # <<>>
      /\ up[c] # <<>> => Head(Append(up[c], f)) = Head(up[c])
  BY <1>3, <1>4, AppendProperties, HeadTailAppend
<1>6. /\ up'[c] = Append(up[c], f)
      /\ \A d \in Conns : d # c => up'[d] = up[d]
  BY <1>1, <1>2 DEF RegistryTypes
<1>7. RegistryTypes'
  <2>1. \A d \in Conns : up'[d] \in Seq(Frames) BY <1>5, <1>6 DEF RegistryTypes
  <2> QED BY <1>1, <1>2, <2>1 DEF RegistryTypes
<1>8. RegisterComesFirst'
  <2> SUFFICES ASSUME NEW v \in Wrappers, NEW m \in 1 .. MaxConns PROVE FirstOf(v, m)'
    BY DEF RegisterComesFirst
  <2>1. CASE <<v, m>> = c
    <3>1. v = w /\ m = link[w] BY <1>1, <2>1
    <3>2. phase[c] = "new" => up[c] # <<>> BY <1>1, <2>1, <3>1 DEF RegisterComesFirst, FirstOf
    <3>3. FirstOf(v, m) BY DEF RegisterComesFirst
    <3> QED BY <1>2, <1>5, <1>6, <2>1, <3>2, <3>3 DEF FirstOf
  <2>2. CASE <<v, m>> # c
    <3>1. up'[<<v, m>>] = up[<<v, m>>] BY <1>6, <2>2 DEF Conns
    <3> QED BY <1>2, <3>1 DEF RegisterComesFirst, FirstOf
  <2> QED BY <2>1, <2>2
<1> QED BY <1>2, <1>7, <1>8, FramesAreApart

\* A registered connection's frames are no Register any more.
LEMMA ReadKeeps ==
  ASSUME RegistryInv, NEW c \in Conns, Read(c)
  PROVE  RegistryInv'
<1> USE DEF RegistryInv
<1>1. /\ phase[c] = "open" /\ up[c] # <<>> /\ up' = [up EXCEPT ![c] = Tail(@)]
      /\ UNCHANGED <<entry, phase, down, link, cache, runs, start>>
  BY DEF Read, clientVars, claudeVars
<1>2. Tail(up[c]) \in Seq(Frames) BY <1>1, HeadTailProperties DEF RegistryTypes
<1>3. RegistryTypes' BY <1>1, <1>2 DEF RegistryTypes
<1>4. RegisterComesFirst'
  <2>1. \A d \in Conns : phase[d] = "new" => up'[d] = up[d] BY <1>1 DEF RegistryTypes
  <2>2. ASSUME NEW w \in Wrappers, NEW n \in 1 .. MaxConns PROVE FirstOf(w, n)'
    <3>1. <<w, n>> \in Conns /\ FirstOf(w, n) BY DEF Conns, RegisterComesFirst
    <3> QED BY <1>1, <2>1, <3>1 DEF FirstOf
  <2> QED BY <2>2 DEF RegisterComesFirst
<1> QED BY <1>1, <1>3, <1>4, FramesAreApart

\* A wrapper that loses its connection hears no more on it, and keeps what it knows.
LEMMA DropKeeps ==
  ASSUME RegistryInv, NEW w \in Wrappers, Drop(w)
  PROVE  RegistryInv'
<1> USE DEF RegistryInv
<1> DEFINE c == Conn(w)
<1>1. link[w] \in 1 .. MaxConns /\ c = <<w, link[w]>> /\ c \in Conns BY ConnIsOne DEF Drop
<1>2. PICK n \in 0 .. Len(up[c]) : up' = [up EXCEPT ![c] = SubSeq(@, 1, n)] BY DEF Drop
<1>3. /\ down' = [down EXCEPT ![c] = <<>>] /\ link' = [link EXCEPT ![w] = 0]
      /\ UNCHANGED <<entry, phase, cache, runs, start>>
  BY DEF Drop, registryVars, claudeVars
<1>4. up[c] \in Seq(Frames) /\ Len(up[c]) \in Nat BY <1>1 DEF RegistryTypes
<1>5. /\ SubSeq(up[c], 1, n) \in Seq(Frames)
      /\ SubSeq(up[c], 1, n) # <<>> =>
           up[c] # <<>> /\ Head(SubSeq(up[c], 1, n)) = Head(up[c])
  <2>1. CASE n = 0 BY <2>1, SubSeqEmpty
  <2>2. CASE n # 0
    <3>1. n \in 1 .. Len(up[c]) /\ up[c] # <<>> BY <1>4, <2>2
    <3>2. SubSeq(up[c], 1, n) \in Seq(Frames) BY <1>4, <3>1, SubSeqProperties
    <3>3. Head(SubSeq(up[c], 1, n)) = up[c][1] BY <1>4, <3>1, HeadTailOfSubSeq
    <3> QED BY <1>4, <3>1, <3>2, <3>3
  <2> QED BY <2>1, <2>2
<1>6. /\ up'[c] = SubSeq(up[c], 1, n) /\ down'[c] = <<>>
      /\ \A d \in Conns : d # c => up'[d] = up[d] /\ down'[d] = down[d]
  BY <1>1, <1>2, <1>3 DEF RegistryTypes
<1>7. link'[w] = 0 /\ \A v \in Wrappers \ {w} : link'[v] = link[v] BY <1>3 DEF RegistryTypes
<1>8. RegistryTypes'
  <2>1. up' \in [Conns -> Seq(Frames)] BY <1>2, <1>5 DEF RegistryTypes
  <2>2. <<>> \in Seq(Nat \X Nat) OBVIOUS
  <2>3. down' \in [Conns -> Seq(Nat \X Nat)] BY <1>3, <2>2 DEF RegistryTypes
  <2>4. link' \in [Wrappers -> 0 .. MaxConns] BY <1>3, WrappersAssumption DEF RegistryTypes
  <2> QED BY <1>3, <2>1, <2>3, <2>4 DEF RegistryTypes
<1>9. ConnsInOrder'
  <2>1. ASSUME NEW v \in Wrappers, NEW k \in 0 .. MaxConns, OpenTo(v, k) PROVE OpenTo(v, k)'
    BY <1>3, <1>7, <2>1 DEF OpenTo
  <2> QED BY <2>1 DEF ConnsInOrder
<1>10. RegisterComesFirst'
  <2> SUFFICES ASSUME NEW v \in Wrappers, NEW m \in 1 .. MaxConns PROVE FirstOf(v, m)'
    BY DEF RegisterComesFirst
  <2>1. CASE <<v, m>> = c
    <3>1. v = w /\ m = link[w] /\ link'[v] # m BY <1>1, <1>7, <2>1
    <3>2. FirstOf(v, m) BY DEF RegisterComesFirst
    <3> QED BY <1>3, <1>5, <1>6, <2>1, <3>1, <3>2 DEF FirstOf
  <2>2. CASE <<v, m>> # c
    <3>1. link'[v] = m => link[v] = m BY <1>7
    <3>2. <<v, m>> \in Conns BY DEF Conns
    <3>3. FirstOf(v, m) BY DEF RegisterComesFirst
    <3> QED BY <1>3, <1>6, <2>2, <3>1, <3>2, <3>3 DEF FirstOf
  <2> QED BY <2>1, <2>2
<1>11. OnlyPast'
  <2>1. ASSUME NEW v \in Wrappers, NEW m \in 1 .. MaxConns, NEW i \in DOMAIN down'[<<v, m>>]
        PROVE  down'[<<v, m>>][i] \in Past(v)
    <3>1. <<v, m>> # c BY <1>6, <2>1
    <3>2. down'[<<v, m>>] = down[<<v, m>>] BY <1>6, <3>1 DEF Conns
    <3> QED BY <2>1, <3>2 DEF OnlyPast
  <2> QED BY <1>3, <2>1 DEF OnlyPast, Past
<1>12. ToldIsBound'
  <2>1. ASSUME NEW v \in Wrappers, v # w, link[v] # 0
        PROVE  Conn(v)' = Conn(v) /\ down'[Conn(v)] = down[Conn(v)]
    <3>1. Conn(v) \in Conns /\ Conn(v) # c BY <1>1, <2>1, ConnIsOne
    <3> QED BY <1>6, <1>7, <2>1, <3>1 DEF Conn
  <2> QED BY <1>3, <1>7, <2>1 DEF ToldIsBound, Told
<1>13. NewestIsRegistered' BY <1>3 DEF NewestIsRegistered, Opened
<1>14. CacheRestoresBinding' BY <1>3 DEF CacheRestoresBinding
<1>15. EntriesAreLive' /\ StartHasSession'
  BY <1>3 DEF EntriesAreLive, Live, StartHasSession
<1> QED BY <1>8, <1>9, <1>10, <1>11, <1>12, <1>13, <1>14, <1>15
\* A registration adopts what the wrapper remembers only where nothing is bound,
\* and the connection that registers is the wrapper's last.
LEMMA AcceptKeeps ==
  ASSUME RegistryInv, NEW c \in Conns, Accept(c)
  PROVE  /\ RegistryInv'
         /\ \A w \in Wrappers : entry[w].session = runs[w] => entry'[w].session = runs[w]
<1> USE DEF RegistryInv
<1>1. PICK w \in Wrappers, n \in 1 .. MaxConns : c = <<w, n>> BY DEF Conns
<1>2. c[1] = w /\ c[2] = n BY <1>1
<1>3. /\ phase[c] = "new" /\ up[c] # <<>>
      /\ entry' = [entry EXCEPT ![w] = [conn |-> n, session |-> Adopted(c, w)]]
      /\ phase' = [phase EXCEPT ![c] = "open"] /\ up' = [up EXCEPT ![c] = Tail(@)]
      /\ UNCHANGED <<down, link, cache, runs, start>>
  BY <1>2 DEF Accept, clientVars, claudeVars
<1>4. PICK k \in 0 .. MaxConns : OpenTo(w, k) BY DEF ConnsInOrder
<1>5. n = k /\ link[w] \in {0, n} /\ \A m \in Opened(w) : m <= n
  <2>1. n = k BY <1>1, <1>3, <1>4 DEF OpenTo
  <2> QED BY <1>4, <2>1 DEF OpenTo, Opened
<1>6. FirstOf(w, n) BY DEF RegisterComesFirst
<1>7. Head(up[c]).session = cache[w] /\ down[c] = <<>> BY <1>1, <1>3, <1>6 DEF FirstOf
<1>8. Live(w) /\ Told(w) BY DEF EntriesAreLive, ToldIsBound
<1>9. Adopted(c, w) = IF entry[w].session # None THEN entry[w].session ELSE cache[w]
  BY <1>7 DEF Adopted
<1>10. /\ entry'[w].conn = n /\ entry'[w].session = Adopted(c, w)
       /\ \A v \in Wrappers : v # w => entry'[v] = entry[v]
  BY <1>3 DEF RegistryTypes
<1>11. /\ phase'[c] = "open"
       /\ \A d \in Conns : d # c => phase'[d] = phase[d] /\ up'[d] = up[d]
  BY <1>3 DEF RegistryTypes
<1>12. \A v \in Wrappers, m \in 1 .. MaxConns :
         <<v, m>> \in Conns /\ (<<v, m>> = c <=> v = w /\ m = n)
  BY <1>1 DEF Conns
<1>13. RegistryTypes'
  <2>1. Tail(up[c]) \in Seq(Frames) BY <1>3, HeadTailProperties DEF RegistryTypes
  <2>2. up' \in [Conns -> Seq(Frames)] BY <1>3, <2>1 DEF RegistryTypes
  <2>3. Adopted(c, w) \in (Nat \X Nat) \cup {None} BY <1>9 DEF RegistryTypes
  <2>4. entry' \in [Wrappers -> [conn : 0 .. MaxConns, session : (Nat \X Nat) \cup {None}]]
    BY <1>3, <2>3, WrappersAssumption DEF RegistryTypes
  <2>5. phase' \in [Conns -> {"unused", "new", "open", "gone"}] BY <1>3 DEF RegistryTypes
  <2> QED BY <1>3, <2>2, <2>4, <2>5 DEF RegistryTypes
<1>14. ConnsInOrder'
  <2>1. ASSUME NEW v \in Wrappers, NEW j \in 0 .. MaxConns, OpenTo(v, j) PROVE OpenTo(v, j)'
    <3>1. ASSUME NEW m \in 1 .. MaxConns
          PROVE  /\ phase'[<<v, m>>] # "unused" <=> m <= j
                 /\ phase'[<<v, m>>] = "new" => m = j
      <4>1. CASE <<v, m>> = c BY <1>3, <1>11, <2>1, <4>1 DEF OpenTo
      <4>2. CASE <<v, m>> # c BY <1>11, <1>12, <2>1, <4>2 DEF OpenTo
      <4> QED BY <4>1, <4>2
    <3> QED BY <1>3, <2>1, <3>1 DEF OpenTo
  <2> QED BY <2>1 DEF ConnsInOrder
<1>15. RegisterComesFirst'
  <2> SUFFICES ASSUME NEW v \in Wrappers, NEW m \in 1 .. MaxConns PROVE FirstOf(v, m)'
    BY DEF RegisterComesFirst
  <2>1. CASE <<v, m>> = c BY <1>11, <2>1 DEF FirstOf
  <2>2. CASE <<v, m>> # c
    <3>1. FirstOf(v, m) BY DEF RegisterComesFirst
    <3>2. phase'[<<v, m>>] = phase[<<v, m>>] /\ up'[<<v, m>>] = up[<<v, m>>]
      BY <1>11, <1>12, <2>2
    <3> QED BY <1>3, <3>1, <3>2 DEF FirstOf
  <2> QED BY <2>1, <2>2
<1>16. OnlyPast' /\ StartHasSession' BY <1>3 DEF OnlyPast, Past, StartHasSession
<1>17. EntriesAreLive'
  <2> SUFFICES ASSUME NEW v \in Wrappers PROVE Live(v)' BY DEF EntriesAreLive
  <2>1. CASE v = w BY <1>1, <1>10, <1>11, <2>1 DEF Live
  <2>2. CASE v # w
    <3>1. entry[v].conn # 0 => entry[v].conn \in 1 .. MaxConns BY EntryHasConn
    <3>2. Live(v) BY DEF EntriesAreLive
    <3>3. entry'[v] = entry[v] BY <1>10, <2>2
    <3> QED BY <1>11, <1>12, <2>2, <3>1, <3>2, <3>3 DEF Live
  <2> QED BY <2>1, <2>2
<1>18. ToldIsBound'
  <2> SUFFICES ASSUME NEW v \in Wrappers PROVE Told(v)' BY DEF ToldIsBound
  <2>1. CASE v = w
    <3>1. link'[w] # 0 => Conn(w)' = c BY <1>1, <1>3, <1>5 DEF Conn
    <3>2. down' = down BY <1>3
    <3> QED BY <1>7, <2>1, <3>1, <3>2 DEF Told
  <2>2. CASE v # w
    <3>1. Told(v) BY DEF ToldIsBound
    <3>2. entry'[v] = entry[v] BY <1>10, <2>2
    <3> QED BY <1>3, <3>1, <3>2 DEF Told, Conn
  <2> QED BY <2>1, <2>2
<1>19. NewestIsRegistered'
  <2> SUFFICES ASSUME NEW d \in Conns, phase'[d] = "open",
                      \A j \in Opened(d[1])' : j > d[2] => phase'[<<d[1], j>>] = "new"
               PROVE  entry'[d[1]].conn = d[2]
    BY DEF NewestIsRegistered
  <2>1. PICK v \in Wrappers, m \in 1 .. MaxConns : d = <<v, m>> BY DEF Conns
  <2>2. d[1] = v /\ d[2] = m BY <2>1
  <2>3. \A x \in Wrappers : Opened(x)' = Opened(x)
    <3>1. \A x \in Wrappers, j \in 1 .. MaxConns :
            phase'[<<x, j>>] # "unused" <=> phase[<<x, j>>] # "unused"
      BY <1>3, <1>11, <1>12
    <3> QED BY <3>1 DEF Opened
  <2>4. CASE v = w /\ m = n BY <1>10, <2>2, <2>4
  <2>5. CASE v = w /\ m # n
    <3>1. n \in Opened(w) BY <1>1, <1>3 DEF Opened
    <3>2. m \in Opened(w) BY <1>11, <1>12, <2>1, <2>5 DEF Opened
    <3>3. n > m BY <1>5, <2>5, <3>2
    <3> QED BY <1>1, <1>11, <2>2, <2>3, <2>5, <3>1, <3>3
  <2>6. CASE v # w
    <3>1. phase[d] = "open" BY <1>11, <1>12, <2>1, <2>6
    <3>2. \A j \in Opened(v) : j > m => phase[<<v, j>>] = "new"
      BY <1>11, <1>12, <2>2, <2>3, <2>6 DEF Opened
    <3>3. entry[v].conn = m BY <2>2, <3>1, <3>2 DEF NewestIsRegistered
    <3> QED BY <1>10, <2>2, <2>6, <3>3
  <2> QED BY <2>4, <2>5, <2>6
<1>20. ASSUME NEW v \in Wrappers, cache[v] = runs[v], runs[v] # None
       PROVE  entry'[v].conn # 0 => entry'[v].session = runs[v]
  <2>1. CASE v = w BY <1>8, <1>9, <1>10, <1>20, <2>1 DEF CacheRestoresBinding, Live
  <2>2. CASE v # w BY <1>10, <1>20, <2>2 DEF CacheRestoresBinding
  <2> QED BY <2>1, <2>2
<1>21. CacheRestoresBinding' BY <1>3, <1>20 DEF CacheRestoresBinding
<1>22. ASSUME NEW v \in Wrappers, entry[v].session = runs[v]
       PROVE  entry'[v].session = runs[v]
  <2>1. CASE v = w
    <3>1. runs[w] = None => cache[w] = None BY DEF OnlyPast, Past
    <3> QED BY <1>9, <1>10, <1>22, <2>1, <3>1
  <2>2. CASE v # w BY <1>10, <1>22, <2>2
  <2> QED BY <2>1, <2>2
<1> QED BY <1>13, <1>14, <1>15, <1>16, <1>17, <1>18, <1>19, <1>21, <1>22

\* A connection that ends takes the entry along only if it is its own, and then
\* no older one can be the newest that is served.
LEMMA CloseKeeps ==
  ASSUME RegistryInv, NEW c \in Conns, Close(c)
  PROVE  RegistryInv'
<1> USE DEF RegistryInv
<1>1. PICK w \in Wrappers, n \in 1 .. MaxConns : c = <<w, n>> BY DEF Conns
<1>2. c[1] = w /\ c[2] = n BY <1>1
<1>3. /\ phase[c] \in {"new", "open"}
      /\ entry' = IF entry[w].conn = n THEN [entry EXCEPT ![w] = Absent] ELSE entry
      /\ phase' = [phase EXCEPT ![c] = "gone"]
      /\ UNCHANGED <<up, down, link, cache, runs, start>>
  BY <1>2 DEF Close, Ours, wireVars, clientVars, claudeVars
<1>4. /\ entry'[w] = IF entry[w].conn = n THEN Absent ELSE entry[w]
      /\ \A v \in Wrappers : v # w => entry'[v] = entry[v]
  BY <1>3 DEF RegistryTypes
<1>5. /\ phase'[c] = "gone"
      /\ \A d \in Conns : d # c => phase'[d] = phase[d]
  BY <1>3 DEF RegistryTypes
<1>6. \A v \in Wrappers, m \in 1 .. MaxConns :
         <<v, m>> \in Conns /\ (<<v, m>> = c <=> v = w /\ m = n)
  BY <1>1 DEF Conns
<1>7. RegistryTypes'
  <2>1. Absent \in [conn : 0 .. MaxConns, session : (Nat \X Nat) \cup {None}]
    BY WrappersAssumption DEF Absent
  <2>2. entry' \in [Wrappers -> [conn : 0 .. MaxConns, session : (Nat \X Nat) \cup {None}]]
    BY <1>3, <2>1 DEF RegistryTypes
  <2>3. phase' \in [Conns -> {"unused", "new", "open", "gone"}] BY <1>3 DEF RegistryTypes
  <2> QED BY <1>3, <2>2, <2>3 DEF RegistryTypes
<1>8. ConnsInOrder'
  <2>1. ASSUME NEW v \in Wrappers, NEW j \in 0 .. MaxConns, OpenTo(v, j) PROVE OpenTo(v, j)'
    <3>1. ASSUME NEW m \in 1 .. MaxConns
          PROVE  /\ phase'[<<v, m>>] # "unused" <=> m <= j
                 /\ phase'[<<v, m>>] = "new" => m = j
      <4>1. CASE <<v, m>> = c BY <1>3, <1>5, <2>1, <4>1 DEF OpenTo
      <4>2. CASE <<v, m>> # c BY <1>5, <1>6, <2>1, <4>2 DEF OpenTo
      <4> QED BY <4>1, <4>2
    <3> QED BY <1>3, <2>1, <3>1 DEF OpenTo
  <2> QED BY <2>1 DEF ConnsInOrder
<1>9. RegisterComesFirst'
  <2> SUFFICES ASSUME NEW v \in Wrappers, NEW m \in 1 .. MaxConns PROVE FirstOf(v, m)'
    BY DEF RegisterComesFirst
  <2>1. CASE <<v, m>> = c BY <1>5, <2>1 DEF FirstOf
  <2>2. CASE <<v, m>> # c
    <3>1. FirstOf(v, m) BY DEF RegisterComesFirst
    <3>2. phase'[<<v, m>>] = phase[<<v, m>>] BY <1>5, <1>6, <2>2
    <3> QED BY <1>3, <3>1, <3>2 DEF FirstOf
  <2> QED BY <2>1, <2>2
<1>10. OnlyPast' /\ StartHasSession' BY <1>3 DEF OnlyPast, Past, StartHasSession
<1>11. EntriesAreLive'
  <2> SUFFICES ASSUME NEW v \in Wrappers PROVE Live(v)' BY DEF EntriesAreLive
  <2>1. Live(v) /\ (entry[v].conn # 0 => entry[v].conn \in 1 .. MaxConns)
    BY EntryHasConn DEF EntriesAreLive
  <2>2. CASE v = w /\ entry[w].conn = n BY <1>4, <2>2 DEF Live, Absent
  <2>3. CASE v # w \/ entry[w].conn # n
    <3>1. entry'[v] = entry[v] BY <1>4, <2>3
    <3>2. entry[v].conn # 0 => phase'[<<v, entry[v].conn>>] = phase[<<v, entry[v].conn>>]
      BY <1>5, <1>6, <2>1, <2>3
    <3> QED BY <2>1, <3>1, <3>2 DEF Live
  <2> QED BY <2>2, <2>3
<1>12. ToldIsBound'
  <2> SUFFICES ASSUME NEW v \in Wrappers PROVE Told(v)' BY DEF ToldIsBound
  <2>1. Told(v) BY DEF ToldIsBound
  <2>2. entry'[v] = entry[v] \/ entry'[v].conn = 0 BY <1>4 DEF Absent
  <2> QED BY <1>3, <2>1, <2>2 DEF Told, Conn
<1>13. NewestIsRegistered'
  <2> SUFFICES ASSUME NEW d \in Conns, phase'[d] = "open",
                      \A j \in Opened(d[1])' : j > d[2] => phase'[<<d[1], j>>] = "new"
               PROVE  entry'[d[1]].conn = d[2]
    BY DEF NewestIsRegistered
  <2>1. PICK v \in Wrappers, m \in 1 .. MaxConns : d = <<v, m>> BY DEF Conns
  <2>2. d[1] = v /\ d[2] = m /\ d # c BY <1>5, <2>1
  <2>3. Opened(v)' = Opened(v)
    <3>1. \A j \in 1 .. MaxConns : phase'[<<v, j>>] # "unused" <=> phase[<<v, j>>] # "unused"
      BY <1>3, <1>5, <1>6
    <3> QED BY <3>1 DEF Opened
  <2>4. \A j \in Opened(v) : j > m => phase'[<<v, j>>] = "new" /\ <<v, j>> # c
    BY <1>5, <2>2, <2>3
  <2>5. \A j \in Opened(v) : j > m => phase[<<v, j>>] = "new"
    BY <1>5, <1>6, <2>4 DEF Opened
  <2>6. phase[d] = "open" BY <1>5, <2>2
  <2>7. entry[v].conn = m BY <2>2, <2>5, <2>6 DEF NewestIsRegistered
  <2>8. v # w \/ m # n BY <1>1, <2>1, <2>2
  <2> QED BY <1>4, <2>2, <2>7, <2>8
<1>14. CacheRestoresBinding'
  <2>1. \A v \in Wrappers : entry'[v] = entry[v] \/ entry'[v].conn = 0 BY <1>4 DEF Absent
  <2> QED BY <1>3, <2>1 DEF CacheRestoresBinding
<1> QED BY <1>7, <1>8, <1>9, <1>10, <1>11, <1>12, <1>13, <1>14

\* What a wrapper remembers is the oldest session it was told of and had not
\* yet read; if Claude still runs that one, it is bound.
LEMMA ReceiveKeeps ==
  ASSUME RegistryInv, NEW w \in Wrappers, Receive(w)
  PROVE  RegistryInv'
<1> USE DEF RegistryInv
<1> DEFINE c == Conn(w)
<1>1. link[w] \in 1 .. MaxConns /\ c = <<w, link[w]>> /\ c \in Conns BY ConnIsOne DEF Receive
<1>2. /\ down[c] # <<>> /\ cache' = [cache EXCEPT ![w] = Head(down[c])]
      /\ down' = [down EXCEPT ![c] = Tail(@)]
      /\ UNCHANGED <<entry, phase, up, link, runs, start>>
  BY DEF Receive, registryVars, claudeVars
<1>3. down[c] \in Seq(Nat \X Nat) BY <1>1 DEF RegistryTypes
<1>4. /\ Head(down[c]) \in Nat \X Nat /\ Tail(down[c]) \in Seq(Nat \X Nat)
      /\ 1 \in DOMAIN down[c] /\ Head(down[c]) = down[c][1]
      /\ \A i \in DOMAIN Tail(down[c]) :
           i + 1 \in DOMAIN down[c] /\ Tail(down[c])[i] = down[c][i + 1]
  <2>1. Len(down[c]) \in Nat \ {0} BY <1>2, <1>3
  <2>2. Len(Tail(down[c])) = Len(down[c]) - 1 BY <1>2, <1>3, HeadTailProperties
  <2> QED BY <1>2, <1>3, <2>1, <2>2, HeadTailProperties
<1>5. /\ down'[c] = Tail(down[c])
      /\ \A d \in Conns : d # c => down'[d] = down[d]
  BY <1>1, <1>2 DEF RegistryTypes
<1>6. cache'[w] = down[c][1] /\ \A v \in Wrappers : v # w => cache'[v] = cache[v]
  BY <1>2, <1>4 DEF RegistryTypes
<1>7. phase[c] \notin {"unused", "new"}
  <2>1. FirstOf(w, link[w]) BY <1>1 DEF RegisterComesFirst
  <2> QED BY <1>1, <1>2, <2>1 DEF FirstOf
<1>8. \A m \in 1 .. MaxConns : phase[<<w, m>>] # "new"
  <2>1. PICK k \in 0 .. MaxConns : OpenTo(w, k) BY DEF ConnsInOrder
  <2> QED BY <1>1, <1>7, <2>1 DEF OpenTo
<1>9. RegistryTypes'
  <2>1. down' \in [Conns -> Seq(Nat \X Nat)] BY <1>2, <1>4 DEF RegistryTypes
  <2>2. cache' \in [Wrappers -> (Nat \X Nat) \cup {None}] BY <1>2, <1>4 DEF RegistryTypes
  <2> QED BY <1>2, <2>1, <2>2 DEF RegistryTypes
<1>10. ConnsInOrder' BY <1>2 DEF ConnsInOrder, OpenTo
<1>11. RegisterComesFirst'
  <2> SUFFICES ASSUME NEW v \in Wrappers, NEW m \in 1 .. MaxConns PROVE FirstOf(v, m)'
    BY DEF RegisterComesFirst
  <2>1. FirstOf(v, m) /\ <<v, m>> \in Conns BY DEF RegisterComesFirst, Conns
  <2>2. CASE v = w
    <3>1. phase[<<w, m>>] = "unused" => down'[<<w, m>>] = down[<<w, m>>] BY <1>5, <1>7, <2>1, <2>2
    <3> QED BY <1>2, <1>8, <2>1, <2>2, <3>1 DEF FirstOf
  <2>3. CASE v # w
    <3>1. down'[<<v, m>>] = down[<<v, m>>] BY <1>1, <1>5, <2>1, <2>3
    <3> QED BY <1>2, <1>6, <2>1, <2>3, <3>1 DEF FirstOf
  <2> QED BY <2>2, <2>3
<1>12. OnlyPast'
  <2>1. ASSUME NEW v \in Wrappers, NEW m \in 1 .. MaxConns, NEW i \in DOMAIN down'[<<v, m>>]
        PROVE  down'[<<v, m>>][i] \in Past(v)
    <3>1. <<v, m>> \in Conns BY DEF Conns
    <3>2. CASE <<v, m>> = c
      <4>1. v = w /\ m = link[w] BY <1>1, <3>2
      <4>2. i + 1 \in DOMAIN down[c] /\ down'[c][i] = down[c][i + 1] BY <1>4, <1>5, <2>1, <3>2
      <4> QED BY <3>2, <4>1, <4>2 DEF OnlyPast
    <3>3. CASE <<v, m>> # c
      <4>1. down'[<<v, m>>] = down[<<v, m>>] BY <1>5, <3>1, <3>3
      <4> QED BY <2>1, <4>1 DEF OnlyPast
    <3> QED BY <3>2, <3>3
  <2>2. down[c][1] \in Past(w) BY <1>1, <1>4 DEF OnlyPast
  <2>3. \A v \in Wrappers : cache'[v] \in Past(v) \cup {None} BY <1>6, <2>2 DEF OnlyPast
  <2>4. \A v \in Wrappers : Past(v)' = Past(v) /\ runs'[v] = runs[v] BY <1>2 DEF Past
  <2>5. \A v \in Wrappers : runs[v] \in Past(v) \cup {None} BY DEF OnlyPast
  <2> QED BY <2>1, <2>3, <2>4, <2>5 DEF OnlyPast
<1>13. StartHasSession' /\ EntriesAreLive' BY <1>2 DEF StartHasSession, EntriesAreLive, Live
<1>14. ToldIsBound'
  <2> SUFFICES ASSUME NEW v \in Wrappers PROVE Told(v)' BY DEF ToldIsBound
  <2>1. Told(v) BY DEF ToldIsBound
  <2>2. Conn(v)' = Conn(v) BY <1>2 DEF Conn
  <2>3. CASE v = w
    <3>1. (\E i \in DOMAIN down'[c] : down'[c][i] = runs[w])
            => \E i \in DOMAIN down[c] : down[c][i] = runs[w]
      BY <1>4, <1>5
    <3>2. /\ entry' = entry /\ runs' = runs /\ link' = link BY <1>2
    <3>3. Conn(w)' = c BY <2>2, <2>3
    <3> QED BY <2>1, <2>3, <3>1, <3>2, <3>3 DEF Told
  <2>4. CASE v # w
    <3>1. link[v] # 0 => Conn(v) \in Conns /\ Conn(v) # c BY <1>1, <2>4, ConnIsOne
    <3>2. link[v] # 0 => down'[Conn(v)] = down[Conn(v)] BY <1>5, <3>1
    <3> QED BY <1>2, <2>1, <2>2, <3>2 DEF Told
  <2> QED BY <2>3, <2>4
<1>15. NewestIsRegistered' BY <1>2 DEF NewestIsRegistered, Opened
<1>16. CacheRestoresBinding'
  <2>1. Told(w) BY DEF ToldIsBound
  <2>2. cache'[w] = runs[w] /\ entry[w].conn # 0 => entry[w].session = runs[w]
    <3> SUFFICES ASSUME cache'[w] = runs[w], entry[w].conn # 0 PROVE entry[w].session = runs[w]
      OBVIOUS
    <3>1. \E i \in DOMAIN down[Conn(w)] : down[Conn(w)][i] = runs[w] BY <1>4, <1>6
    <3>2. link[w] # 0 BY DEF Receive
    <3> QED BY <2>1, <3>1, <3>2 DEF Told
  <2>3. ASSUME NEW v \in Wrappers, cache'[v] = runs[v], runs[v] # None, entry[v].conn # 0
        PROVE  entry[v].session = runs[v]
    BY <1>6, <2>2, <2>3 DEF CacheRestoresBinding
  <2> QED BY <1>2, <2>3 DEF CacheRestoresBinding
<1> QED BY <1>9, <1>10, <1>11, <1>12, <1>13, <1>14, <1>15, <1>16

\* Nobody knows yet of a session that begins.
LEMMA NewSessionKeeps ==
  ASSUME RegistryInv, NEW w \in Wrappers, NewSession(w)
  PROVE  RegistryInv'
<1> USE DEF RegistryInv
<1> DEFINE n == IF runs[w] = None THEN 1 ELSE runs[w][2] + 1
           s == <<w, n>>
<1>1. /\ runs' = [runs EXCEPT ![w] = s] /\ start' = [start EXCEPT ![w] = "sent"]
      /\ UNCHANGED <<entry, phase, up, down, link, cache>>
  BY DEF NewSession, wireVars, clientVars
<1>2. w \in Nat /\ runs[w] \in Past(w) \cup {None} BY WrappersAssumption DEF OnlyPast
<1>3. runs[w] # None => runs[w][2] \in Nat \ {0}
  <2> SUFFICES ASSUME runs[w] # None PROVE runs[w][2] \in Nat \ {0} OBVIOUS
  <2>1. runs[w] \in Nat \X Nat BY DEF RegistryTypes
  <2>2. PICK m \in 1 .. runs[w][2] : runs[w] = <<w, m>> BY <1>2 DEF Past
  <2>3. runs[w][2] = m BY <2>2
  <2> QED BY <2>1, <2>2, <2>3
<1>4. n \in Nat \ {0} /\ s \in Nat \X Nat /\ s # None BY <1>2, <1>3, WrappersAssumption
<1>5. s \notin Past(w)
  <2>1. CASE runs[w] = None BY <2>1 DEF Past
  <2>2. CASE runs[w] # None
    <3>1. \A m \in 1 .. runs[w][2] : m # n BY <1>3, <2>2
    <3> QED BY <2>2, <3>1 DEF Past
  <2> QED BY <2>1, <2>2
<1>6. runs'[w] = s /\ \A v \in Wrappers : v # w => runs'[v] = runs[v]
  BY <1>1 DEF RegistryTypes
<1>7. /\ Past(w)' = {<<w, m>> : m \in 1 .. n} /\ Past(w) \subseteq Past(w)'
      /\ \A v \in Wrappers : v # w => Past(v)' = Past(v)
  <2>1. Past(w)' = {<<w, m>> : m \in 1 .. n} BY <1>4, <1>6 DEF Past
  <2>2. Past(w) \subseteq {<<w, m>> : m \in 1 .. n}
    <3>1. CASE runs[w] = None BY <3>1 DEF Past
    <3>2. CASE runs[w] # None
      <4>1. 1 .. runs[w][2] \subseteq 1 .. n BY <1>3, <3>2
      <4> QED BY <3>2, <4>1 DEF Past
    <3> QED BY <3>1, <3>2
  <2> QED BY <1>6, <2>1, <2>2 DEF Past
<1>8. RegistryTypes'
  <2>1. runs' \in [Wrappers -> (Nat \X Nat) \cup {None}] BY <1>1, <1>4 DEF RegistryTypes
  <2> QED BY <1>1, <2>1 DEF RegistryTypes
<1>9. ConnsInOrder' BY <1>1 DEF ConnsInOrder, OpenTo
<1>10. RegisterComesFirst' BY <1>1 DEF RegisterComesFirst, FirstOf
<1>11. OnlyPast'
  <2>1. \A v \in Wrappers : Past(v) \subseteq Past(v)' BY <1>7
  <2>2. s \in Past(w)' BY <1>4, <1>7
  <2>3. \A v \in Wrappers : runs'[v] \in Past(v)' \cup {None}
    BY <1>6, <2>1, <2>2 DEF OnlyPast
  <2>4. \A v \in Wrappers : cache'[v] \in Past(v)' \cup {None} BY <1>1, <2>1 DEF OnlyPast
  <2>5. ASSUME NEW v \in Wrappers, NEW m \in 1 .. MaxConns, NEW i \in DOMAIN down'[<<v, m>>]
        PROVE  down'[<<v, m>>][i] \in Past(v)'
    BY <1>1, <2>1 DEF OnlyPast
  <2> QED BY <2>3, <2>4, <2>5 DEF OnlyPast
<1>12. StartHasSession'
  <2>1. start' \in [Wrappers -> {"none", "sent", "bound", "answered", "lost"}]
    BY <1>1 DEF StartHasSession
  <2>2. \A v \in Wrappers : v # w => start'[v] = start[v] BY <1>1 DEF StartHasSession
  <2> QED BY <1>4, <1>6, <2>1, <2>2 DEF StartHasSession
<1>13. EntriesAreLive' BY <1>1 DEF EntriesAreLive, Live
<1>14. ToldIsBound'
  <2> SUFFICES ASSUME NEW v \in Wrappers PROVE Told(v)' BY DEF ToldIsBound
  <2>1. CASE v # w
    <3>1. Told(v) /\ runs'[v] = runs[v] BY <1>6, <2>1 DEF ToldIsBound
    <3> QED BY <1>1, <3>1 DEF Told, Conn
  <2>2. CASE v = w
    <3>1. link[w] # 0 => \A i \in DOMAIN down[Conn(w)] : down[Conn(w)][i] # s
      BY <1>5, ConnIsOne DEF OnlyPast
    <3>2. link' = link /\ down' = down /\ Conn(w)' = Conn(w) BY <1>1 DEF Conn
    <3> QED BY <1>6, <2>2, <3>1, <3>2 DEF Told
  <2> QED BY <2>1, <2>2
<1>15. NewestIsRegistered' BY <1>1 DEF NewestIsRegistered, Opened
<1>16. CacheRestoresBinding'
  <2>1. cache[w] # s BY <1>4, <1>5 DEF OnlyPast
  <2> QED BY <1>1, <1>6, <2>1 DEF CacheRestoresBinding
<1> QED BY <1>8, <1>9, <1>10, <1>11, <1>12, <1>13, <1>14, <1>15, <1>16

\* A SessionStart call that finds the entry binds before it tells.
LEMMA RegisterSessionKeeps ==
  ASSUME RegistryInv, NEW w \in Wrappers, RegisterSession(w)
  PROVE  /\ RegistryInv'
         /\ \A v \in Wrappers : entry[v].session = runs[v] => entry'[v].session = runs[v]
<1> USE DEF RegistryInv
<1>1. /\ start[w] = "sent" /\ UNCHANGED <<phase, up, link, cache, runs>>
  BY DEF RegisterSession, clientVars
<1>2. StartHasSession'
  <2>1. start' = [start EXCEPT ![w] = "lost"] \/ start' = [start EXCEPT ![w] = "bound"]
    BY DEF RegisterSession
  <2>2. \A v \in Wrappers : start'[v] = "sent" => start[v] = "sent"
    BY <2>1 DEF StartHasSession
  <2> QED BY <1>1, <2>1, <2>2 DEF StartHasSession
<1>3. CASE entry[w].conn = 0
  <2>1. UNCHANGED <<entry, down>> BY <1>3 DEF RegisterSession
  <2>2. UNCHANGED registry BY <1>1, <2>1 DEF registry
  <2> QED BY <1>2, <2>1, <2>2, ActiveIsApart
<1>4. CASE entry[w].conn # 0
  <2> DEFINE c == Conn(w)
  <2>1. /\ entry' = [entry EXCEPT ![w].session = runs[w]]
        /\ down' = IF link[w] = entry[w].conn THEN [down EXCEPT ![c] = Append(@, runs[w])] ELSE down
    BY <1>4 DEF RegisterSession
  <2>2. runs[w] \in Past(w) /\ runs[w] \in Nat \X Nat
    BY <1>1 DEF OnlyPast, StartHasSession, RegistryTypes
  <2>3. /\ entry'[w].conn = entry[w].conn /\ entry'[w].session = runs[w]
        /\ \A v \in Wrappers : v # w => entry'[v] = entry[v]
    BY <2>1 DEF RegistryTypes
  <2>4. \A v \in Wrappers : entry'[v].conn = entry[v].conn BY <2>3
  <2>5. entry[w].conn \in 1 .. MaxConns /\ phase[<<w, entry[w].conn>>] = "open"
    BY <1>4, EntryHasConn DEF EntriesAreLive, Live
  <2>6. ASSUME NEW d \in Conns, down'[d] # down[d]
        PROVE  /\ d = <<w, link[w]>> /\ link[w] # 0 /\ phase[d] = "open"
               /\ down'[d] = Append(down[d], runs[w])
    <3>1. link[w] = entry[w].conn /\ link[w] # 0 BY <1>4, <2>1, <2>6
    <3>2. c \in Conns /\ c = <<w, link[w]>> BY <3>1, ConnIsOne
    <3>3. d = c /\ down'[d] = Append(down[d], runs[w]) BY <2>1, <2>6, <3>1, <3>2 DEF RegistryTypes
    <3> QED BY <2>5, <3>1, <3>2, <3>3
  <2>7. ASSUME NEW d \in Conns PROVE Append(down[d], runs[w]) \in Seq(Nat \X Nat)
    BY <2>2, AppendProperties DEF RegistryTypes
  <2>8. RegistryTypes'
    <3>1. down' \in [Conns -> Seq(Nat \X Nat)] BY <2>1, <2>7 DEF RegistryTypes
    <3>2. entry' \in [Wrappers -> [conn : 0 .. MaxConns, session : (Nat \X Nat) \cup {None}]]
      BY <2>1, <2>2 DEF RegistryTypes
    <3> QED BY <1>1, <3>1, <3>2 DEF RegistryTypes
  <2>9. ConnsInOrder' BY <1>1 DEF ConnsInOrder, OpenTo
  <2>10. RegisterComesFirst'
    <3> SUFFICES ASSUME NEW v \in Wrappers, NEW m \in 1 .. MaxConns PROVE FirstOf(v, m)'
      BY DEF RegisterComesFirst
    <3>1. FirstOf(v, m) /\ <<v, m>> \in Conns BY DEF RegisterComesFirst, Conns
    <3>2. phase[<<v, m>>] = "open" \/ down'[<<v, m>>] = down[<<v, m>>] BY <2>6, <3>1
    <3> QED BY <1>1, <3>1, <3>2 DEF FirstOf
  <2>11. OnlyPast'
    <3>1. ASSUME NEW v \in Wrappers, NEW m \in 1 .. MaxConns, NEW i \in DOMAIN down'[<<v, m>>]
          PROVE  down'[<<v, m>>][i] \in Past(v)
      <4>1. <<v, m>> \in Conns BY DEF Conns
      <4>2. CASE down'[<<v, m>>] = down[<<v, m>>] BY <3>1, <4>2 DEF OnlyPast
      <4>3. CASE down'[<<v, m>>] # down[<<v, m>>]
        <5>1. v = w /\ down'[<<v, m>>] = Append(down[<<v, m>>], runs[w]) BY <2>6, <4>1, <4>3
        <5>2. down[<<v, m>>] \in Seq(Nat \X Nat) BY <4>1 DEF RegistryTypes
        <5>3. \/ i \in DOMAIN down[<<v, m>>] /\ down'[<<v, m>>][i] = down[<<v, m>>][i]
              \/ down'[<<v, m>>][i] = runs[w]
          BY <2>2, <3>1, <5>1, <5>2, AppendProperties
        <5> QED BY <2>2, <5>1, <5>3 DEF OnlyPast
      <4> QED BY <4>2, <4>3
    <3>2. \A v \in Wrappers : Past(v)' = Past(v) /\ runs'[v] = runs[v] /\ cache'[v] = cache[v]
      BY <1>1 DEF Past
    <3> QED BY <3>1, <3>2 DEF OnlyPast
  <2>12. EntriesAreLive'
    <3> SUFFICES ASSUME NEW v \in Wrappers PROVE Live(v)' BY DEF EntriesAreLive
    <3>1. Live(v) BY DEF EntriesAreLive
    <3> QED BY <1>1, <1>4, <2>3, <2>5, <3>1 DEF Live
  <2>13. ToldIsBound'
    <3> SUFFICES ASSUME NEW v \in Wrappers PROVE Told(v)' BY DEF ToldIsBound
    <3>1. CASE v = w BY <1>1, <2>3, <3>1 DEF Told
    <3>2. CASE v # w
      <4>1. Told(v) /\ Conn(v)' = Conn(v) BY <1>1 DEF ToldIsBound, Conn
      <4>2. link[v] # 0 => Conn(v) \in Conns /\ Conn(v) # <<w, link[w]>> BY <3>2, ConnIsOne
      <4>3. link[v] # 0 => down'[Conn(v)] = down[Conn(v)] BY <2>6, <4>2
      <4>4. entry'[v] = entry[v] BY <2>3, <3>2
      <4> QED BY <1>1, <4>1, <4>3, <4>4 DEF Told
    <3> QED BY <3>1, <3>2
  <2>14. NewestIsRegistered'
    <3>1. \A d \in Conns : d[1] \in Wrappers BY DEF Conns
    <3> QED BY <1>1, <2>4, <3>1 DEF NewestIsRegistered, Opened
  <2>15. CacheRestoresBinding' BY <1>1, <2>3 DEF CacheRestoresBinding
  <2>16. \A v \in Wrappers : entry[v].session = runs[v] => entry'[v].session = runs[v]
    BY <2>3
  <2> QED BY <1>2, <2>8, <2>9, <2>10, <2>11, <2>12, <2>13, <2>14, <2>15, <2>16
<1> QED BY <1>3, <1>4

\* After a restart nobody is registered, and nothing is under way.
LEMMA RestartKeeps ==
  ASSUME RegistryInv, Restart
  PROVE  RegistryInv' /\ \A w \in Wrappers : entry'[w].conn = 0
<1> USE DEF RegistryInv
<1>1. /\ entry' = [w \in Wrappers |-> Absent]
      /\ phase' = [c \in Conns |-> IF phase[c] = "unused" THEN "unused" ELSE "gone"]
      /\ up' = [c \in Conns |-> <<>>] /\ down' = [c \in Conns |-> <<>>]
      /\ link' = [w \in Wrappers |-> 0] /\ UNCHANGED <<cache, runs>>
      /\ start' = [w \in Wrappers |-> IF start[w] \in {"sent", "bound"} THEN "lost" ELSE start[w]]
  BY DEF Restart
<1>2. MaxConns \in Nat BY WrappersAssumption
<1>3. \A w \in Wrappers, n \in 1 .. MaxConns :
        /\ <<w, n>> \in Conns /\ down'[<<w, n>>] = <<>>
        /\ phase'[<<w, n>>] \in {"unused", "gone"}
        /\ phase'[<<w, n>>] = "unused" <=> phase[<<w, n>>] = "unused"
  BY <1>1 DEF Conns
<1>4. RegistryTypes'
  <2>1. <<>> \in Seq(Frames) /\ <<>> \in Seq(Nat \X Nat) OBVIOUS
  <2>2. Absent \in [conn : 0 .. MaxConns, session : (Nat \X Nat) \cup {None}]
    BY <1>2 DEF Absent
  <2> QED BY <1>1, <1>2, <2>1, <2>2 DEF RegistryTypes
<1>5. ConnsInOrder'
  <2>1. ASSUME NEW w \in Wrappers, NEW k \in 0 .. MaxConns, OpenTo(w, k) PROVE OpenTo(w, k)'
    BY <1>1, <1>3, <2>1 DEF OpenTo
  <2> QED BY <2>1 DEF ConnsInOrder
<1>6. RegisterComesFirst' BY <1>3 DEF RegisterComesFirst, FirstOf
<1>7. OnlyPast'
  <2>1. \A w \in Wrappers : Past(w)' = Past(w) /\ runs'[w] = runs[w] /\ cache'[w] = cache[w]
    BY <1>1 DEF Past
  <2>2. \A w \in Wrappers, n \in 1 .. MaxConns : DOMAIN down'[<<w, n>>] = {}
    <3>1. DOMAIN <<>> = {} OBVIOUS
    <3> QED BY <1>3, <3>1
  <2> QED BY <2>1, <2>2 DEF OnlyPast
<1>8. \A w \in Wrappers : entry'[w].conn = 0 /\ entry'[w].session = None BY <1>1 DEF Absent
<1>9. EntriesAreLive' /\ ToldIsBound' /\ CacheRestoresBinding'
  BY <1>8 DEF EntriesAreLive, Live, ToldIsBound, Told, CacheRestoresBinding
<1>11. StartHasSession'
  <2>1. start' \in [Wrappers -> {"none", "sent", "bound", "answered", "lost"}]
    BY <1>1 DEF StartHasSession
  <2> QED BY <1>1, <2>1 DEF StartHasSession
<1>10. NewestIsRegistered' BY <1>1 DEF NewestIsRegistered
<1> QED BY <1>4, <1>5, <1>6, <1>7, <1>8, <1>9, <1>10, <1>11

-----------------------------------------------------------------------------
\* Every step keeps the invariant, and leaves a wrapper that stays registered
\* bound to the session Claude runs if it was.
LEMMA RegistrySteps ==
  ASSUME RegistryInv, [Next]_vars
  PROVE  /\ RegistryInv'
         /\ \A w \in Wrappers :
              entry[w].session = runs[w] /\ runs'[w] = runs[w] /\ entry'[w].conn # 0
                => entry'[w].session = runs[w]
<1> DEFINE Kept == \A w \in Wrappers :
                     entry[w].session = runs[w] /\ runs'[w] = runs[w] /\ entry'[w].conn # 0
                       => entry'[w].session = runs[w]
<1>1. ASSUME UNCHANGED registry, UNCHANGED start PROVE RegistryInv' /\ Kept
  <2>1. StartHasSession' BY <1>1 DEF RegistryInv, StartHasSession, registry
  <2> QED BY <1>1, <2>1, ActiveIsApart DEF registry
<1>2. ASSUME entry' = entry PROVE Kept BY <1>2
<1>3. ASSUME NEW j \in Setters, LookUp(j) \/ Promote(j) PROVE RegistryInv' /\ Kept
  BY <1>1, <1>3 DEF LookUp, Promote, registry, wireVars, clientVars, claudeVars
<1>4. ASSUME NEW w \in Wrappers, Client(w) PROVE RegistryInv' /\ Kept
  <2>1. CASE Connect(w) BY <1>2, <2>1, ConnectKeeps DEF Connect
  <2>2. CASE Send(w) BY <1>2, <2>2, SendKeeps DEF Send, registryVars
  <2>3. CASE Receive(w) BY <1>2, <2>3, ReceiveKeeps DEF Receive, registryVars
  <2> QED BY <1>4, <2>1, <2>2, <2>3 DEF Client
<1>5. ASSUME NEW w \in Wrappers, Report(w) PROVE RegistryInv' /\ Kept
  BY <1>1, <1>5 DEF Report, registry, registryVars, wireVars, claudeVars
<1>6. ASSUME NEW w \in Wrappers, Drop(w) PROVE RegistryInv' /\ Kept
  BY <1>2, <1>6, DropKeeps DEF Drop, registryVars
<1>7. ASSUME NEW w \in Wrappers, NewSession(w) PROVE RegistryInv' /\ Kept
  BY <1>2, <1>7, NewSessionKeeps DEF NewSession
<1>8. ASSUME NEW w \in Wrappers, Hook(w) PROVE RegistryInv' /\ Kept
  <2>1. CASE RegisterSession(w) BY <2>1, RegisterSessionKeeps
  <2>2. CASE StartPromotes(w)
    <3>1. UNCHANGED registry /\ start' = [start EXCEPT ![w] = "answered"]
      BY <2>2 DEF StartPromotes, registry, wireVars, clientVars
    <3>2. StartHasSession' BY <3>1 DEF RegistryInv, StartHasSession, registry
    <3> QED BY <1>2, <3>1, <3>2, ActiveIsApart DEF registry
  <2> QED BY <1>8, <2>1, <2>2 DEF Hook
<1>9. ASSUME NEW c \in Conns, Task(c) PROVE RegistryInv' /\ Kept
  <2>1. CASE Accept(c) BY <2>1, AcceptKeeps
  <2>2. CASE Read(c) BY <1>2, <2>2, ReadKeeps DEF Read
  <2>3. CASE LookUp(c) \/ Promote(c) BY <1>3, <2>3 DEF Setters
  <2>4. CASE Close(c)
    <3>1. \A w \in Wrappers : entry'[w] = entry[w] \/ entry'[w].conn = 0
      BY <2>4 DEF Close, Absent, RegistryInv, RegistryTypes
    <3> QED BY <2>4, <3>1, CloseKeeps
  <2> QED BY <1>9, <2>1, <2>2, <2>3, <2>4 DEF Task
<1>10. ASSUME (\E step \in {1, -1} : Turn(step)) \/ Swap \/ FromActive \/ Choose \/ Find
       PROVE  RegistryInv' /\ Kept
  BY <1>1, <1>10 DEF Turn, Swap, FromActive, Choose, Find, registry, wireVars, clientVars,
    claudeVars
<1>11. ASSUME LookUp(Knob) \/ Promote(Knob) PROVE RegistryInv' /\ Kept
  BY <1>3, <1>11 DEF Setters
<1>12. ASSUME Restart PROVE RegistryInv' /\ Kept BY <1>12, RestartKeeps
<1>13. ASSUME UNCHANGED vars PROVE RegistryInv' /\ Kept
  BY <1>1, <1>13 DEF vars, registry, registryVars, wireVars, clientVars, claudeVars
<1> QED BY <1>4, <1>5, <1>6, <1>7, <1>8, <1>9, <1>10, <1>11, <1>12, <1>13 DEF Next, Loop

\* The invariant holds always.
LEMMA RegistryIsCoherent == Spec => []RegistryInv
<1>1. Init => RegistryInv BY RegistryStarts
<1>2. RegistryInv /\ [Next]_vars => RegistryInv' BY RegistrySteps
<1> QED BY <1>1, <1>2, PTL DEF Spec

\* The registry has every wrapper under the newest of its connections that is
\* served: the end of an older one never takes a live wrapper away.
THEOREM RegistryFollowsTheNewest == Spec => []NewestIsRegistered
<1>1. RegistryInv => NewestIsRegistered BY DEF RegistryInv
<1> QED BY <1>1, RegistryIsCoherent, PTL

\* A registered wrapper that was told of the session its Claude runs is bound to
\* it, through flaps of the connection and restarts of the daemon.
THEOREM BindingSurvives == Spec => []CacheRestoresBinding
<1>1. RegistryInv => CacheRestoresBinding BY DEF RegistryInv
<1> QED BY <1>1, RegistryIsCoherent, PTL

\* No reconnect replaces the session Claude runs by one the wrapper remembers.
THEOREM RebindingIsStable == Spec => ReconnectKeepsSession
<1>1. RegistryInv /\ [Next]_vars =>
        [\A w \in Wrappers :
           entry[w].session = runs[w] /\ runs'[w] = runs[w] /\ entry'[w].conn # 0
             => entry'[w].session = runs[w]]_vars
  BY RegistrySteps
<1> QED BY <1>1, RegistryIsCoherent, PTL DEF Spec, ReconnectKeepsSession

-----------------------------------------------------------------------------
\* Finite orders: what comes first, in the list of recent sessions and among the
\* wrappers.

\* A finite set with a strict order has an element nothing stands before.
LEMMA FirstExists ==
  ASSUME NEW S, IsFiniteSet(S), S # {}, NEW R,
         \A x \in S : <<x, x>> \notin R,
         \A x, y, z \in S : <<x, y>> \in R /\ <<y, z>> \in R => <<x, z>> \in R
  PROVE  \E x \in S : \A y \in S : <<y, x>> \notin R
<1> DEFINE Before(x) == {y \in S : <<y, x>> \in R}
           T         == {Before(x) : x \in S}
<1>1. T \subseteq FiniteSubsetsOf(S) /\ T # {}
  <2>1. T \subseteq SUBSET S OBVIOUS
  <2>2. \E x \in S : Before(x) \in T OBVIOUS
  <2>3. T # {} BY <2>2
  <2> HIDE DEF T
  <2> QED BY <2>1, <2>3, FS_FiniteSubsetsOfFinite
<1>2. IsWellFoundedOn(StrictSubsetOrdering(S), FiniteSubsetsOf(S))
  BY FS_StrictSubsetOrderingWellFounded
<1>3. PICK U \in T : \A V \in T : <<V, U>> \notin StrictSubsetOrdering(S)
  <2> HIDE DEF T
  <2> QED BY <1>1, <1>2, WFMin
<1>4. PICK x \in S : U = Before(x) BY <1>3
<1>5. ASSUME NEW y \in S, <<y, x>> \in R PROVE FALSE
  <2>1. Before(y) \subseteq Before(x) /\ y \in Before(x) /\ y \notin Before(y) BY <1>5
  <2>2. <<Before(y), Before(x)>> \in StrictSubsetOrdering(S)
    BY <2>1 DEF StrictSubsetOrdering
  <2> QED BY <1>3, <1>4, <2>2
<1> QED BY <1>5

LEMMA LeastAndGreatest ==
  ASSUME NEW S \in SUBSET Nat, IsFiniteSet(S), S # {}
  PROVE  /\ Min(S) \in S /\ \A y \in S : Min(S) <= y
         /\ Max(S) \in S /\ \A y \in S : Max(S) >= y
<1>1. \E x \in S : \A y \in S : x <= y
  <2> DEFINE R == {p \in S \X S : p[1] < p[2]}
  <2>0. \A x, y \in S : <<x, y>> \in R <=> x < y OBVIOUS
  <2> HIDE DEF R
  <2>1. \E x \in S : \A y \in S : <<y, x>> \notin R
    <3>1. \A x \in S : <<x, x>> \notin R BY <2>0
    <3>2. \A x, y, z \in S : <<x, y>> \in R /\ <<y, z>> \in R => <<x, z>> \in R BY <2>0
    <3> QED BY <3>1, <3>2, FirstExists
  <2>2. PICK x \in S : \A y \in S : <<y, x>> \notin R BY <2>1
  <2>3. ASSUME NEW y \in S PROVE x <= y
    <3>1. ~(y < x) BY <2>0, <2>2
    <3> QED BY <3>1
  <2> QED BY <2>3
<1>2. \E x \in S : \A y \in S : x >= y
  <2> DEFINE R == {p \in S \X S : p[1] > p[2]}
  <2>0. \A x, y \in S : <<x, y>> \in R <=> x > y OBVIOUS
  <2> HIDE DEF R
  <2>1. \E x \in S : \A y \in S : <<y, x>> \notin R
    <3>1. \A x \in S : <<x, x>> \notin R BY <2>0
    <3>2. \A x, y, z \in S : <<x, y>> \in R /\ <<y, z>> \in R => <<x, z>> \in R BY <2>0
    <3> QED BY <3>1, <3>2, FirstExists
  <2>2. PICK x \in S : \A y \in S : <<y, x>> \notin R BY <2>1
  <2>3. ASSUME NEW y \in S PROVE x >= y
    <3>1. ~(y > x) BY <2>0, <2>2
    <3> QED BY <3>1
  <2> QED BY <2>3
<1> QED BY <1>1, <1>2 DEF Min, Max

\* A deque that is not empty has one front.
LEMMA FrontExists ==
  ASSUME NEW q, IsDeque(q), IsFiniteSet(q.in), q.in # {}
  PROVE  \E x \in q.in : IsFront(q, x)
  BY FirstExists DEF IsDeque, IsFront

LEMMA FrontIsOne ==
  ASSUME NEW q, IsDeque(q), NEW x, IsFront(q, x), NEW y, IsFront(q, y)
  PROVE  x = y
  BY DEF IsDeque, IsFront

LEMMA WithoutRight ==
  ASSUME NEW q, IsDeque(q), NEW S
  PROVE  /\ IsDeque(Without(q, S)) /\ Without(q, S).in = q.in \ S
         /\ \A x \in q.in \ S : IsFront(q, x) => IsFront(Without(q, S), x)
  BY DEF IsDeque, Without, IsFront

LEMMA PushFrontRight ==
  ASSUME NEW q, IsDeque(q), NEW s, s \notin q.in
  PROVE  /\ IsDeque(PushFront(q, s)) /\ PushFront(q, s).in = q.in \cup {s}
         /\ IsFront(PushFront(q, s), s)
         /\ \A x, y \in q.in : <<x, y>> \in PushFront(q, s).ahead <=> <<x, y>> \in q.ahead
<1>1. q.ahead \subseteq q.in \X q.in BY DEF IsDeque
<1>2. /\ PushFront(q, s).in = q.in \cup {s}
      /\ \A x, y : <<x, y>> \in PushFront(q, s).ahead <=>
                     <<x, y>> \in q.ahead \/ (x = s /\ y \in q.in)
  BY DEF PushFront
<1>3. PushFront(q, s).ahead \subseteq PushFront(q, s).in \X PushFront(q, s).in
  BY <1>1 DEF PushFront
<1> HIDE DEF PushFront
<1> QED BY <1>1, <1>2, <1>3 DEF IsDeque, IsFront

\* Recalled: s comes first, and no more stay than the cap allows, as each has fewer
\* before it and no two have as many.
LEMMA RecalledRight ==
  ASSUME NEW q, IsDeque(q), IsFiniteSet(q.in), NEW s
  PROVE  LET r == Recalled(q, s) IN
         /\ IsDeque(r) /\ r.in \subseteq q.in \cup {s} /\ IsFront(r, s)
         /\ IsFiniteSet(r.in) /\ Cardinality(r.in) <= RecentMax
<1>0. RecentMax \in Nat /\ RecentMax >= 2 BY WrappersAssumption
<1> DEFINE others   == Without(q, {s})
           all      == PushFront(others, s)
           Ahead(t) == {u \in all.in : <<u, t>> \in all.ahead}
           dropped  == {t \in all.in : Cardinality(Ahead(t)) >= RecentMax}
           r        == Without(all, dropped)
<1>1. IsDeque(others) /\ others.in = q.in \ {s} BY WithoutRight
<1>2. IsDeque(all) /\ all.in = others.in \cup {s} /\ IsFront(all, s) BY <1>1, PushFrontRight
<1>3. IsFiniteSet(all.in) BY <1>1, <1>2, FS_Difference, FS_AddElement
<1> HIDE DEF others, all
<1>4. \A t \in all.in : IsFiniteSet(Ahead(t)) /\ Cardinality(Ahead(t)) \in Nat
  BY <1>3, FS_Subset, FS_CardinalityType
<1>5. s \notin dropped
  <2>1. Ahead(s) = {} BY <1>2 DEF IsFront
  <2>2. Cardinality(Ahead(s)) = 0 BY <2>1, FS_EmptySet
  <2> QED BY <1>0, <2>2
<1>6. IsDeque(r) /\ r.in = all.in \ dropped /\ IsFront(r, s)
  BY <1>2, <1>5, WithoutRight DEF IsFront
<1>7. IsFiniteSet(r.in)
  <2> HIDE DEF dropped, r
  <2> QED BY <1>3, <1>6, FS_Difference
<1>8. Cardinality(r.in) <= RecentMax
  <2> DEFINE f == [t \in r.in |-> Cardinality(Ahead(t))]
             T == 0 .. (RecentMax - 1)
  <2>1. \A t \in r.in : f[t] \in T
    <3>1. \A t \in r.in : t \in all.in /\ ~(Cardinality(Ahead(t)) >= RecentMax) BY <1>6
    <3>2. \A t \in r.in : f[t] = Cardinality(Ahead(t)) OBVIOUS
    <3> HIDE DEF f, r, Ahead
    <3> QED BY <1>0, <1>4, <3>1, <3>2
  <2>2. ASSUME NEW x \in r.in, NEW y \in r.in, <<x, y>> \in all.ahead PROVE f[x] # f[y]
    <3>1. x \in all.in /\ y \in all.in BY <1>6
    <3>2. Ahead(x) \subseteq Ahead(y) /\ x \in Ahead(y) /\ x \notin Ahead(x)
      BY <1>2, <2>2, <3>1 DEF IsDeque
    <3>3. Cardinality(Ahead(x)) # Cardinality(Ahead(y))
      <4> HIDE DEF Ahead
      <4> QED BY <1>4, <3>1, <3>2, FS_Subset
    <3> QED BY <3>3
  <2>3. f \in Injection(r.in, T)
    <3>1. ASSUME NEW x \in r.in, NEW y \in r.in, x # y PROVE f[x] # f[y]
      <4>1. <<x, y>> \in all.ahead \/ <<y, x>> \in all.ahead BY <1>2, <1>6, <3>1 DEF IsDeque
      <4> QED BY <2>2, <4>1
    <3>2. f \in [r.in -> T] BY <2>1
    <3> HIDE DEF f
    <3> QED BY <3>1, <3>2 DEF Injection, IsInjective
  <2>4. IsFiniteSet(T) /\ Cardinality(T) = RecentMax BY <1>0, FS_Interval
  <2> HIDE DEF f, T, r
  <2> QED BY <2>3, <2>4, FS_Injection
<1>9. Recalled(q, s) = r BY DEF Recalled, others, all
<1> HIDE DEF r
<1> QED BY <1>1, <1>2, <1>6, <1>7, <1>8, <1>9

-----------------------------------------------------------------------------
\* The active session, the jobs that change it, and the sessions they name.
ActiveRight ==
  /\ \A w \in Wrappers : entry[w].session \in Past(w) \cup {None}
  /\ \A w \in Wrappers : start[w] \in {"sent", "bound"} => runs[w] # None
  /\ active # None => IsFront(recent, active)

LEMMA ActiveStarts == Init => TypeOK /\ ActiveRight
<1> SUFFICES ASSUME Init PROVE TypeOK /\ ActiveRight OBVIOUS
<1>1. MaxConns \in Nat /\ MaxCrashes \in Nat /\ MaxMoves \in Nat /\ RecentMax \in Nat
  BY WrappersAssumption
<1>2. IsDeque(EmptyDeque) /\ EmptyDeque.in = {} BY DEF IsDeque, EmptyDeque
<1>3. Cardinality(EmptyDeque.in) <= RecentMax BY <1>1, <1>2, FS_EmptySet
<1>4. [w \in Wrappers |-> <<>>] \in [Wrappers -> Seq(BOOLEAN)] BY EmptySeq
<1> QED BY <1>1, <1>2, <1>3, <1>4 DEF Init, TypeOK, ActiveRight, Absent, Jobs

\* A run has finitely many sessions, and None is no session.
LEMMA SessionsRight ==
  IsFiniteSet(Sessions) /\ Sessions \subseteq Nat \X Nat /\ None \notin Sessions
<1> DEFINE I == 1 .. MaxStarts
<1>1. MaxStarts \in Int /\ Wrappers \subseteq Nat /\ IsFiniteSet(Wrappers) /\ None \notin Nat \X Nat
  BY WrappersAssumption
<1>2. IsFiniteSet(I) BY <1>1, FS_Interval
<1>3. I \subseteq Nat BY <1>1
<1>4. Sessions = Wrappers \X I BY DEF Sessions
<1> HIDE DEF I
<1>5. Sessions \subseteq Nat \X Nat BY <1>1, <1>3, <1>4
<1>6. IsFiniteSet(Wrappers \X I) BY <1>1, <1>2, FS_Product
<1> QED BY <1>1, <1>4, <1>5, <1>6

\* The sessions of a wrapper so far are sessions; those of two wrappers differ.
LEMMA PastIsSessions ==
  ASSUME OnlyPast, runs \in [Wrappers -> Sessions \cup {None}], NEW w \in Wrappers
  PROVE  /\ Past(w) \subseteq Sessions /\ None \notin Sessions
         /\ \A s \in Past(w) : s[1] = w
<1>1. None \notin Sessions /\ MaxStarts \in Nat BY SessionsRight, WrappersAssumption
<1>2. CASE runs[w] = None BY <1>1, <1>2 DEF Past
<1>3. CASE runs[w] # None
  <2>1. runs[w] \in Sessions BY <1>3
  <2>2. runs[w][2] \in 1 .. MaxStarts BY <2>1 DEF Sessions
  <2> QED BY <1>1, <1>3, <2>2 DEF Past, Sessions
<1> QED BY <1>2, <1>3

\* A step's types follow from those the registry has, the sessions Claude runs and
\* the rest.
RunsTypes == runs \in [Wrappers -> Sessions \cup {None}]
RestTypes ==
  /\ entry \in [Wrappers -> [conn : 0 .. MaxConns, session : Sessions \cup {None}]]
  /\ phase \in [Conns -> {"unused", "new", "open", "gone"}]
  /\ link \in [Wrappers -> 0 .. MaxConns]
  /\ cache \in [Wrappers -> Sessions \cup {None}]
  /\ start \in [Wrappers -> {"none", "sent", "bound", "answered", "lost"}]

LEMMA TypesFollow == RegistryInv /\ ActiveRight /\ RunsTypes => RestTypes
<1> SUFFICES ASSUME RegistryInv, ActiveRight, RunsTypes PROVE RestTypes OBVIOUS
<1>1. \A w \in Wrappers : Past(w) \subseteq Sessions BY PastIsSessions DEF RegistryInv, RunsTypes
<1>2. \A w \in Wrappers : /\ entry[w].session \in Sessions \cup {None}
                          /\ cache[w] \in Sessions \cup {None}
  BY <1>1 DEF RegistryInv, OnlyPast, ActiveRight
<1> QED BY <1>2 DEF RegistryInv, RegistryTypes, StartHasSession, RestTypes

\* Claude's sessions stay within the bound of the run, as those of the wrapper have
\* all started.
LEMMA RunsTyped ==
  ASSUME RegistryInv, TypeOK, [Next]_vars
  PROVE  runs' \in [Wrappers -> Sessions \cup {None}]
<1>1. CASE runs' = runs BY <1>1 DEF TypeOK
<1>2. ASSUME NEW w \in Wrappers, NewSession(w) PROVE runs' \in [Wrappers -> Sessions \cup {None}]
  <2> DEFINE n       == IF runs[w] = None THEN 1 ELSE runs[w][2] + 1
             started == {s \in Sessions : Started(s)}
  <2>0. MaxStarts \in Nat /\ IsFiniteSet(Wrappers) BY WrappersAssumption
  <2>1. Cardinality(started) < MaxStarts /\ runs' = [runs EXCEPT ![w] = <<w, n>>]
    BY <1>2 DEF NewSession
  <2>2. IsFiniteSet(started) /\ Cardinality(started) \in Nat
    <3>1. IsFiniteSet(Sessions) BY SessionsRight
    <3> QED BY <3>1, FS_Subset, FS_CardinalityType
  <2>3. n \in 1 .. MaxStarts
    <3>1. CASE runs[w] = None BY <2>0, <2>1, <2>2, <3>1
    <3>2. CASE runs[w] # None
      <4> DEFINE m == runs[w][2]
                 f == [i \in 1 .. m |-> <<w, i>>]
      <4>1. m \in 1 .. MaxStarts BY <3>2 DEF TypeOK, Sessions
      <4>2. \A i \in 1 .. m : <<w, i>> \in started BY <2>0, <3>2, <4>1 DEF Sessions, Started
      <4>3. f \in Injection(1 .. m, started) BY <4>2 DEF Injection, IsInjective
      <4>4. Cardinality(1 .. m) <= Cardinality(started)
        <5> HIDE DEF f, started
        <5> QED BY <2>2, <4>3, FS_Injection
      <4>5. Cardinality(1 .. m) = m
        <5>1. m \in Int /\ m >= 1 BY <2>0, <4>1
        <5> HIDE DEF m
        <5>2. Cardinality(1 .. m) = m - 1 + 1 BY <5>1, FS_Interval
        <5> QED BY <5>1, <5>2
      <4> QED BY <2>0, <2>1, <2>2, <3>2, <4>1, <4>4, <4>5
    <3> QED BY <3>1, <3>2
  <2>4. <<w, n>> \in Sessions BY <2>3 DEF Sessions
  <2> QED BY <2>1, <2>4 DEF TypeOK
<1> QED BY <1>1, <1>2
  DEF Next, vars, claudeVars, Client, Connect, Send, Receive, Report, Drop, Hook, RegisterSession,
      StartPromotes, Task, Accept, Read, LookUp, Promote, Close, Turn, Swap, Loop, FromActive,
      Choose, Find, Restart

\* An entry is bound to a session its wrapper has had.
LEMMA EntriesPast ==
  ASSUME RegistryInv, ActiveRight, [Next]_vars, NEW w \in Wrappers
  PROVE  entry'[w].session \in Past(w)' \cup {None}
<1>1. CASE entry'[w] = entry[w] /\ runs' = runs BY <1>1 DEF ActiveRight, Past
<1>2. ASSUME NEW v \in Wrappers, NewSession(v) PROVE entry'[w].session \in Past(w)' \cup {None}
  <2>1. Past(w) \subseteq Past(w)'
    <3>1. CASE v = w
      <4>1. runs'[w] = <<w, IF runs[w] = None THEN 1 ELSE runs[w][2] + 1>>
        BY <1>2, <3>1 DEF NewSession, RegistryInv, RegistryTypes
      <4> QED BY <4>1, WrappersAssumption DEF Past, RegistryInv, RegistryTypes
    <3>2. CASE v # w
      <4>1. runs'[w] = runs[w] BY <1>2, <3>2 DEF NewSession, RegistryInv, RegistryTypes
      <4> QED BY <4>1 DEF Past
    <3> QED BY <3>1, <3>2
  <2>2. entry' = entry BY <1>2 DEF NewSession
  <2> QED BY <2>1, <2>2 DEF ActiveRight
<1>3. ASSUME NEW c \in Conns, Accept(c) PROVE entry'[w].session \in Past(w)' \cup {None}
  <2>1. PICK v \in Wrappers, n \in 1 .. MaxConns : c = <<v, n>> BY DEF Conns
  <2>2. CASE v # w
    <3>1. entry'[w] = entry[w] /\ runs' = runs
      BY <1>3, <2>1, <2>2 DEF Accept, claudeVars, RegistryInv, RegistryTypes
    <3> QED BY <1>1, <3>1
  <2>3. CASE v = w
    <3>1. entry'[w].session = Adopted(c, w) /\ runs' = runs
      BY <1>3, <2>1, <2>3 DEF Accept, claudeVars, RegistryInv, RegistryTypes
    <3>2. Head(up[c]).session = cache[w]
      BY <1>3, <2>1, <2>3 DEF Accept, RegistryInv, RegisterComesFirst, FirstOf
    <3>3. Adopted(c, w) \in Past(w) \cup {None}
      BY <3>2 DEF Adopted, ActiveRight, RegistryInv, OnlyPast
    <3> QED BY <3>1, <3>3 DEF Past
  <2> QED BY <2>2, <2>3
<1>4. ASSUME NEW v \in Wrappers, RegisterSession(v)
      PROVE  entry'[w].session \in Past(w)' \cup {None}
  <2>1. entry'[w].session \in {entry[w].session, runs[w]} /\ runs' = runs
    <3>1. runs' = runs /\ entry \in [Wrappers -> [conn : 0 .. MaxConns,
                                                  session : (Nat \X Nat) \cup {None}]]
      BY <1>4 DEF RegisterSession, RegistryInv, RegistryTypes
    <3>2. CASE entry[v].conn = 0 BY <1>4, <3>1, <3>2 DEF RegisterSession
    <3>3. CASE entry[v].conn # 0
      <4>1. entry' = [entry EXCEPT ![v].session = runs[v]] BY <1>4, <3>3 DEF RegisterSession
      <4>2. CASE v = w BY <3>1, <4>1, <4>2
      <4>3. CASE v # w BY <3>1, <4>1, <4>3
      <4> QED BY <4>2, <4>3
    <3> QED BY <3>1, <3>2, <3>3
  <2> QED BY <2>1 DEF ActiveRight, RegistryInv, OnlyPast, Past
<1>5. ASSUME NEW c \in Conns, Close(c) PROVE entry'[w].session \in Past(w)' \cup {None}
  <2>1. (entry'[w] = entry[w] \/ entry'[w] = Absent) /\ runs' = runs
    BY <1>5 DEF Close, claudeVars, RegistryInv, RegistryTypes
  <2> QED BY <1>1, <2>1 DEF Absent
<1>6. CASE Restart BY <1>6 DEF Restart, Absent
<1> QED BY <1>1, <1>2, <1>3, <1>4, <1>5, <1>6
  DEF Next, vars, claudeVars, registryVars, Client, Connect, Send, Receive, Report, Drop, Hook,
      StartPromotes, Task, Read, LookUp, Promote, Turn, Swap, Loop, FromActive, Choose, Find

\* A SessionStart call that waits or is to promote is about a session.
LEMMA StartsRight ==
  ASSUME RegistryInv, RegistryInv', ActiveRight, [Next]_vars, NEW w \in Wrappers,
         start'[w] \in {"sent", "bound"}
  PROVE  runs'[w] # None
<1>0. start' \in [Wrappers -> {"none", "sent", "bound", "answered", "lost"}]
  BY DEF RegistryInv, StartHasSession
<1>1. CASE start'[w] = "sent" BY <1>1 DEF RegistryInv, StartHasSession
<1>2. CASE start'[w] = "bound"
  <2>1. start[w] \in {"sent", "bound"} /\ runs'[w] = runs[w]
    <3>1. CASE start' = start /\ runs' = runs BY <1>2, <3>1
    <3>2. ASSUME NEW v \in Wrappers, NewSession(v)
          PROVE  start[w] \in {"sent", "bound"} /\ runs'[w] = runs[w]
      BY <1>2, <3>2 DEF NewSession, RegistryInv, RegistryTypes, StartHasSession
    <3>3. ASSUME NEW v \in Wrappers, RegisterSession(v) \/ StartPromotes(v)
          PROVE  start[w] \in {"sent", "bound"} /\ runs'[w] = runs[w]
      BY <1>2, <3>3 DEF RegisterSession, StartPromotes, RegistryInv, StartHasSession
    <3>4. ~Restart BY <1>2 DEF Restart, RegistryInv, StartHasSession
    <3> QED BY <3>1, <3>2, <3>3, <3>4
      DEF Next, vars, claudeVars, Client, Connect, Send, Receive, Report, Drop, Hook, Task, Accept,
          Read, LookUp, Promote, Close, Turn, Swap, Loop, FromActive, Choose, Find
  <2> QED BY <2>1 DEF ActiveRight
<1> QED BY <1>0, <1>1, <1>2

\* What changes the list of recent sessions.
LEMMA RecentSteps ==
  ASSUME TypeOK, ActiveRight, [Next]_vars
  PROVE  \/ UNCHANGED <<active, recent>>
         \/ \E s \in Sessions : SetActive(s)
         \/ \E s : EndedAndPruned(s)
         \/ active' = None /\ recent' = EmptyDeque
<1>1. ASSUME NEW j \in Setters, Promote(j) PROVE \E s \in Sessions : SetActive(s)
  <2>1. job[j] \in Jobs /\ job[j].pc = "set" BY <1>1 DEF Promote, TypeOK
  <2>2. job[j].to \in Sessions BY <2>1 DEF Jobs, Idle
  <2> QED BY <1>1, <2>2 DEF Promote
<1>2. ASSUME NEW w \in Wrappers, StartPromotes(w) PROVE \E s \in Sessions : SetActive(s)
  <2>1. runs[w] \in Sessions BY <1>2 DEF StartPromotes, TypeOK, ActiveRight
  <2> QED BY <1>2, <2>1 DEF StartPromotes
<1>3. ASSUME NEW w \in Wrappers, NewSession(w) PROVE \E s : EndedAndPruned(s)
  BY <1>3 DEF NewSession
<1>4. CASE Restart BY <1>4 DEF Restart
<1>5. Knob \in Setters /\ Conns \subseteq Setters BY DEF Setters
<1> QED BY <1>1, <1>2, <1>3, <1>4, <1>5
  DEF Next, vars, registryVars, Client, Connect, Send, Receive, Report, Drop, Hook,
      RegisterSession, Task, Accept, Read, LookUp, Close, Turn, Swap, Loop, FromActive, Choose, Find

\* The list stays in order and within its cap, with the active session in front.
LEMMA RecentRight ==
  ASSUME TypeOK, ActiveRight, [Next]_vars
  PROVE  /\ active' \in Sessions \cup {None}
         /\ IsDeque(recent') /\ recent'.in \subseteq Sessions
         /\ Cardinality(recent'.in) <= RecentMax
         /\ active' # None => IsFront(recent', active')
<1>0. RecentMax \in Nat /\ MaxStarts \in Nat /\ IsFiniteSet(Wrappers) BY WrappersAssumption
<1>1. IsFiniteSet(recent.in)
  <2> QED BY SessionsRight, FS_Subset DEF TypeOK
<1>2. CASE UNCHANGED <<active, recent>> BY <1>2 DEF TypeOK, ActiveRight
<1>3. ASSUME NEW s \in Sessions, SetActive(s)
      PROVE  /\ active' = s /\ IsDeque(recent') /\ recent'.in \subseteq Sessions
             /\ Cardinality(recent'.in) <= RecentMax /\ IsFront(recent', s)
  BY <1>1, <1>3, RecalledRight DEF TypeOK, SetActive
<1>4. ASSUME NEW s, EndedAndPruned(s)
      PROVE  /\ active' \in Sessions \cup {None} /\ IsDeque(recent')
             /\ recent'.in \subseteq Sessions /\ Cardinality(recent'.in) <= RecentMax
             /\ active' # None => IsFront(recent', active')
  <2>1. /\ IsDeque(recent') /\ recent'.in = recent.in \ {s}
        /\ \A x \in recent.in \ {s} : IsFront(recent, x) => IsFront(recent', x)
    BY <1>4, WithoutRight DEF EndedAndPruned, TypeOK
  <2>2. Cardinality(recent'.in) <= Cardinality(recent.in) /\ Cardinality(recent'.in) \in Nat
        /\ Cardinality(recent.in) \in Nat
    BY <1>1, <2>1, FS_Subset, FS_CardinalityType
  <2>3. active' # None => active' = active /\ active # s BY <1>4 DEF EndedAndPruned
  <2>4. active' # None => active \in recent.in \ {s} /\ IsFront(recent, active)
    BY <2>3 DEF ActiveRight, IsFront
  <2>5. active' \in Sessions \cup {None} BY <1>4 DEF EndedAndPruned, TypeOK
  <2> QED BY <1>0, <2>1, <2>2, <2>3, <2>4, <2>5 DEF TypeOK
<1>5. CASE active' = None /\ recent' = EmptyDeque
  BY <1>0, <1>5, FS_EmptySet DEF EmptyDeque, IsDeque
<1> QED BY <1>2, <1>3, <1>4, <1>5, RecentSteps

-----------------------------------------------------------------------------
\* What the knob and the double tap aim at.

\* The next wrapper is one of those listed.
LEMMA NeighbourRight ==
  ASSUME NEW cands \in SUBSET Wrappers, cands # {}, NEW s, NEW step \in {1, -1}
  PROVE  Neighbour(cands, s, step) \in cands
<1> DEFINE next == Beyond(cands, Position(cands, s), step)
           from == IF next = {} THEN cands ELSE next
<1>1. IsFiniteSet(cands) /\ cands \subseteq Nat BY WrappersAssumption, FS_Subset
<1>2. next \subseteq cands BY DEF Beyond
<1>3. from \subseteq cands /\ from # {} BY <1>2
<1>4. IsFiniteSet(from) BY <1>1, <1>3, FS_Subset
<1>5. Neighbour(cands, s, step) = EndMost(from, step) BY DEF Neighbour
<1> HIDE DEF from
<1>6. Min(from) \in from /\ Max(from) \in from BY <1>1, <1>3, <1>4, LeastAndGreatest
<1> QED BY <1>3, <1>5, <1>6 DEF EndMost

\* The session before is a recent one, other than the active one, with a wrapper.
LEMMA PreviousRight ==
  ASSUME NEW q, IsDeque(q), q.in \subseteq Sessions, NEW now, PreviousOf(now, q) # None
  PROVE  /\ PreviousOf(now, q) \in q.in /\ PreviousOf(now, q) # now
         /\ Bound(PreviousOf(now, q)) # {}
<1> DEFINE dead == {t \in q.in : t = now \/ Bound(t) = {}}
           live == Without(q, dead)
<1>1. IsDeque(live) /\ live.in = q.in \ dead BY WithoutRight
<1>2. IsFiniteSet(live.in)
  <2>1. live.in \subseteq Sessions BY <1>1
  <2> HIDE DEF live
  <2> QED BY <2>1, SessionsRight, FS_Subset
<1>3. live.in # {} /\ PreviousOf(now, q) = CHOOSE t \in live.in : IsFront(live, t)
  BY DEF PreviousOf
<1> HIDE DEF live
<1>4. \E t \in live.in : IsFront(live, t) BY <1>1, <1>2, <1>3, FrontExists
<1>5. PreviousOf(now, q) \in live.in BY <1>3, <1>4
<1> QED BY <1>1, <1>5

\* Jobs name sessions and wrappers.
LEMMA JobsFollow ==
  ASSUME TypeOK, [Next]_vars
  PROVE  job' \in [Setters -> Jobs]
<1>0. Knob \in Setters /\ Conns \subseteq Setters /\ job \in [Setters -> Jobs]
  BY DEF Setters, TypeOK
<1>1. Idle \in Jobs BY DEF Jobs
<1>2. ASSUME NEW j \in Setters, NEW r \in Jobs, job' = [job EXCEPT ![j] = r]
      PROVE  job' \in [Setters -> Jobs]
  BY <1>0, <1>2
<1>3. \A w \in Wrappers : [pc |-> "look", to |-> w] \in Jobs BY DEF Jobs
<1>4. ASSUME NEW s \in Sessions \cup {None} PROVE Found(s) \in Jobs BY <1>1 DEF Found, Jobs
<1>5. ASSUME NEW j \in Setters, LookUp(j) PROVE job' \in [Setters -> Jobs]
  <2>1. job[j] \in Jobs /\ job[j].pc = "look" BY <1>0, <1>5 DEF LookUp
  <2>2. job[j].to \in Wrappers BY <2>1 DEF Jobs, Idle
  <2>3. entry[job[j].to].session \in Sessions \cup {None} BY <2>2 DEF TypeOK
  <2> QED BY <1>2, <1>4, <1>5, <2>3 DEF LookUp
<1>6. ASSUME NEW j \in Setters, Promote(j) PROVE job' \in [Setters -> Jobs]
  BY <1>1, <1>2, <1>6 DEF Promote
<1>7. ASSUME NEW step \in {1, -1}, Turn(step) PROVE job' \in [Setters -> Jobs]
  <2> DEFINE r == [pc |-> "turn", to |-> [cands |-> Cands, step |-> step]]
  <2>1. Cands \subseteq Wrappers /\ Cands # {}
    <3>1. Cardinality(Cands) >= 2 BY <1>7 DEF Turn
    <3>2. Cands # {} BY <3>1, FS_EmptySet
    <3> QED BY <3>2 DEF Cands
  <2>2. r \in Jobs
    <3>1. [cands |-> Cands, step |-> step] \in [cands : (SUBSET Wrappers) \ {{}}, step : {1, -1}]
      BY <2>1
    <3> QED BY <3>1 DEF Jobs
  <2>3. job' = [job EXCEPT ![Knob] = r] BY <1>7 DEF Turn
  <2> HIDE DEF r
  <2> QED BY <1>0, <1>2, <2>2, <2>3
<1>8. CASE Choose
  <2> DEFINE to == job[Knob].to
             w  == Neighbour(to.cands, to.from, to.step)
  <2>1. job[Knob] \in Jobs /\ job[Knob].pc = "from" BY <1>0, <1>8 DEF Choose
  <2>2. to.cands \in SUBSET Wrappers /\ to.cands # {} /\ to.step \in {1, -1}
    <3>1. job[Knob] \in [pc : {"from"},
                         to : [cands : (SUBSET Wrappers) \ {{}}, step : {1, -1},
                               from : Sessions \cup {None}]]
      BY <2>1 DEF Jobs, Idle
    <3>2. to \in [cands : (SUBSET Wrappers) \ {{}}, step : {1, -1},
                  from : Sessions \cup {None}] BY <3>1
    <3> QED BY <3>2
  <2>3. w \in Wrappers
    <3>1. w \in to.cands BY <2>2, NeighbourRight
    <3> QED BY <2>2, <3>1
  <2>4. job' = [job EXCEPT ![Knob] = [pc |-> "look", to |-> w]] BY <1>0, <1>8 DEF Choose
  <2> HIDE DEF w
  <2> QED BY <1>0, <1>2, <1>3, <2>3, <2>4
<1>9. CASE Swap
  <2> DEFINE s == PreviousOf(active, recent)
             r == [pc |-> "find", to |-> s]
  <2>1. s # None /\ job' = [job EXCEPT ![Knob] = r] BY <1>9 DEF Swap
  <2>2. s \in Sessions
    <3>1. s \in recent.in BY <2>1, PreviousRight DEF TypeOK
    <3> QED BY <3>1 DEF TypeOK
  <2>3. r \in Jobs
    <3> HIDE DEF s
    <3> QED BY <2>2 DEF Jobs
  <2> HIDE DEF r
  <2> QED BY <1>0, <1>2, <2>1, <2>3
<1>10. CASE Find
  <2>1. \A w \in Bound(job[Knob].to) : w \in Wrappers BY DEF Bound
  <2> QED BY <1>0, <1>1, <1>2, <1>3, <1>10, <2>1 DEF Find
<1>11. ASSUME NEW c \in Conns, Read(c) PROVE job' \in [Setters -> Jobs]
  <2>1. c[1] \in Wrappers BY DEF Conns
  <2>2. (IF Head(up[c]).what = "focus" THEN [pc |-> "look", to |-> c[1]] ELSE Idle) \in Jobs
    BY <1>1, <1>3, <2>1
  <2> QED BY <1>0, <1>2, <1>11, <2>2 DEF Read
<1>12. CASE Restart BY <1>1, <1>12 DEF Restart
<1>13. CASE UNCHANGED job BY <1>0, <1>13
<1>14. CASE FromActive
  <2> DEFINE to == job[Knob].to
             r  == [pc |-> "from", to |-> [cands |-> to.cands, step |-> to.step, from |-> active]]
  <2>1. job[Knob] \in Jobs /\ job[Knob].pc = "turn" BY <1>0, <1>14 DEF FromActive
  <2>2. to.cands \in (SUBSET Wrappers) \ {{}} /\ to.step \in {1, -1}
    <3>1. job[Knob] \in [pc : {"turn"},
                         to : [cands : (SUBSET Wrappers) \ {{}}, step : {1, -1}]]
      BY <2>1 DEF Jobs, Idle
    <3>2. to \in [cands : (SUBSET Wrappers) \ {{}}, step : {1, -1}] BY <3>1
    <3> QED BY <3>2
  <2>3. r \in Jobs
    <3>1. active \in Sessions \cup {None} BY DEF TypeOK
    <3>2. [cands |-> to.cands, step |-> to.step, from |-> active]
            \in [cands : (SUBSET Wrappers) \ {{}}, step : {1, -1}, from : Sessions \cup {None}]
      BY <2>2, <3>1
    <3> HIDE DEF to
    <3> QED BY <3>2 DEF Jobs
  <2>4. job' = [job EXCEPT ![Knob] = r] BY <1>0, <1>14 DEF FromActive
  <2> HIDE DEF r
  <2> QED BY <1>0, <1>2, <2>3, <2>4
<1> QED BY <1>0, <1>5, <1>6, <1>7, <1>8, <1>9, <1>10, <1>11, <1>12, <1>13, <1>14
  DEF Next, vars, registryVars, Client, Connect, Send, Receive, Report, Drop, NewSession, Hook,
      RegisterSession, StartPromotes, Task, Accept, Close, Loop

\* The focus reports that wait, and the counters of the run.
LEMMA CountersFollow ==
  ASSUME TypeOK, [Next]_vars
  PROVE  /\ unsent' \in [Wrappers -> Seq(BOOLEAN)]
         /\ crashes' \in 0 .. MaxCrashes /\ moves' \in 0 .. MaxMoves
<1>0. MaxCrashes \in Nat /\ MaxMoves \in Nat BY WrappersAssumption
<1>1. /\ unsent \in [Wrappers -> Seq(BOOLEAN)]
      /\ crashes \in 0 .. MaxCrashes /\ moves \in 0 .. MaxMoves BY DEF TypeOK
<1>2. moves' \in 0 .. MaxMoves
  <2>1. Move => moves' \in 0 .. MaxMoves BY <1>0, <1>1 DEF Move
  <2> QED BY <1>1, <2>1
    DEF Next, vars, Client, Connect, Send, Receive, Report, Drop, NewSession, Hook, RegisterSession,
        StartPromotes, Task, Accept, Read, LookUp, Promote, Close, Turn, Swap, Loop, FromActive,
        Choose, Find, Restart
<1>3. crashes' \in 0 .. MaxCrashes
  <2>1. Restart => crashes' \in 0 .. MaxCrashes BY <1>0, <1>1 DEF Restart
  <2> QED BY <1>1, <2>1
    DEF Next, vars, Client, Connect, Send, Receive, Report, Drop, NewSession, Hook, RegisterSession,
        StartPromotes, Task, Accept, Read, LookUp, Promote, Close, Turn, Swap, Loop, FromActive,
        Choose, Find
<1>4. unsent' \in [Wrappers -> Seq(BOOLEAN)]
  <2>1. ASSUME NEW w \in Wrappers, Connect(w) PROVE unsent' \in [Wrappers -> Seq(BOOLEAN)]
    BY <1>1, <2>1, EmptySeq DEF Connect
  <2>2. ASSUME NEW w \in Wrappers, Report(w) PROVE unsent' \in [Wrappers -> Seq(BOOLEAN)]
    BY <1>1, <2>2, AppendProperties DEF Report
  <2>3. ASSUME NEW w \in Wrappers, Send(w) PROVE unsent' \in [Wrappers -> Seq(BOOLEAN)]
    BY <1>1, <2>3, HeadTailProperties DEF Send
  <2>4. CASE UNCHANGED unsent BY <1>1, <2>4
  <2> QED BY <2>1, <2>2, <2>3, <2>4
    DEF Next, vars, clientVars, Client, Receive, Drop, NewSession, Hook, RegisterSession,
        StartPromotes, Task, Accept, Read, LookUp, Promote, Close, Turn, Swap, Loop, FromActive,
        Choose, Find, Restart
<1> QED BY <1>2, <1>3, <1>4

ActiveInv == RegistryInv /\ TypeOK /\ ActiveRight

LEMMA ActiveSteps == ActiveInv /\ [Next]_vars => ActiveInv'
<1> SUFFICES ASSUME RegistryInv, TypeOK, ActiveRight, [Next]_vars PROVE ActiveInv'
  BY DEF ActiveInv
<1>1. RegistryInv' BY RegistrySteps
<1>2. ActiveRight'
  <2>1. \A w \in Wrappers : entry'[w].session \in Past(w)' \cup {None} BY EntriesPast
  <2>2. \A w \in Wrappers : start'[w] \in {"sent", "bound"} => runs'[w] # None
    BY <1>1, StartsRight
  <2> QED BY <2>1, <2>2, RecentRight DEF ActiveRight
<1>3. runs' \in [Wrappers -> Sessions \cup {None}] BY RunsTyped
<1>4. RestTypes'
  <2>1. RunsTypes' BY <1>3 DEF RunsTypes
  <2> QED BY <1>1, <1>2, <2>1, TypesFollow, PTL
<1>5. TypeOK'
  BY <1>3, <1>4, RecentRight, JobsFollow, CountersFollow DEF TypeOK, RestTypes
<1> QED BY <1>1, <1>2, <1>5 DEF ActiveInv

LEMMA ActiveIsCoherent == Spec => []ActiveInv
<1>1. Init => ActiveInv BY RegistryStarts, ActiveStarts DEF ActiveInv
<1> QED BY <1>1, ActiveSteps, PTL DEF Spec

\* The registry, the jobs and the list of recent sessions hold what they should, the
\* list within its cap.
THEOREM RegistryTypesAreRight == Spec => []TypeOK
<1>1. ActiveInv => TypeOK BY DEF ActiveInv
<1> QED BY <1>1, ActiveIsCoherent, PTL

-----------------------------------------------------------------------------
\* A second double tap undoes the first: once the session before heads the list, the
\* one that was active comes next and, two or more being kept, is not dropped.
LEMMA SwapComesBack == ActiveInv => SwapTogglesBack
<1> DEFINE before == PreviousOf(active, recent)
           r      == Recalled(recent, before)
<1> SUFFICES ASSUME ActiveInv, active # None
             PROVE  /\ IsFront(recent, active)
                    /\ before # None /\ Bound(active) # {} => PreviousOf(before, r) = active
  BY DEF SwapTogglesBack
<1>1. IsDeque(recent) /\ recent.in \subseteq Sessions /\ IsFront(recent, active)
  BY DEF ActiveInv, TypeOK, ActiveRight
<1> SUFFICES ASSUME before # None, Bound(active) # {} PROVE PreviousOf(before, r) = active
  BY <1>1
<1>2. before \in recent.in /\ before # active BY <1>1, PreviousRight
<1> HIDE DEF before
<1> DEFINE others   == Without(recent, {before})
           all      == PushFront(others, before)
           Ahead(t) == {u \in all.in : <<u, t>> \in all.ahead}
           dropped  == {t \in all.in : Cardinality(Ahead(t)) >= RecentMax}
           dead     == {t \in r.in : t = before \/ Bound(t) = {}}
           live     == Without(r, dead)
<1>3. /\ IsDeque(others) /\ others.in = recent.in \ {before}
      /\ active \in others.in /\ IsFront(others, active)
  BY <1>1, <1>2, WithoutRight DEF IsFront
<1>4. /\ IsDeque(all) /\ all.in = others.in \cup {before} /\ IsFront(all, before)
      /\ \A x, y \in others.in : <<x, y>> \in all.ahead <=> <<x, y>> \in others.ahead
  BY <1>3, PushFrontRight
<1>5. r = Without(all, dropped) BY DEF Recalled
<1> HIDE DEF others, all, r
<1>6. Ahead(active) \subseteq {before} BY <1>3, <1>4 DEF IsFront
<1>7. active \notin dropped
  <2>1. IsFiniteSet({before}) /\ Cardinality({before}) = 1 BY FS_Singleton
  <2>2. Cardinality(Ahead(active)) <= 1 /\ Cardinality(Ahead(active)) \in Nat
    <3> HIDE DEF Ahead
    <3> QED BY <1>6, <2>1, FS_Subset, FS_CardinalityType
  <2>3. RecentMax \in Nat /\ RecentMax >= 2 BY WrappersAssumption
  <2> HIDE DEF Ahead
  <2> QED BY <2>2, <2>3
<1>8. IsDeque(r) /\ r.in = all.in \ dropped /\ r.ahead \subseteq all.ahead
  BY <1>4, <1>5, WithoutRight DEF Without
<1> HIDE DEF dropped
<1>9. IsDeque(live) /\ live.in = r.in \ dead /\ live.ahead \subseteq r.ahead
  BY <1>8, WithoutRight DEF Without
<1>10. active \in live.in BY <1>2, <1>3, <1>4, <1>7, <1>8, <1>9
<1>11. IsFront(live, active)
  <2>1. \A u \in live.in : u \in all.in /\ u # before BY <1>8, <1>9
  <2>2. \A u \in live.in : <<u, active>> \notin all.ahead BY <1>6, <2>1
  <2> QED BY <1>8, <1>9, <1>10, <2>2 DEF IsFront
<1>12. PreviousOf(before, r) = CHOOSE t \in live.in : IsFront(live, t)
  BY <1>10 DEF PreviousOf
<1> HIDE DEF live
<1>13. \A t \in live.in : IsFront(live, t) => t = active BY <1>9, <1>11, FrontIsOne
<1> QED BY <1>10, <1>11, <1>12, <1>13

\* The active session heads the recent ones, and two double taps come back to it.
THEOREM SwapAlwaysTogglesBack == Spec => []SwapTogglesBack
<1> QED BY SwapComesBack, ActiveIsCoherent, PTL

-----------------------------------------------------------------------------
\* A turn goes to the next of the listed numbers and, past the last, to the first.
LEMMA TurnsUpVisitAll ==
  ASSUME NEW S \in SUBSET Nat, IsFiniteSet(S), NEW T \in SUBSET S, T # {},
         \A w \in T : LET next == {x \in S : x > w} IN
                        Min(IF next = {} THEN S ELSE next) \in T
  PROVE  T = S
<1> DEFINE After(w) == {x \in S : x > w}
<1>0. T \subseteq Nat /\ IsFiniteSet(T) BY FS_Subset
<1>1. \A w \in S : IsFiniteSet(After(w)) BY FS_Subset
<1>2. Min(S) \in T
  <2> DEFINE g == Max(T)
  <2>1. g \in T /\ \A y \in T : g >= y BY <1>0, LeastAndGreatest
  <2> HIDE DEF g
  <2>2. CASE After(g) = {} BY <2>1, <2>2
  <2>3. CASE After(g) # {}
    <3>1. Min(After(g)) \in After(g) BY <1>1, <2>1, <2>3, LeastAndGreatest
    <3>2. Min(After(g)) \in T BY <2>1, <2>3
    <3>3. Min(After(g)) \in Nat /\ g \in Nat BY <1>0, <2>1, <3>2
    <3>4. Min(After(g)) > g BY <3>1
    <3> QED BY <2>1, <3>2, <3>3, <3>4
  <2> QED BY <2>2, <2>3
<1>3. Min(S) \in S /\ \A y \in S : Min(S) <= y BY LeastAndGreatest
<1>4. ASSUME S \ T # {} PROVE FALSE
  <2> DEFINE r     == Min(S \ T)
             below == {x \in S : x < r}
             p     == Max(below)
  <2>1. IsFiniteSet(S \ T) /\ S \ T \subseteq Nat BY FS_Difference
  <2>2. r \in S \ T /\ \A y \in S \ T : r <= y BY <1>4, <2>1, LeastAndGreatest
  <2> HIDE DEF r
  <2>3. Min(S) \in below
    <3>1. Min(S) \in Nat /\ r \in Nat /\ Min(S) # r BY <1>2, <1>3, <2>2
    <3>2. Min(S) <= r BY <1>3, <2>2
    <3> QED BY <1>3, <3>1, <3>2
  <2>4. below \subseteq T
    <3>1. ASSUME NEW x \in S, x < r, x \notin T PROVE FALSE
      <4>1. x \in Nat /\ r \in Nat /\ r <= x BY <2>2, <3>1
      <4> QED BY <3>1, <4>1
    <3> QED BY <3>1
  <2>5. IsFiniteSet(below) BY FS_Subset
  <2>6. p \in below /\ \A y \in below : p >= y
    <3>1. below \in SUBSET Nat /\ below # {} BY <2>3
    <3> HIDE DEF below
    <3> QED BY <2>5, <3>1, LeastAndGreatest
  <2> HIDE DEF p
  <2>7. p \in T /\ p \in Nat /\ r \in Nat /\ r > p BY <2>2, <2>4, <2>6
  <2>8. r \in After(p) /\ \A x \in After(p) : r <= x BY <2>2, <2>6, <2>7
  <2>9. Min(After(p)) \in After(p) /\ \A x \in After(p) : Min(After(p)) <= x
    BY <1>1, <2>7, <2>8, LeastAndGreatest
  <2>10. Min(After(p)) = r
    <3>1. Min(After(p)) \in Nat /\ r \in Nat BY <2>7, <2>9
    <3>2. Min(After(p)) <= r /\ r <= Min(After(p)) BY <2>8, <2>9
    <3> HIDE DEF After
    <3> QED BY <3>1, <3>2
  <2>11. Min(After(p)) \in T BY <2>7, <2>8
  <2> QED BY <2>2, <2>10, <2>11
<1> QED BY <1>4

\* The same the other way round.
LEMMA TurnsDownVisitAll ==
  ASSUME NEW S \in SUBSET Nat, IsFiniteSet(S), NEW T \in SUBSET S, T # {},
         \A w \in T : LET next == {x \in S : x < w} IN
                        Max(IF next = {} THEN S ELSE next) \in T
  PROVE  T = S
<1> DEFINE After(w) == {x \in S : x < w}
<1>0. T \subseteq Nat /\ IsFiniteSet(T) BY FS_Subset
<1>1. \A w \in S : IsFiniteSet(After(w)) BY FS_Subset
<1>2. Max(S) \in T
  <2> DEFINE g == Min(T)
  <2>1. g \in T /\ \A y \in T : g <= y BY <1>0, LeastAndGreatest
  <2> HIDE DEF g
  <2>2. CASE After(g) = {} BY <2>1, <2>2
  <2>3. CASE After(g) # {}
    <3>1. Max(After(g)) \in After(g) BY <1>1, <2>1, <2>3, LeastAndGreatest
    <3>2. Max(After(g)) \in T BY <2>1, <2>3
    <3>3. Max(After(g)) \in Nat /\ g \in Nat BY <1>0, <2>1, <3>2
    <3>4. Max(After(g)) < g BY <3>1
    <3> QED BY <2>1, <3>2, <3>3, <3>4
  <2> QED BY <2>2, <2>3
<1>3. Max(S) \in S /\ \A y \in S : Max(S) >= y BY LeastAndGreatest
<1>4. ASSUME S \ T # {} PROVE FALSE
  <2> DEFINE r     == Max(S \ T)
             above == {x \in S : x > r}
             p     == Min(above)
  <2>1. IsFiniteSet(S \ T) /\ S \ T \subseteq Nat BY FS_Difference
  <2>2. r \in S \ T /\ \A y \in S \ T : r >= y BY <1>4, <2>1, LeastAndGreatest
  <2> HIDE DEF r
  <2>3. Max(S) \in above
    <3>1. Max(S) \in Nat /\ r \in Nat /\ Max(S) # r BY <1>2, <1>3, <2>2
    <3>2. Max(S) >= r BY <1>3, <2>2
    <3> QED BY <1>3, <3>1, <3>2
  <2>4. above \subseteq T
    <3>1. ASSUME NEW x \in S, x > r, x \notin T PROVE FALSE
      <4>1. x \in Nat /\ r \in Nat /\ r >= x BY <2>2, <3>1
      <4> QED BY <3>1, <4>1
    <3> QED BY <3>1
  <2>5. IsFiniteSet(above) BY FS_Subset
  <2>6. p \in above /\ \A y \in above : p <= y
    <3>1. above \in SUBSET Nat /\ above # {} BY <2>3
    <3> HIDE DEF above
    <3> QED BY <2>5, <3>1, LeastAndGreatest
  <2> HIDE DEF p
  <2>7. p \in T /\ p \in Nat /\ r \in Nat /\ r < p BY <2>2, <2>4, <2>6
  <2>8. r \in After(p) /\ \A x \in After(p) : r >= x BY <2>2, <2>6, <2>7
  <2>9. Max(After(p)) \in After(p) /\ \A x \in After(p) : Max(After(p)) >= x
    BY <1>1, <2>7, <2>8, LeastAndGreatest
  <2>10. Max(After(p)) = r
    <3>1. Max(After(p)) \in Nat /\ r \in Nat BY <2>7, <2>9
    <3>2. Max(After(p)) >= r /\ r >= Max(After(p)) BY <2>8, <2>9
    <3> HIDE DEF After
    <3> QED BY <3>1, <3>2
  <2>11. Max(After(p)) \in T BY <2>7, <2>8
  <2> QED BY <2>2, <2>10, <2>11
<1> QED BY <1>4

\* The entry of one wrapper is no other's session, so a turn starts where it should.
LEMMA KnobTurnsRound == ActiveInv => KnobVisitsAll
<1> SUFFICES ASSUME ActiveInv, NEW step \in {1, -1}
             PROVE  /\ Cands # {} => Neighbour(Cands, active, step) \in Cands
                    /\ \A visited \in (SUBSET Cands) \ {{}} :
                         (\A w \in visited :
                            Neighbour(Cands, entry[w].session, step) \in visited)
                           => visited = Cands
  BY DEF KnobVisitsAll
<1>1. Cands \subseteq Wrappers BY DEF Cands
<1>2. Cands \subseteq Nat /\ IsFiniteSet(Cands) BY <1>1, WrappersAssumption, FS_Subset
<1>3. Cands # {} => Neighbour(Cands, active, step) \in Cands BY <1>1, NeighbourRight
<1>4. \A w \in Cands : Position(Cands, entry[w].session) = {w}
  <2>1. \A w \in Wrappers : \A s \in Past(w) : s[1] = w
    BY PastIsSessions DEF ActiveInv, RegistryInv, TypeOK
  <2>2. \A w \in Cands : entry[w].session \in Past(w) /\ entry[w].session # None
    BY DEF ActiveInv, ActiveRight, Cands
  <2>3. \A w \in Cands : entry[w].session[1] = w BY <1>1, <2>1, <2>2
  <2> QED BY <2>2, <2>3 DEF Position
<1>5. \A w \in Nat : Min({w}) = w
  <2>1. ASSUME NEW w \in Nat PROVE Min({w}) = w
    <3>1. IsFiniteSet({w}) /\ {w} \subseteq Nat /\ {w} # {} BY FS_Singleton
    <3> QED BY <3>1, LeastAndGreatest
  <2> QED BY <2>1
<1>6. ASSUME NEW visited \in (SUBSET Cands) \ {{}},
             \A w \in visited : Neighbour(Cands, entry[w].session, step) \in visited
      PROVE  visited = Cands
  <2>1. CASE step = 1
    <3>1. ASSUME NEW w \in visited
          PROVE  LET next == {x \in Cands : x > w} IN
                   Min(IF next = {} THEN Cands ELSE next) \in visited
      <4>1. w \in Cands /\ w \in Nat BY <1>2
      <4>2. Beyond(Cands, {w}, 1) = {x \in Cands : x > w} BY <1>5, <4>1 DEF Beyond
      <4>3. Neighbour(Cands, entry[w].session, 1) \in visited BY <1>6, <2>1
      <4> QED BY <1>4, <4>1, <4>2, <4>3 DEF Neighbour, EndMost
    <3> QED BY <1>2, <3>1, TurnsUpVisitAll
  <2>2. CASE step = -1
    <3>1. ASSUME NEW w \in visited
          PROVE  LET next == {x \in Cands : x < w} IN
                   Max(IF next = {} THEN Cands ELSE next) \in visited
      <4>1. w \in Cands /\ w \in Nat BY <1>2
      <4>2. Beyond(Cands, {w}, -1) = {x \in Cands : x < w} BY <1>5, <4>1 DEF Beyond
      <4>3. Neighbour(Cands, entry[w].session, -1) \in visited BY <1>6, <2>2
      <4> QED BY <1>4, <4>1, <4>2, <4>3 DEF Neighbour, EndMost
    <3> QED BY <1>2, <3>1, TurnsDownVisitAll
  <2> QED BY <2>1, <2>2
<1> QED BY <1>3, <1>6

\* Turned on and on in one direction, the knob reaches every wrapper with a session.
THEOREM KnobAlwaysVisitsAll == Spec => []KnobVisitsAll
<1> QED BY KnobTurnsRound, ActiveIsCoherent, PTL
=============================================================================
