---------------------------- MODULE MCAlgorithms ----------------------------
(***************************************************************************)
(* The pure algorithms against what they promise: a state is a subject and *)
(* an input for it, grown symbol by symbol up to a bound, so that every    *)
(* input up to that bound is checked, with all its beginnings.             *)
(***************************************************************************)
EXTENDS Integers, SequencesExt, PtyStreams, Packets, HookSettings, TaskLine

CONSTANT MaxInput   \* bound, per subject: symbols of an input

Bounds == [focus |-> 6, title |-> 7, message |-> 7, reply |-> 4, probe |-> 4,
           settings |-> 5, line |-> 7, counts |-> 4]

VARIABLES subject, input
all == <<subject, input>>

ReplySymbols == {"start", "more", "end", "whole", "error", "other", "key", "type", "typed"}
Alphabet ==
  [focus    |-> {Esc, "[", "I", "x", Cut},
   title    |-> {Esc, "]", "9", ";", Bel, "\\"},
   message  |-> {0, 1},
   reply    |-> ReplySymbols,
   probe    |-> {"prompt", "late", "never", "refused"},
   settings |-> {"install", "uninstall", "add", "mix", "alike", "odd", "status"},
   line     |-> {"n", "g", "a", "/", "h"},
   counts   |-> {1, 2, 5}]

Init == subject \in DOMAIN Alphabet /\ input = <<>>

Grow ==
  /\ Len(input) < MaxInput[subject]
  /\ \E x \in Alphabet[subject] : input' = Append(input, x)
  /\ UNCHANGED subject

Spec == Init /\ [][Grow]_all

-----------------------------------------------------------------------------
\* Where a focus report stands: ESC [ in one read, and I or O next.
FocusReports ==
  {<<i, j>> \in (DOMAIN input) \X (DOMAIN input) :
     /\ i + 1 < j /\ input[i] = Esc /\ input[i + 1] = "[" /\ input[j] \in {"I", "O"}
     /\ \A k \in i + 2 .. j - 1 : input[k] = Cut}

Held == {i \in DOMAIN input :
           \E h \in 1 .. Len(input) - 1 :
             /\ input[h] = Esc /\ input[h + 1] = "[" /\ i \in {h, h + 1}
             /\ \A k \in h + 2 .. Len(input) : input[k] = Cut}

\* Of the keyboard stream exactly the focus reports are taken out whose ESC [ came in
\* one read, wherever else reads cut them; nothing is lost, doubled or moved, and only
\* ESC [ is ever held back.  (A report cut between ESC and [ goes through to Claude.)
FocusReportsAreStripped ==
  subject = "focus" =>
    LET gone == {i \in DOMAIN input : input[i] = Cut} \cup Held
                \cup UNION {{r[1], r[1] + 1, r[2]} : r \in FocusReports}
        kept == SetToSortSeq(DOMAIN input \ gone, <)
    IN /\ Strip(input).out = [i \in DOMAIN kept |-> input[kept[i]]]
       /\ Len(Strip(input).reports) = Cardinality(FocusReports)

\* A title as the standard has it: where it starts and ends, and its body.
WrittenTitles ==
  LET n == Len(input)
      Ends(k) == IF input[k] = Bel THEN {k}
                 ELSE IF input[k] = Esc /\ k < n /\ input[k + 1] = "\\" THEN {k + 1} ELSE {}
      Body(m, k) == IF m = k THEN <<>> ELSE SubSeq(input, m + 1, k - 1)
      At == {<<i, m, k>> \in (1 .. n) \X (1 .. n) \X (1 .. n) :
               /\ i + 2 < m /\ m <= k /\ Ends(k) # {}
               /\ input[i] = Esc /\ input[i + 1] = "]"
               /\ \A x \in i + 2 .. m - 1 : input[x] = "9"
               /\ m = k \/ input[m] = ";"
               /\ \A x \in m + 1 .. k - 1 : input[x] \notin {Esc, Bel}}
  IN {[first |-> t[1], title |-> [param |-> SubSeq(input, t[1] + 2, t[2] - 1),
                  body |-> SubSeq(Body(t[2], t[3]), 1,
                                  IF t[3] - t[2] - 1 < BodyCap THEN Len(Body(t[2], t[3]))
                                  ELSE BodyCap)]] : t \in At}

\* Every title heard was written, and the first that is written is heard.
TitlesAreHeard ==
  subject = "title" =>
    /\ ToSet(Titles(input)) \subseteq {w.title : w \in WrittenTitles}
    /\ \A w \in WrittenTitles :
         (\A i \in 1 .. w.first - 1 : input[i] # Esc) => w.title \in ToSet(Titles(input))

\* A device that answers any probe is never spoken to in the other framing; and a
\* message sent in either framing is read back as it was, but for zeros at its
\* end, even among the echoes of VIA.
MessagesComeThrough ==
  /\ subject = "probe" /\ Len(input) = Rounds =>
       \A firmware \in {"vial", "standalone"} :
         (\E r \in 1 .. Rounds : input[r] = "prompt") => Detected(firmware, input) = firmware
  /\ subject = "message" =>
    \A framing \in {"vial", "standalone"} :
      LET sent == Chunked("get", input, framing)
          wire == FlattenSeq([i \in DOMAIN sent |->
                    <<OnWire(sent[i], framing)>> \o
                    (IF framing = "vial"
                     THEN <<[OnWire(sent[i], framing) EXCEPT !.prefixed = FALSE]>> ELSE <<>>)])
          read == FlattenSeq([i \in DOMAIN wire |-> Received(wire[i], framing)])
          got  == ReadResponse(read, "get")
      IN Len(sent) <= MaxPackets => got.reply = "ok" /\ got.payload = TrimZeros(input)

\* The packets a symbol of `reply` stands for; the payload tells them apart.
AsPacket(i) ==
  LET x == input[i] IN
  [start |-> x \in {"start", "whole", "error", "type"}, end |-> x \in {"end", "whole", "error", "typed"},
   cmd |-> CASE x \in {"start", "more", "end", "whole"} -> "get" [] x = "error" -> "error"
             [] x = "other" -> "other" [] x = "key" -> "key" [] x \in {"type", "typed"} -> "type",
   payload |-> <<i>>]

\* A reply is the chunks from its last start to its end, whatever comes between;
\* keys and typed strings that come between are not lost.
RepliesAreWhole ==
  subject = "reply" =>
    LET n      == Len(input)
        got    == ReadResponse([i \in 1 .. n |-> AsPacket(i)], "get")
        Mine   == {i \in 1 .. n : AsPacket(i).cmd \in {"get", "error"}}
        Starts(last) == {s \in Mine : s <= last /\ AsPacket(s).start}
        Ends   == {x \in Mine : AsPacket(x).end /\ Starts(x) # {}}
    IN /\ (got.reply = "none") <=> (Ends = {})
       /\ Ends # {} =>
            LET last  == Min(Ends)
                first == Max(Starts(last))
            IN /\ got.payload = SetToSortSeq({i \in Mine : first <= i /\ i <= last}, <)
               /\ got.keys = Cardinality({i \in 1 .. last : input[i] = "key"})
       /\ \A i, j \in 1 .. n :
            i < j /\ input[i] = "type" /\ input[j] = "typed"
            /\ (\A k \in i + 1 .. j - 1 : input[k] \notin {"type", "typed"})
              => <<j>> \in ToSet(got.typed)

\* The settings after the edits of `input`; a user's block is told by when it was added,
\* and may have an entry of ours in it, or one like ours.
Added == [add |-> {}, mix |-> {Ours}, alike |-> {Alike}]
Edited ==
  LET Step(s, i) ==
        CASE input[i] = "install" -> Install(s)
          [] input[i] = "uninstall" -> Uninstall(s)
          [] input[i] = "odd" -> [s EXCEPT !.blocks = Odd]
          [] input[i] \in DOMAIN Added ->
               [s EXCEPT !.blocks = Append(IF @ = Odd THEN <<>> ELSE @, {i} \cup Added[input[i]])]
          [] input[i] = "status" -> [s EXCEPT !.status = i]
  IN FoldLeft(Step, NoSettings, [i \in DOMAIN input |-> i])

\* Installing and uninstalling, in any order and any number of times, among the
\* user's edits, keeps every block of the user's in its place that has no entry of ours
\* or like ours, leaves one block of ours or none, and never takes a status line of the
\* user's away again; uninstalling leaves what is not a list as it is.
UsersHooksSurvive ==
  subject = "settings" =>
    LET s == Edited
        Since(i) == {input[j] : j \in i + 1 .. Len(input)}
        users == SetToSortSeq({i \in DOMAIN input : input[i] = "add" /\ "odd" \notin Since(i)}, <)
    IN /\ Kept(s.blocks) = [i \in DOMAIN users |-> {users[i]}]
       /\ s.blocks = Odd => Uninstall(s).blocks = Odd
       /\ Install(Install(s)) = Install(s) /\ Installed(Install(s))
       /\ Cardinality({i \in DOMAIN Install(s).blocks : Managed(Install(s).blocks[i])}) = 1
       /\ ~Installed(Uninstall(s)) /\ Uninstall(s).status # Ours
       /\ input # <<>> /\ Last(input) = "status" => Uninstall(s).status = Len(input)

\* The line of a tool fits the display; it is cut only when it would not, and then
\* shows the end of a path or URL and the beginning of anything else: of a command its
\* start, of a page that is fetched its host.
LineFits ==
  LET name   == SelectSeq(input, LAMBDA x : x \in {"n", "g"})
      detail == SelectSeq(input, LAMBDA x : x \notin {"n", "g"})
      text   == TaskText(name, detail)
      before == Prefix(name)
      room   == MaxLine - Len(before)
  IN /\ Len(text) <= MaxLine
     /\ detail # <<>> /\ Len(detail) <= room => text = before \o detail
     /\ Len(detail) > room /\ room > 1 =>
          /\ Len(text) = MaxLine
          /\ IF IsPath(detail) THEN Last(text) = Last(detail)
             ELSE text[Len(before) + 1] = Head(detail)
     /\ \A tool \in {"Bash", "WebFetch"} :
          LET summary == ToolSummary(<<tool>>, detail)
              host    == Len(detail) > 1 /\ detail[1] = "h" /\ detail[2] = "a"
                         /\ \A i \in 2 .. Len(detail) : detail[i] # "h"
          IN /\ Len(summary) <= MaxLine /\ summary # <<>>
             /\ detail # <<>> /\ Len(detail) <= MaxLine /\ Head(detail) # "h" => summary = detail
             /\ tool = "WebFetch" /\ host => Head(summary) = "a"

\* When the counts of background work fit two lines at all, they are spread so
\* that both lines fit.
CountsFit ==
  LET head == 2
      Fits(k) == Width(Upper(head, input, k)) <= MaxLine /\ Width(Lower(input, k)) <= MaxLine
      k == MovedUp(head, input)
  IN /\ k = -1 => input = <<>> \/ Width(<<head>> \o input) <= MaxLine
     /\ k # -1 /\ (\E m \in 0 .. Len(input) - 1 : Fits(m)) => Fits(k)

\* What a tool, and the counts of background work, say on the device's two lines is cut
\* and spread so that it fits, and no more than it must.  (The time that is added to
\* the headline of a turn, and the subject of a task, have no such limit.)
LinesFit == (subject = "line" => LineFits) /\ (subject = "counts" => CountsFit)
=============================================================================
