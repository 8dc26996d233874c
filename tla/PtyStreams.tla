----------------------------- MODULE PtyStreams -----------------------------
(***************************************************************************)
(* The two byte filters of coredeck-claude: FocusStripper, which takes the *)
(* terminal's focus reports out of the keyboard stream, and OscSniffer,    *)
(* which reads window titles in Claude's output.  A byte is a model value; *)
(* Cut is not a byte but the end of one read.                              *)
(***************************************************************************)
EXTENDS Naturals, Sequences, SequencesExt

CONSTANTS Esc, Bel, Cut, BodyCap   \* BodyCap: OSC_BODY_CAP

Intro == <<Esc, "[">>              \* what every focus report begins with

\* FocusStripper::process, a byte at a time; `prefix` bytes of Intro are held.
FocusByte(st, b) ==
  IF st.prefix = 1 /\ b = "[" THEN [st EXCEPT !.prefix = 2]
  ELSE IF st.prefix = 2 /\ b \in {"I", "O"}
  THEN [st EXCEPT !.prefix = 0, !.reports = Append(@, b)]
  ELSE [st EXCEPT !.out = @ \o SubSeq(Intro, 1, st.prefix) \o (IF b = Esc THEN <<>> ELSE <<b>>),
                  !.prefix = IF b = Esc THEN 1 ELSE 0]

\* At the end of a read a lone Escape is let go, so that the key is not delayed.
\* (Mutant: it is held, as the bytes after it are.)
FocusReadHolds(st) == st
FocusRead(st) ==
  IF st.prefix = 1 THEN [st EXCEPT !.out = Append(@, Esc), !.prefix = 0] ELSE st

Strip(input) ==
  LET Step(st, b) == IF b = Cut THEN FocusRead(st) ELSE FocusByte(st, b)
  IN FocusRead(FoldLeft(Step, [prefix |-> 0, out |-> <<>>, reports |-> <<>>], input))

Digits == {"9"}

Outside == [at |-> "outside", param |-> <<>>, body |-> <<>>]

\* A body is cut off at its cap.
\* (Mutant: one byte late.)
CappedLate(body, b) == IF Len(body) <= BodyCap THEN Append(body, b) ELSE body
Capped(body, b) == IF Len(body) < BodyCap THEN Append(body, b) ELSE body

\* OscSniffer::process: a title is emitted at its terminator, BEL or ESC \.
OscByte(st, b) ==
  LET To(at)  == [st EXCEPT !.osc.at = at]
      Reset   == [st EXCEPT !.osc = Outside]
      Emitted == [osc |-> Outside,
                  titles |-> IF st.osc.param = <<>> THEN st.titles
                             ELSE Append(st.titles, [param |-> st.osc.param, body |-> st.osc.body])]
  IN CASE st.osc.at = "outside" -> IF b = Esc THEN To("esc") ELSE st
       [] st.osc.at = "esc" -> IF b = "]" THEN [st EXCEPT !.osc = [Outside EXCEPT !.at = "param"]]
                               ELSE To("outside")
       [] st.osc.at = "param" /\ b \in Digits -> [st EXCEPT !.osc.param = Append(@, b)]
       [] st.osc.at = "param" /\ b = ";" -> To("body")
       [] st.osc.at \in {"param", "body"} /\ b = Bel -> Emitted
       [] st.osc.at \in {"param", "body"} /\ b = Esc -> To("body esc")
       [] st.osc.at = "param" /\ b \notin Digits \cup {";", Bel, Esc} -> Reset
       [] st.osc.at = "body" /\ b \notin {Bel, Esc} ->
            [st EXCEPT !.osc.body = Capped(@, b)]
       [] st.osc.at = "body esc" -> IF b = "\\" THEN Emitted ELSE Reset

Titles(input) == FoldLeft(OscByte, [osc |-> Outside, titles |-> <<>>], input).titles
=============================================================================
