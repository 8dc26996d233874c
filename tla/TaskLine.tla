------------------------------ MODULE TaskLine ------------------------------
(***************************************************************************)
(* The device's two task lines hold MaxLine characters each: how the tool  *)
(* and its detail are cut to fit, and how the background work of an idle   *)
(* session is spread over both.                                            *)
(***************************************************************************)
EXTENDS Integers, Sequences, FiniteSets, SequencesExt

CONSTANT MaxLine   \* MAX_TASK_LINE_CHARS
ASSUME TaskLineAssumption == MaxLine \in Nat \ {0}

Dots == "..."      \* the ellipsis, one character

\* truncate_left keeps the head.
KeepHead(s, max) ==
  IF Len(s) <= max THEN s ELSE Append(SubSeq(s, 1, max - 1), Dots)

\* truncate_for_display keeps the tail of a path or URL, the head of anything else.
\* "h" is the scheme of a URL, with its ://.
IsPath(s) == s # <<>> /\ (Head(s) = "/" \/ "h" \in ToSet(s))
Truncated(s, max) ==
  IF Len(s) <= max \/ ~IsPath(s) THEN KeepHead(s, max)
  ELSE <<Dots>> \o SubSeq(s, Len(s) - max + 2, Len(s))

\* glyph_prefix: some tools are a glyph, "g", and not a name.
Prefix(name) == IF name = <<"g">> THEN <<"g", " ">> ELSE name \o <<":", " ">>

\* extract_task_text: the detail is cut to what the prefix leaves.
\* (Mutant: the space after the colon is not counted.)
Budget(name) == MaxLine - Len(Prefix(name))
TaskTextTight(name, detail) ==
  IF detail = <<>> \/ Budget(name) <= 0 THEN KeepHead(name, MaxLine)
  ELSE Prefix(name) \o Truncated(detail, Budget(name) + 1)
TaskText(name, detail) ==
  IF detail = <<>> \/ Budget(name) <= 0 THEN KeepHead(name, MaxLine)
  ELSE Prefix(name) \o Truncated(detail, Budget(name))

\* extract_tool_summary: a command and the host of a URL have the line to themselves.
WithoutScheme(s) == IF s # <<>> /\ Head(s) = "h" THEN Tail(s) ELSE s
ToolSummary(name, detail) ==
  LET shown == IF name = <<"WebFetch">> THEN WithoutScheme(detail) ELSE detail
  IN IF name \notin {<<"Bash">>, <<"WebFetch">>} THEN TaskText(name, detail)
     ELSE IF shown = <<>> THEN KeepHead(name, MaxLine) ELSE Truncated(shown, MaxLine)

\* split_background_summary, on the lengths of "Waiting" and the counts after it:
\* the number of counts that move up, -1 when one line is enough.
Sep == 3
Width(parts) == FoldLeft(+, 0, parts) + Sep * (IF parts = <<>> THEN 0 ELSE Len(parts) - 1)
Lower(counts, k) == SubSeq(counts, k + 1, Len(counts))
Upper(head, counts, k) == <<head>> \o SubSeq(counts, 1, k)

MovedUp(head, counts) ==
  LET fits == {k \in 0 .. Len(counts) - 1 : Width(Lower(counts, k)) <= MaxLine}
  IN IF Width(<<head>> \o counts) <= MaxLine \/ counts = <<>> THEN -1
     ELSE IF fits = {} THEN Len(counts) - 1
     ELSE CHOOSE k \in fits : \A j \in fits : k <= j
=============================================================================
