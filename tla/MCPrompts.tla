------------------------------ MODULE MCPrompts ------------------------------
(***************************************************************************)
(* Small instances of Prompts for TLC: up to three permission requests and *)
(* two notices of two sessions.                                            *)
(***************************************************************************)
EXTENDS PromptClaims

CONSTANTS h1, r1, r2, r3, n1, n2, n3, s1, s2, bash, edit, question

Of1(S) == [a \in Alerts |-> IF a \in S THEN s1 ELSE s2]

\* Everything of the second session (tab 1).
OneSession == Of1({})
\* r1 of the first session, the other requests and the notices of the second.
TwoSessions == Of1({r1})
\* The first request and the first notice of the first session.
Pairs == Of1({r1, n1})

ByStart == [s \in Sessions |-> IF s = s1 THEN 0 ELSE 1]
TwoTools == [r \in Requests |-> IF r = r1 THEN edit ELSE bash]
WithQuestion == [r \in Requests |-> IF r = r3 THEN question ELSE bash]
=============================================================================
