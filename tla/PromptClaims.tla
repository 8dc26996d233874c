---------------------------- MODULE PromptClaims ----------------------------
(***************************************************************************)
(* What a document of the repository says of Auto-approve, and some        *)
(* interleaving of the tasks contradicts: a run finds the contradiction.   *)
(***************************************************************************)
EXTENDS Prompts

\* "Requires all three of: the device physically connected, the Auto-approve
\* switch on, and the requesting session's wrapper enrolled" (REST-API.md): no
\* waiting prompt is approved behind the user's back without all three.
ApprovalNeedsAllThree ==
  [][\A r \in Requests :
       answer[r] = "open" /\ answer'[r] = "allow" /\ pc[Loop] # "send"
         => connected /\ yolo /\ SessionOf[r] \in optIn]_vars
=============================================================================
