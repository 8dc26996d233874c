----------------------------- MODULE PromptDesk -----------------------------
(***************************************************************************)
(* What the daemon promises about permission prompts, whatever its tasks   *)
(* and queues do.  A prompt waits or stands in front of the user.  The     *)
(* user's key is read against the prompt in front, and settles that one or *)
(* none, whatever stands in front by then; only the wrapper's enrollment   *)
(* approves a prompt behind the user's back, and only one that waits;      *)
(* every other end is a withdrawal, which leaves the call to the terminal. *)
(* A verdict is never changed, and the reply to Claude says what the       *)
(* verdict says.                                                           *)
(***************************************************************************)
CONSTANTS Requests, Sessions, SessionOf, Nobody

VARIABLES
  front,    \* the prompt in front of the user
  aimed,    \* the prompt a key was read against, still to be applied
  taken,    \* the prompt a key was applied to, its verdict on the way
  waiting,  \* prompts behind it
  verdict,  \* of each request
  reply,    \* to each request
  enrolled  \* sessions whose user has agreed to Auto-approve

desk == <<front, aimed, taken, waiting, verdict, reply, enrolled>>

Init ==
  /\ front = Nobody /\ aimed = Nobody /\ taken = Nobody /\ waiting = {}
  /\ verdict = [r \in Requests |-> "unsent"]
  /\ reply = [r \in Requests |-> "none"]
  /\ enrolled = {}

\* Only a prompt that is still open takes a verdict.
Settled(S, v) == [r \in Requests |-> IF r \in S /\ verdict[r] = "open" THEN v ELSE verdict[r]]

Ask(r) ==
  /\ verdict[r] = "unsent" /\ reply[r] = "none"
  /\ verdict' = [verdict EXCEPT ![r] = "open"]
  /\ \/ front = Nobody /\ front' = r /\ UNCHANGED waiting
     \/ waiting' = waiting \cup {r} /\ UNCHANGED front
  /\ UNCHANGED <<aimed, taken, reply, enrolled>>

Show(r) ==
  /\ front = Nobody /\ r \in waiting
  /\ front' = r /\ waiting' = waiting \ {r}
  /\ UNCHANGED <<aimed, taken, verdict, reply, enrolled>>

Aim ==
  /\ front # Nobody /\ aimed = Nobody
  /\ aimed' = front
  /\ UNCHANGED <<front, taken, waiting, verdict, reply, enrolled>>

\* The key meets what it was read against, or is lost.
Press ==
  /\ aimed # Nobody /\ front = aimed /\ taken = Nobody
  /\ taken' = front /\ front' = Nobody /\ aimed' = Nobody
  /\ UNCHANGED <<waiting, verdict, reply, enrolled>>

Miss ==
  /\ aimed # Nobody /\ aimed' = Nobody
  /\ UNCHANGED <<front, taken, waiting, verdict, reply, enrolled>>

Answer ==
  /\ taken # Nobody
  /\ \E v \in {"allow", "deny"} : verdict' = Settled({taken}, v)
  /\ taken' = Nobody
  /\ UNCHANGED <<front, aimed, waiting, reply, enrolled>>

Approve(r) ==
  /\ r \in waiting /\ SessionOf[r] \in enrolled
  /\ verdict' = Settled({r}, "allow")
  /\ waiting' = waiting \ {r}
  /\ UNCHANGED <<front, aimed, taken, reply, enrolled>>

Withdraw ==
  \E S \in SUBSET (waiting \cup ({front} \ {Nobody})) :
    /\ verdict' = Settled(S, "dropped")
    /\ waiting' = waiting \ S
    /\ front' = IF front \in S THEN Nobody ELSE front
    /\ UNCHANGED <<aimed, taken, reply, enrolled>>

\* Nobody listens any more; the prompt may still be about.
Expire(r) ==
  /\ verdict[r] = "open"
  /\ verdict' = [verdict EXCEPT ![r] = "closed"]
  /\ UNCHANGED <<front, aimed, taken, waiting, reply, enrolled>>

\* Allow needs a verdict, or enrollment for a call that was never asked about.
Reply(r) ==
  /\ reply[r] = "none" /\ verdict[r] # "open"
  /\ \E v \in {"allow", "deny", "pass"} :
       /\ v = "allow" => verdict[r] = "allow" \/ (verdict[r] = "unsent" /\ SessionOf[r] \in enrolled)
       /\ v = "deny" => verdict[r] = "deny"
       /\ v = "pass" => verdict[r] # "allow"
       /\ reply' = [reply EXCEPT ![r] = v]
  /\ UNCHANGED <<front, aimed, taken, waiting, verdict, enrolled>>

Enroll ==
  /\ enrolled' \in SUBSET Sessions
  /\ UNCHANGED <<front, aimed, taken, waiting, verdict, reply>>

Next ==
  \/ \E r \in Requests : Ask(r) \/ Show(r) \/ Approve(r) \/ Expire(r) \/ Reply(r)
  \/ Aim \/ Press \/ Miss \/ Answer \/ Withdraw \/ Enroll

Spec == Init /\ [][Next]_desk
=============================================================================
