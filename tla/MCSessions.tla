----------------------------- MODULE MCSessions -----------------------------
(***************************************************************************)
(* Small instances of Sessions for TLC.  A session uses one mix of tools:  *)
(* "tasks", with a shell in the background, or "watches", with more        *)
(* monitors than the daemon remembers ids of, a shell and an artifact.     *)
(***************************************************************************)
EXTENDS Sessions

CONSTANTS k1, shell, artifact, m1, m2, m3

VARIABLE mix

Kinds == [j \in Jobs |-> IF j = artifact THEN "artifact"
                         ELSE IF j \in {m1, m2, m3} THEN "monitor" ELSE "shell"]

WithTasks   == running \subseteq Tools \ {"Monitor"} /\ started.in \subseteq {shell}
WithWatches == running \subseteq {"Bash", "Monitor"} /\ tasks = {} /\ compacts = 0
InMix       == IF mix = "tasks" THEN WithTasks ELSE WithWatches

MixInit == Init /\ mix \in {"tasks", "watches"}
MixNext == Next /\ UNCHANGED mix /\ InMix'
MixSpec == MixInit /\ [][MixNext]_<<vars, mix>> /\ Fairness
=============================================================================
