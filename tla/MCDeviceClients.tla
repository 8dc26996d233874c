--------------------------- MODULE MCDeviceClients ---------------------------
(***************************************************************************)
(* A small instance of DeviceClients for TLC.  Nothing tells the apps or   *)
(* the calls apart but their names, and all properties are of states or    *)
(* steps, so the instance is checked up to renaming.                       *)
(***************************************************************************)
EXTENDS DeviceClients, TLC

CONSTANTS a1, a2, c1, c2, p1, p2

Renamings == Permutations(Apps) \cup Permutations(Calls)

\* The last key of p2 is one the firmware cannot store.
Flaws == [p \in Presets |-> IF p = p2 THEN KeyCount ELSE 0]
=============================================================================
