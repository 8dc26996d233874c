---------------------------- MODULE HookSettings ----------------------------
(***************************************************************************)
(* Claude's settings.json as the daemon edits it: one event's list of hook *)
(* blocks, and the status line.  A block is the set of its entries: Ours;  *)
(* Alike, a user's that names one of the daemon's scripts or posts to a    *)
(* /hooks/ URL of any host; or any other of a user's.                      *)
(***************************************************************************)
EXTENDS Naturals, Sequences, SequencesExt

CONSTANTS Ours, Alike, None,
          Odd            \* anything in the place of the list that is not a list

\* is_managed_hook_block, which goes by the text of the entries.
Managed(block) == block \cap {Ours, Alike} # {}
Unmanaged(blocks) == SelectSeq(blocks, LAMBDA b : ~Managed(b))

NoSettings == [blocks |-> <<>>, status |-> None]

\* apply_hook_entries, merge_managed_hook: what is ours is replaced, and so is what
\* is not of the expected shape; the status line is overwritten whoever set it.
\* (Mutant: what is ours already is left there.)
Kept(blocks) == IF blocks = Odd THEN <<>> ELSE Unmanaged(blocks)
InstallAgain(s) ==
  [blocks |-> Append(IF s.blocks = Odd THEN <<>> ELSE s.blocks, {Ours}), status |-> Ours]
Install(s) == [blocks |-> Append(Kept(s.blocks), {Ours}), status |-> Ours]

\* uninstall_hooks_result, which passes over what is not a list.
Uninstall(s) ==
  [blocks |-> IF s.blocks = Odd THEN Odd ELSE Unmanaged(s.blocks),
   status |-> IF s.status = Ours THEN None ELSE s.status]

\* are_hooks_installed
Installed(s) == s.blocks # Odd /\ \E i \in DOMAIN s.blocks : Managed(s.blocks[i])
=============================================================================
