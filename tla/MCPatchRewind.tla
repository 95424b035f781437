--------------------------- MODULE MCPatchRewind ---------------------------
(***************************************************************************)
(* PatchRewind on small instances: two writes and no rewind                *)
(* (MCPatchJournal.cfg), one write that two commands want to undo          *)
(* (MCPatchRewind.cfg, MCStuckRewind.cfg).                                 *)
(***************************************************************************)
EXTENDS PatchRewind, TLC

Symmetry == Permutations(Call) \cup Permutations(Rewind) \cup Permutations(Run)
            \cup Permutations(Resumer) \cup Permutations(Text)
=============================================================================
