---------------------------- MODULE MCShortcuts ----------------------------
(***************************************************************************)
(* Symmetry for the run of Shortcuts.                                      *)
(***************************************************************************)
EXTENDS Shortcuts, TLC

Symmetry == Permutations(Workers) \cup Permutations(Bodies)
=============================================================================
