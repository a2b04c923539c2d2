---------------------------- MODULE MCUserSettings ----------------------------
(***************************************************************************)
(* Symmetry for the run of UserSettings.                                   *)
(***************************************************************************)
EXTENDS UserSettings, TLC

Symmetry == Permutations(Workers)
=============================================================================
