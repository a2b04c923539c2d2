---------------------------- MODULE MCResources -----------------------------
(***************************************************************************)
(* Symmetry for the safety runs of Resources: users, contents and workers  *)
(* are interchangeable, and so are the paths on either side of Fresh.      *)
(***************************************************************************)
EXTENDS Resources, TLC

Symmetry == Permutations(Users)
            \cup Permutations(Fresh) \cup Permutations(Paths \ Fresh)
            \cup Permutations(Contents) \cup Permutations(Workers)
=============================================================================
