--------------------------- MODULE MCMemoService ---------------------------
(***************************************************************************)
(* Symmetry for the safety runs of MemoService: workers and memo bodies    *)
(* are interchangeable, users are not (one of them is the host).           *)
(***************************************************************************)
EXTENDS MemoService, TLC

Symmetry == Permutations(Workers) \cup Permutations(Bodies)
=============================================================================
