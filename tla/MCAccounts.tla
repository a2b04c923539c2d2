----------------------------- MODULE MCAccounts -----------------------------
(***************************************************************************)
(* Symmetry for the safety runs of Accounts: workers are interchangeable.  *)
(***************************************************************************)
EXTENDS Accounts, TLC

Symmetry == Permutations(Workers)
=============================================================================
