------------------------------- MODULE MCGroups -------------------------------
(***************************************************************************)
(* Small instances of Groups: the creator and two others, two handlers at  *)
(* a time.                                                                 *)
(***************************************************************************)
EXTENDS Groups, TLC

Symmetry == Permutations(Procs) \cup Permutations(Users \ {Creator})
=============================================================================
