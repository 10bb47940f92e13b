------------------------------- MODULE MCDeals -------------------------------
(***************************************************************************)
(* Small instances of Deals.  Two figures give a deal with and without a   *)
(* deposit; two handlers are enough for one to read before the other's     *)
(* write and to write after it.                                            *)
(***************************************************************************)
EXTENDS Deals, TLC

Symmetry == Permutations(Calls)
=============================================================================
