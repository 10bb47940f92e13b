-------------------------- MODULE MCServiceRequests --------------------------
(***************************************************************************)
(* Instances of ServiceRequests for TLC.  Requests share nothing but the   *)
(* handlers (the lock, the offers and the conversations are all keyed by   *)
(* the request), so one request is enough; professionals and handlers are  *)
(* interchangeable.                                                        *)
(***************************************************************************)
EXTENDS ServiceRequests, TLC

Symmetry == Permutations(Pros) \cup Permutations(Calls)
=============================================================================
