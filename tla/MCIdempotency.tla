---------------------------- MODULE MCIdempotency ----------------------------
(***************************************************************************)
(* Small instances of Idempotency: three senders, two of whom may send the *)
(* same body, and two deaths, so that a takeover can itself be abandoned.  *)
(***************************************************************************)
EXTENDS Idempotency, TLC
=============================================================================
