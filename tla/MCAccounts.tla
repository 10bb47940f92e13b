------------------------------ MODULE MCAccounts ------------------------------
(***************************************************************************)
(* Small instances of Accounts: two devices under a limit of one session,  *)
(* a session that is replaced, suspensions with an end and without, and    *)
(* two handlers that overlap each other and the sweep.                     *)
(***************************************************************************)
EXTENDS Accounts
=============================================================================
