-------------------------------- MODULE MCJobs --------------------------------
(***************************************************************************)
(* Small instances of Jobs: two jobs of one provider, two handlers.        *)
(***************************************************************************)
EXTENDS Jobs
=============================================================================
