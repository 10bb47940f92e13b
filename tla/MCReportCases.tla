---------------------------- MODULE MCReportCases ----------------------------
(***************************************************************************)
(* Small instances of ReportCases: two members who report one post, two    *)
(* cases, an appeal, the content page, and handlers one after another or   *)
(* two at a time.                                                          *)
(***************************************************************************)
EXTENDS ReportCases, TLC

Symmetry == Permutations(Procs) \cup Permutations(Members)
=============================================================================
