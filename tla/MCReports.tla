----------------------------- MODULE MCReports -----------------------------
(***************************************************************************)
(* Reports on a small instance.                                            *)
(***************************************************************************)
EXTENDS Reports, TLC

Symmetry == Permutations(Moderators) \cup Permutations(Clients) \cup Permutations(ReportIds)
=============================================================================
