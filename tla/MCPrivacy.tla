----------------------------- MODULE MCPrivacy -----------------------------
(***************************************************************************)
(* Privacy on a small instance.                                            *)
(***************************************************************************)
EXTENDS Privacy, TLC

Symmetry == Permutations(Clients) \cup Permutations(RequestIds)
\* The answer of the last step says nothing about what happens next.
View == <<tables, clock, req, job, begun, faults, history>>
=============================================================================
