----------------------------- MODULE MCJobQueue -----------------------------
(* Small instances of JobQueue for TLC. *)
EXTENDS JobQueue, TLC

\* Worker identities and row identities are interchangeable.
Symmetry == Permutations(Workers) \cup Permutations(Ids)
=============================================================================
