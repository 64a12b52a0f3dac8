----------------------------- MODULE MCReviews -----------------------------
(***************************************************************************)
(* Reviews on a small instance.                                            *)
(***************************************************************************)
EXTENDS Reviews, TLC

Symmetry == Permutations(Users) \cup Permutations(Clients) \cup Permutations(Ids)
=============================================================================
