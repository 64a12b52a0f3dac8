------------------------------- MODULE MCPhotos -------------------------------
(* Photos, as TLC checks it. *)
EXTENDS Photos, TLC
Symmetry == Permutations(Clients)
=============================================================================
