----------------------------- MODULE MCParking -----------------------------
(***************************************************************************)
(* Parking on small instances.                                             *)
(***************************************************************************)
EXTENDS Parking, TLC

Symmetry == Permutations(Actors) \cup Permutations(Proposals)
            \cup Permutations(Contents) \cup Permutations(Places)
=============================================================================
