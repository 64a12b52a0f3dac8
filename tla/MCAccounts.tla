----------------------------- MODULE MCAccounts -----------------------------
(***************************************************************************)
(* Accounts on small instances: accounts made and recovered with emailed   *)
(* tokens, and accounts made through the OAuth provider.  The behaviour    *)
(* picks one of the two at the start.                                      *)
(***************************************************************************)
EXTENDS Accounts, TLC

VARIABLE signup

MCInit == Init /\ signup \in {"email", "oauth"}

MCNext ==
    /\ Next
    /\ signup = "email" => UNCHANGED google /\ \A r \in Requests : req'[r].subject = None
    /\ signup = "oauth" => UNCHANGED tokens /\ \A r \in Requests : req'[r].token = None
    /\ UNCHANGED signup

MCSpec == MCInit /\ [][MCNext]_<<vars, signup>>

Symmetry == Permutations(Users) \cup Permutations(Emails) \cup Permutations(Subjects)
            \cup Permutations(Tokens) \cup Permutations(Sessions) \cup Permutations(Requests)
=============================================================================
