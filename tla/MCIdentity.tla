------------------------------ MODULE MCIdentity ------------------------------
(* Small instances of Identity for TLC. *)
EXTENDS Identity, TLC

\* Every set of model values is interchangeable.
Symmetric ==
    Permutations(Emails) \cup Permutations(Identities) \cup Permutations(Users)
        \cup Permutations(Operators)
=============================================================================
