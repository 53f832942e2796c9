----------------------------- MODULE MCGateway -----------------------------
(***************************************************************************)
(* An instance of Gateway for TLC.                                         *)
(***************************************************************************)
EXTENDS Gateway, FiniteSets, TLC

Symmetry ==
    Permutations(Browsers) \cup Permutations(Identities) \cup
    Permutations(Logins) \cup Permutations(Sessions) \cup Permutations(Handlers)

\* One page that is open, one logout, one grant that completes.
Few ==
    /\ Cardinality(signedOut) <= 1
    /\ Cardinality(connected) <= 1
    /\ Cardinality({<<b, s>> \in Browsers \X Sessions : s \in pages[b]}) <= 1
=============================================================================
