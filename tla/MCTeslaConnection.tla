-------------------------- MODULE MCTeslaConnection --------------------------
(* Small instances of TeslaConnection for TLC. *)
EXTENDS TeslaConnection, TLC

\* Token sets are interchangeable, and so are OAuth states.
Symmetric == Permutations(Tokens) \cup Permutations(States)
=============================================================================
