--------------------------- MODULE MCFleetRequests ---------------------------
(***************************************************************************)
(* FleetRequests for TLC.  No call and no vehicle is distinguished.        *)
(***************************************************************************)
EXTENDS FleetRequests

Symmetry == Permutations(Calls) \cup Permutations(VINs)
=============================================================================
