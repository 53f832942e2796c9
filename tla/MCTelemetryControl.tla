------------------------- MODULE MCTelemetryControl -------------------------
(***************************************************************************)
(* Two requests and two vehicles; requests, vehicles and trust profiles are *)
(* interchangeable, and clients are old until they are upgraded.  Only a   *)
(* reconciliation works on more than one vehicle: without one, both        *)
(* requests are about the same vehicle and the other one plays no part.    *)
(***************************************************************************)
EXTENDS TelemetryControl, FiniteSets, TLC

Symmetry ==
    Permutations(Vehicles) \cup Permutations(Ops) \cup Permutations(Trusts)

MCInit ==
    /\ Init
    /\ \A v \in Vehicles, m \in Clients : client[v] <= m
    /\ \/ \E o \in Ops : kind[o] = "reconcile"
       \/ \E v \in Vehicles :
             /\ \A o \in Ops : vehicle[o] = v
             /\ \A w \in Vehicles \ {v} : tesla[w] = NoConfig

\* State constraint.
OneUpgrade ==
    Cardinality({v \in Vehicles : \E m \in Clients : m < client[v]}) <= 1

MCSpec == MCInit /\ [][Next]_vars
=============================================================================
