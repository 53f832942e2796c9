--------------------------- MODULE VehicleRegistry ---------------------------
(***************************************************************************)
(* The vehicle documents and the VIN index, which the OAuth callback of    *)
(* each user writes with the vehicles that Tesla lists for that user.      *)
(*                                                                         *)
(* A vehicle's document id is a hash of its first owner and its VIN, so a  *)
(* document is named here by that pair, and holds no other owner or VIN.   *)
(* The descriptive fields (name, firmware, key pairing) are left out.      *)
(***************************************************************************)
CONSTANTS
    Users,
    VINs,
    None

ASSUME NoneAssumption == None \notin Users

VARIABLES
    index,     \* vehicle_vin_index: per VIN, the owner_user_id
    vehicles   \* per document <<owner, VIN>>, its authorization_status

registryVars == <<index, vehicles>>

RegistryTypeOK ==
    /\ index \in [VINs -> Users \cup {None}]
    /\ vehicles \in [Users \X VINs -> {"absent", "active", "not_returned"}]

RegistryInit ==
    /\ index = [v \in VINs |-> None]
    /\ vehicles = [d \in Users \X VINs |-> "absent"]

\* (variant: an indexed VIN is taken over)
ClaimableByAnyone(u, listed) == TRUE

\* VehicleOwnershipConflictError unless nobody else holds any of the VINs.
Claimable(u, listed) == \A v \in listed : index[v] \in {None, u}

\* The index entries of the listed vehicles.
IndexListed(u, listed) ==
    index' = [v \in VINs |-> IF v \in listed THEN u ELSE index[v]]

\* The listed vehicles become active; the user's others, all of the one
\* connection a user ever has, were not returned.
WriteVehicles(u, listed) ==
    vehicles' = [d \in Users \X VINs |->
        IF d[1] # u THEN vehicles[d]
        ELSE IF d[2] \in listed THEN "active"
        ELSE IF vehicles[d] = "absent" THEN "absent"
        ELSE "not_returned"]

\* sync_vehicles: one transaction; Tesla may list any vehicles, also ones that
\* another user's account lists as well.
SyncVehicles(u, listed) ==
    /\ Claimable(u, listed)
    /\ IndexListed(u, listed)
    /\ WriteVehicles(u, listed)

RegistryNext == \E u \in Users : \E listed \in SUBSET VINs : SyncVehicles(u, listed)

(***************************************************************************)
(* Properties.                                                             *)
(***************************************************************************)

\* Index and documents agree: a VIN has one document, that of the indexed
\* owner, whatever lists the users' callbacks bring (_sync_vehicles).
OneOwner ==
    \A u \in Users, v \in VINs :
        vehicles[<<u, v>>] # "absent" <=> index[v] = u
=============================================================================
