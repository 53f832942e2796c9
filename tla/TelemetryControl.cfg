CONSTANTS
    Vehicles = {v1, v2}
    Ops = {o1, o2}
    Trusts = {t1, t2}
    Clients = {1, 3}
    Attempts = 1
    NoConfig = NoConfig
    NoVehicle = NoVehicle
SPECIFICATION MCSpec
SYMMETRY Symmetry
CONSTRAINT OneUpgrade
INVARIANTS SyncedWasReached FieldsWereAsked CutoverProved LoneSuccessAgrees
PROPERTIES WritesRecorded
CHECK_DEADLOCK FALSE
