SPECIFICATION Spec
CONSTANTS
    Users = {u1, u2}
    VINs = {v1, v2}
    Messages = {m1}
    Handlers = {h1, h2}
    None = None
INVARIANTS
    OneOwner
    AckedIsStored
    RowsAreOwners
    DisabledIsQuarantined
PROPERTIES
    EventuallyAcked
