SPECIFICATION Spec
CONSTANTS
    Users = {u1}
    VINs = {v1, v2, v3}
    Calls = {c1, c2}
    None = None
    Retries = 2
    PageSize = 1
    MaxPages = 2
SYMMETRY Symmetry
CHECK_DEADLOCK FALSE
INVARIANTS
    WritesRunOnce
    ListingsComplete
PROPERTIES
    KeptWhileListed
