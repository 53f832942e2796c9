SPECIFICATION Spec
CONSTANTS
    m1 = m1
    m2 = m2
    m3 = m3
    p1 = p1
    p2 = p2
    None = None
    Jobs = {j1}
    Materials = {m1, m2, m3}
    Profiles = {p1}
    Trusts <- TrustsAll
    MaxFailures = 2
    MaxCutovers = 0
INVARIANTS
    RollbackRestoresHealthy
