SPECIFICATION Spec
CONSTANTS
    m1 = m1
    m2 = m2
    m3 = m3
    p1 = p1
    p2 = p2
    None = None
    Jobs = {j1, j2}
    Materials = {m1, m2}
    Profiles = {p1}
    Trusts <- TrustsAll
    MaxFailures = 0
    MaxCutovers = 0
INVARIANTS
    NewestReleaseIntact
