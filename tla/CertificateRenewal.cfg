SPECIFICATION Spec
CONSTANTS
    m1 = m1
    m2 = m2
    m3 = m3
    p1 = p1
    p2 = p2
    None = None
    Jobs = {j1}
    Materials = {m1, m2, m3}
    Profiles = {p1, p2}
    Trusts <- TrustsSome
    MaxFailures = 1
    MaxCutovers = 1
INVARIANTS
    CutoversApproved
    NewestReleaseIntact
    LastVerifiedIntact
PROPERTY EventuallyRenewed
