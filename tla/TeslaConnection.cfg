SPECIFICATION Spec
CONSTANTS
    Requests = {r1, r2}
    Callbacks = {r1, r2}
    Tokens = {t1, t2, t3, t4}
    States = {s1, s2}
    None = None
SYMMETRY Symmetric
INVARIANT StoredTokenUsable
INVARIANT RefusalMeansSuperseded
PROPERTY HistorySpec
PROPERTY StateRedeemedOnce
PROPERTY RegionOfStoredGrant
