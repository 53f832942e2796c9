SPECIFICATION IdentitySpec
CONSTANTS
    Emails = {e1, e2, e3}
    Identities = {i1, i2, i3}
    Users = {u1, u2, u3}
    Operators = {o1, o2}
    None = None
SYMMETRY Symmetric
INVARIANT BindingConsistent
INVARIANT OneIdentityPerUser
INVARIANT ActiveImpliesProvisioned
