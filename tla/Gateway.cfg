CONSTANTS
    Browsers = {b1, b2}
    Identities = {i1}
    Logins = {l1, l2}
    Sessions = {s1, s2}
    Grants = {g1}
    Handlers = {h1, h2}
    None = None
SPECIFICATION Spec
INVARIANTS SessionOfItsBrowser LoginOpensOneSession SignedOutStaysOut GrantOfItsStarter
CHECK_DEADLOCK FALSE
SYMMETRY Symmetry
CONSTRAINT Few
