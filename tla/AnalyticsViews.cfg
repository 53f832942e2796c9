CONSTANTS
    Runs = {m1, a1}
    Merge = {m1}
    Last = 2
SPECIFICATION Spec
INVARIANTS PreflightProtects AllOrNothing PublishedExactly
PROPERTIES UnmanagedKept
CHECK_DEADLOCK FALSE
