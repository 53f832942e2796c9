SPECIFICATION Spec
CONSTANTS
    Calls = {c1, c2}
    Polls = 2
INVARIANTS
    ExecutedAtMostOnce
    NotSentIsTrue
    ReplyMatchesRecord
    WakesRecorded
PROPERTIES
    AuditLogSpec
    CallsEnd
