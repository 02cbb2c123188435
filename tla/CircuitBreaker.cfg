SPECIFICATION FairSpec
CONSTANTS
    Calls = {c1, c2, c3, c4}
    FailureThreshold = 2
    RecoveryTimeout = 2
    HalfOpenMaxCalls = 2
INVARIANTS
    TypeOK
    TrippedIffNotClosed
    ProbesAccounted
PROPERTIES
    QuietAfterFailure
    Recovers
