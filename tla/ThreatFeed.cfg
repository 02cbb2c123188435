SPECIFICATION FairSpec
CONSTANTS
    Clients = {a, b}
INVARIANTS
    TypeOK
    ApprovedByOwner
    ReaperAlive
PROPERTIES
    DeadUnregistered
    LeaverStops
    ApprovedProceeds
\* The clients may all have left for good.
CHECK_DEADLOCK FALSE
