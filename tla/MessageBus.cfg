SPECIFICATION FairSpec
CONSTANTS
    MaxMessages = 3
    MaxSubscriptions = 3
    MaxFaults = 3
    BatchSize = 2
    MaxLen = 1
INVARIANTS
    TypeOK
    LossBounded
PROPERTIES
    ImplementsMailbox
    EventuallySettled
\* The bounded number of messages is used up.
CHECK_DEADLOCK FALSE
