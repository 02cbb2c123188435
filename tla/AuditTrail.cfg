SPECIFICATION Spec
CONSTANTS
    Processes = {w1, w2}
    MaxLines = 4
    MaxDay = 1
    MaxTears = 2
    MaxCrashes = 2
INVARIANTS
    TypeOK
    LinksBackwards
    SoleWriterVerifies
    SpoiltBounded
    RootsBounded
PROPERTIES
    BrokenForever
\* The bounded log fills up and the bounded days pass.
CHECK_DEADLOCK FALSE
