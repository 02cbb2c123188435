SPECIFICATION Spec
CONSTANTS
    Processes = {w1}
    MaxLines = 2
    MaxDay = 1
    MaxTears = 0
    MaxCrashes = 0
INVARIANTS
    UntamperedVerifies
CHECK_DEADLOCK FALSE
