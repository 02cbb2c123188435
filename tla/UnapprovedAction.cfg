SPECIFICATION Spec
CONSTANTS
    Clients = {a}
INVARIANTS
    ActionAuthorized
CHECK_DEADLOCK FALSE
