SPECIFICATION Spec
CONSTANTS
    Users = {u1, u2}
    ClientIds = {default, other}
    DefaultClient = default
    AccessTtl = 2
    RefreshTtl = 3
    MaxPairs = 4
    MaxTime = 3
    Ips = {ip1}
    Capacity = 1
    RefillPerTick = 1
    RefillInterval = 1
    CleanupInterval = 2
    MaxBoots = 1
INVARIANTS
    TypeOK
    OneLivePerLogin
    ReuseEndsSessions
    AdmissionsPaced
\* The clock is bounded.
CHECK_DEADLOCK FALSE
