SPECIFICATION FairSpec
CONSTANTS
    a1 = a1
    a2 = a2
    w1 = w1
    w2 = w2
    w3 = w3
    Workers <- MCWorkers
    Writers <- MCWriters
    WorkerOf <- MCWorkerOf
    MaxEvents = 4
    MaxRestarts = 1
    MaxTears = 1
INVARIANTS
    TypeOK
    LinksAreStored
    StoredOnce
    DamageBounded
PROPERTIES
    WaitEnds
\* The bounded number of events is used up.
CHECK_DEADLOCK FALSE
