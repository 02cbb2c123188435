SPECIFICATION FairSpec
CONSTANTS
    Processes = {p1, p2}
    Namespaces = {threat_intel, incident_history}
    Provider = provider
    None = none
    MaxEvents = 1
    Configured = {"slack", "jira"}
    MaxRetries = 1
    MaxNetFaults = 2
    MaxDbFaults = 1
    MaxVecFaults = 1
INVARIANTS
    TypeOK
    LossExplained
PROPERTIES
    Replies
\* Every task comes to its end.
CHECK_DEADLOCK FALSE
