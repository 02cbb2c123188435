SPECIFICATION FairSpec
CONSTANTS
    BaseScores <- MCBaseScores
    MaxInterruptions = 2
INVARIANTS
    TypeOK
    AuthorizedRemediation
    ReplayBounded
    HaltHonoured
    ClaimBacked
PROPERTIES
    ImplementsPipeline
    Terminates
