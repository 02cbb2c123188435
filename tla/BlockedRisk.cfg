SPECIFICATION Spec
CONSTANTS
    BaseScores <- MCBaseScores
    MaxInterruptions = 2
INVARIANTS
    BlockedRiskNotRemediated
