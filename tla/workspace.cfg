SPECIFICATION Spec
CONSTANTS
    Paths = {source, artifact}
    Output = {artifact}
    None = None
    MaxWrites = 3
    MaxCommits = 3
    MaxCheckpoints = 1
    MaxOrphans = 1
INVARIANT RollbackRestores
INVARIANT CommitHoldsWork
CHECK_DEADLOCK FALSE
