SPECIFICATION RecoverySpec
CONSTANTS
    Clients = {runtime}
    Operators = {}
    Workflows = {w1}
    Tasks = {t1}
    None = None
    MaxLedger = 5
INVARIANT TasksRecovered
INVARIANT TasksBacked
INVARIANT WorkflowRecoveredUnlessTaskEnded
INVARIANT WorkLeftIsFound
CHECK_DEADLOCK FALSE
