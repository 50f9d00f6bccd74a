SPECIFICATION ResumedSpec
CONSTANTS
    Runtime = runtime
    Clients = {runtime}
    Operators = {}
    Workflows = {1, 2}
    Tasks = {1, 2}
    None = None
    MaxLedger = 100
    Graphs <- DependentTasks
    IterationsPerTask = 1
INVARIANT WorkflowRecovered
CHECK_DEADLOCK FALSE
