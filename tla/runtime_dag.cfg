SPECIFICATION FairRunSpec
CONSTANTS
    Runtime = runtime
    Clients = {runtime}
    Operators = {}
    Workflows = {1}
    Tasks = {1, 2, 3}
    None = None
    MaxLedger = 100
    Graphs <- ThreeTaskGraphs
    IterationsPerTask = 1
INVARIANT QuiescentVerdict
PROPERTY ImplementsDag
PROPERTY RunAdvances
PROPERTY Terminates
CHECK_DEADLOCK FALSE
