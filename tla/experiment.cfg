SPECIFICATION Spec
CONSTANTS
    Runs = {r1, r2}
    task = task
    Tasks = {task}
    Configs <- OneTaskTwice
    Torn = Torn
    None = None
INVARIANT ComparisonIsolated
INVARIANT EveryRepeatAccounted
INVARIANT SummaryMatchesEntries
SYMMETRY RunSymmetry
CHECK_DEADLOCK FALSE
