SPECIFICATION Spec
CONSTANTS
    Tasks = {a, b, c}
    Outside = outside
INVARIANT CyclesGenuine
INVARIANT FindsCycles
PROPERTY Ends
CHECK_DEADLOCK FALSE
