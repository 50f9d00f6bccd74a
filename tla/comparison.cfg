SPECIFICATION Spec
CONSTANTS
    FaultConfigs <- UpToTwoFaults
    Tools = {"run_command"}
    MaxOccurrence = 2
    BaselineIterations = 2
    DurableIterations = 2
    None = None
INVARIANT FaultsOnTime
INVARIANT LossHasCause
PROPERTY SuccessIsEarned
PROPERTY Ends
CHECK_DEADLOCK FALSE
