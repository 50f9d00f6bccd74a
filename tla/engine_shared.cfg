SPECIFICATION Spec
CONSTANTS
    Clients = {runtime, approver}
    Operators = {approver}
    Workflows = {w1}
    Tasks = {t1}
    None = None
    MaxLedger = 6
INVARIANT TypeOK
INVARIANT ProjectionBacked
INVARIANT ProjectionLag
INVARIANT LedgerContinuous
INVARIANT AnswersFollowPause
CHECK_DEADLOCK FALSE
