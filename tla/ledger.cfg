SPECIFICATION Spec
CONSTANTS
    Writers = {w1, w2}
    Payloads = {p1}
    MaxEvents = 4
    MaxTears = 2
INVARIANT TypeOK
INVARIANT ChainVerifies
INVARIANT SequencesDense
INVARIANT AckedDurable
INVARIANT LossBounded
PROPERTY ImplementsLog
CHECK_DEADLOCK FALSE
