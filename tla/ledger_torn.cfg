SPECIFICATION Spec
CONSTANTS
    Writers = {w1}
    Payloads = {p1, p2}
    MaxEvents = 3
    MaxTears = 1
INVARIANT LossIsDetected
CHECK_DEADLOCK FALSE
