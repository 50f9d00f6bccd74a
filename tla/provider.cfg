SPECIFICATION CallSpec
CONSTANTS
    None = None
    MaxTokens = 5
INVARIANT ParsesExactly
INVARIANT ResponseIsMeant
CHECK_DEADLOCK FALSE
