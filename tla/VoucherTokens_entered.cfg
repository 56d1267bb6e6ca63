SPECIFICATION Spec
CONSTANTS
    Attempts = {a1, a2}
    MaxRotations = 3
    MaxOutages = 1
INVARIANT EnteredTokensAreUsed
CHECK_DEADLOCK FALSE
