SPECIFICATION ChainSpec
CONSTANTS
    Sizes = {1, 2}
    MaxInserts = 5
INVARIANTS
    EndMarked
    PointerValid
CHECK_DEADLOCK FALSE
