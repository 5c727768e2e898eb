SPECIFICATION AccessSpec
CONSTANTS
    MaxAddr = 1
    Sizes = {1, 2}
    Data = {1, 2}
    SPEC_DEPTH = 2
    COMMIT_DEPTH = 2
    Blank = 0
INVARIANT LoadsSeeUnbufferedStores
CHECK_DEADLOCK FALSE
