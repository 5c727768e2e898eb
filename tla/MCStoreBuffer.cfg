SPECIFICATION Spec
CONSTANTS
    d1 = d1
    d2 = d2
    Blank = Blank
    Data = {d1, d2}
    MaxAddr = 1
    Sizes = {1, 2}
    SPEC_DEPTH = 2
    COMMIT_DEPTH = 2
SYMMETRY DataSymmetry
PROPERTY ImplementsStoreQueue
INVARIANTS TypeOK RingCoherent ForwardingSeesProgramOrder
