SPECIFICATION Spec
CONSTANTS
    SIZE = 3
    Regs = {0, 1}
    Values = {1, 2}
    Programs <- FpAndIllegal
INVARIANT OperandsFollowProgramOrder
