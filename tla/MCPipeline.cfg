SPECIFICATION Spec
CONSTANTS
    UserEnd = 9
    CodeEnd = 11
    Programs <- ControlFlow
    SIZE = 3
    Regs = {0}
    SPEC_DEPTH = 1
    COMMIT_DEPTH = 1
    FETCH_QUEUE_CAPACITY = 2
    DcacheSlots = 1
    FpuSlots = 1
    Latency <- Latencies
PROPERTIES ImplementsMachine NeverStopsEarly
INVARIANTS TypeOK ScoreboardRing ExIsYoungest
