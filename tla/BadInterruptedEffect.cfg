SPECIFICATION Spec
CONSTANTS
    UserEnd = 6
    CodeEnd = 8
    Programs <- InterruptedEffects
    SIZE = 3
    Regs = {0}
    SPEC_DEPTH = 1
    COMMIT_DEPTH = 1
    FETCH_QUEUE_CAPACITY = 2
    DcacheSlots = 1
    FpuSlots = 1
    Latency <- Latencies
INVARIANT EffectsAppliedOnce
