SPECIFICATION FairSpec
CONSTANTS
    UserEnd = 10
    CodeEnd = 12
    Programs <- UnitsAndStores
    SIZE = 4
    Regs = {0}
    SPEC_DEPTH = 2
    COMMIT_DEPTH = 1
    FETCH_QUEUE_CAPACITY = 2
    DcacheSlots = 2
    FpuSlots = 1
    Latency <- Latencies
INVARIANTS UnitsServeLiveEntries CommitsComputedResults StoreQueueMatchesScoreboard
    AtomicsFindBufferEmpty EffectsAppliedOnce
PROPERTY KeepsRetiring
