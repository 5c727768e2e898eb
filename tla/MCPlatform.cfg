SPECIFICATION FairSpec
CONSTANTS
    Sources = {1, 2}
    FifoDepth = 2
    Half = 4
    StoreDepth = 2
    StartMemory <- MCStartMemory
    Programs <- MCPrograms
INVARIANTS
    PlatformTypes
    UartLineFresh
    BytesInOrder
    DmaDoneMeansCopied
PROPERTIES
    MachineIsolated
    ReturnsRestore
    NoEarlyTimer
    ConsoleServed
    TxFinishes
    TimerFires
    DmaFinishes
