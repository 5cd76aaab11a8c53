CONSTANTS
    Proc = {1, 2}
    NoProc = 0
    Sem = {s1}
    NoSem = NoSem
    Algos = {"RR", "MLFQ"}
    Quanta = {1}
    Ratios = {2}
    LowFactor = 3
    DemoteAfter = 1
    InitValues = {0}
    MaxSemValue = 1
    MaxArrivals = 1
    Swis = {20, 23, 24, 25, 26, 27}
    Capacity = 4
    File = {"low", "high"}
    Load <- MCLoad
    Size <- MCSize
    ShmSizes = {1, 2}
    MaxPcb = 2
    MaxShm = 1
SPECIFICATION SysSpec
INVARIANTS LiveByStage AllReturned
PROPERTIES ImplementsScheduler ImplementsMemory StrandedKeepsMemory
