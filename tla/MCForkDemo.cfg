CONSTANTS
    Root = root
    Squares = squares
    Crash = crash
    Unshared = unshared
    Others = {squares, crash, unshared}
    Proc = {root, child, grandchild, squares, crash, unshared}
    NoProc = NoProc
    Sem = {}
    NoSem = NoSem
    Algos = {"FCFS", "RR", "MLFQ"}
    Quanta = {1, 2, 3, 5}
    Ratios = {1, 3}
    LowFactor = 1000
    DemoteAfter = 5
    InitValues = {1}
    MaxSemValue = 1
    MaxArrivals = 0
    Swis = {20, 21, 22, 23, 24}
    PSTR = 100
    CSTR = 120
    GSTR = 140
    Base = 0
    Words = {8}
    Strings <- MCStrings
    Code <- MCPrograms
SPECIFICATION FDSpec
INVARIANTS MTypeOK PrintsOwn
PROPERTIES OwnSteps AllEnd
