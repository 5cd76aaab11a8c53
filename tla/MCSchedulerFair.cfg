CONSTANTS
    Proc = {p1, p2, p3}
    NoProc = NoProc
    Sem = {}
    NoSem = NoSem
    Algos = {"RR", "MLFQ"}
    Quanta = {1, 2}
    Ratios = {2}
    LowFactor = 3
    DemoteAfter = 1
    InitValues = {0}
    MaxSemValue = 1
    MaxArrivals = 0
    Swis = {20}
SPECIFICATION Spec
PROPERTIES RRServed MLFQServed
