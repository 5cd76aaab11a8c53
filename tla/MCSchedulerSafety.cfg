CONSTANTS
    Proc = {p1, p2, p3}
    NoProc = NoProc
    Sem = {s1}
    NoSem = NoSem
    Algos = {"FCFS", "RR", "MLFQ"}
    Quanta = {0, 1}
    Ratios = {2}
    LowFactor = 3
    DemoteAfter = 1
    InitValues = {1}
    MaxSemValue = 1
    MaxArrivals = 1
    Swis = {20, 23, 24, 25, 26, 27}
SPECIFICATION Spec
SYMMETRY Symmetry
INVARIANTS
    TypeOK NoDuplicate NotLost Exclusive ReadyByPriority StateByQueue ContextSafe NoNullDeref LowQueuesOnlyMLFQ
PROPERTY ImplementsLifecycle
