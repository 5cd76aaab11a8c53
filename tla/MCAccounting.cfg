CONSTANTS
    Proc = {0, 1}
    NoProc = NoProc
    Sem = {s1}
    NoSem = NoSem
    Algos = {"FCFS", "RR", "MLFQ"}
    Quanta = {1}
    Ratios = {2}
    LowFactor = 3
    DemoteAfter = 1
    InitValues = {0}
    MaxSemValue = 1
    MaxArrivals = 2
    Swis = {23, 24, 25, 26}
    Times = {2}
    MaxSlices = 3
    MaxClock = 3
SPECIFICATION ASpec
INVARIANTS
    OneAtATime TimesAddUp FirstServedInOrder LogsInOrder ChartComplete
PROPERTIES ArrivalsOnTime AllArrive StrandedForever
