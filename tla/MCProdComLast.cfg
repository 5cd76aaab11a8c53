CONSTANTS
    Producer = producer
    Consumer = consumer
    Proc = {producer, consumer}
    NoProc = NoProc
    Sem = {s1}
    NoSem = NoSem
    Algos = {"FCFS", "RR"}
    Quanta = {2}
    Ratios = {1}
    LowFactor = 1000
    DemoteAfter = 5
    InitValues = {1}
    MaxSemValue = 20
    MaxArrivals = 0
    Swis = {20, 21, 24, 25, 26, 27}
    Limit = 3
    Base = 0
    Words = {0, 4}
    Strings <- NoStrings
    Code <- ProgramOf
SPECIFICATION PCSpec
INVARIANT LastValueRead
