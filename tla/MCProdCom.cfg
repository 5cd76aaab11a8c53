CONSTANTS
    Producer = producer
    Consumer = consumer
    Proc = {producer, consumer}
    NoProc = NoProc
    Sem = {s1}
    NoSem = NoSem
    Algos = {"FCFS", "RR", "MLFQ"}
    Quanta = {2, 3, 4, 5, 6, 7, 8, 9, 10}
    Ratios = {1, 2, 3}
    LowFactor = 1000
    DemoteAfter = 5
    InitValues = {1}
    MaxSemValue = 20
    MaxArrivals = 0
    Swis = {20, 21, 24, 25, 26, 27}
    Limit = 3
    Base = 0
    Words = {0, 4}
    Strings <- NoStrings
    Code <- ProgramOf
SPECIFICATION PCSpec
INVARIANTS InOrder NoneLost
PROPERTY BothEnd
