CONSTANTS
    Capacity = 8
    File = {"low", "mid", "gap", "high"}
    Load <- MCLoad
    Size <- MCSize
    ShmSizes = {1, 2}
    MaxPcb = 4
    MaxShm = 2
CHECK_DEADLOCK FALSE
SPECIFICATION Spec
INVARIANT LookupIsIndex
