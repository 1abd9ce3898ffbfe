CONSTANTS
    a = a
    b = b
    Ends = {a, b}
    Connecting = {a, b}
    Total <- TotalOne
    Eager = {b}
    Isn <- Isns
    SeqSpace = 8
    MaxSeg = 1
    MaxWin = 2
    MaxInPkt = 2
    Capacity <- Capacities
    Overtaking = FALSE
    Impatient = {a, b}
SPECIFICATION Spec
INVARIANTS
    TypeOK
    Integrity
    NothingDropped
    EndOfStream
    TimerRuns
CHECK_DEADLOCK FALSE
CONSTRAINTS
    OneLife
    ReadsFirst
