CONSTANTS
    a = a
    b = b
    Ends = {a, b}
    Connecting = {a, b}
    Total <- TotalOne
    Eager = {b}
    Isn <- Isns
    SeqSpace = 8
    MaxSeg = 1
    MaxWin = 2
    MaxInPkt = 2
    Capacity <- Capacities
    Overtaking = TRUE
    Impatient = {}
SPECIFICATION Spec
INVARIANT Integrity
CHECK_DEADLOCK FALSE
