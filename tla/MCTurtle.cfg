CONSTANTS
    s = s
    m = m
    d = d
    h = h
    Nodes = {s, m, d}
    Friends <- Triangle
    Hashes = {h}
    Serves <- ServedByEnds
    Wants <- WantedByEnds
    MaxRequests = 2
    MaxItems = 2
    MaxData = 1
    Nil = Nil
SPECIFICATION Spec
INVARIANTS
    TypeOK
    DataFitsTunnel
    HopsAgree
    ListedTunnels
    ClientsInformed
CONSTRAINT KeepsMonitoring
CHECK_DEADLOCK FALSE
