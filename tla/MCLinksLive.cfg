\* One dialer, two incoming connections.
CONSTANTS
    Dialers = {d1}
    Accepters = {a1, a2}
    DialInfos = {wan, lan}
    AcceptInfos = {lan, in}
    BackoffLimit = 1
    Nil = Nil
SPECIFICATION Spec
INVARIANTS
    SinglePeeringUnshared
PROPERTIES
    ImplementsPeerList
    PersistentRetries
    StopDrains
    RemoveStops
CHECK_DEADLOCK FALSE
