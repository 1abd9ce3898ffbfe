\* Two peers to dial.  One of them (lan) may also connect to us, under the same info.
CONSTANTS
    Dialers = {d1, d2}
    Accepters = {a1}
    DialInfos = {wan, lan}
    AcceptInfos = {lan, in}
    BackoffLimit = 1
    Nil = Nil
SPECIFICATION Spec
SYMMETRY Symmetry
INVARIANTS
    TypeOK
    EntryHasOwner
    RunningDialerIsListed
    NoLeakedSocket
    UpIsHandled
CHECK_DEADLOCK FALSE
