\* One peer, removed while its dial completes.
CONSTANTS
    Dialers = {d1}
    Accepters = {a1}
    DialInfos = {wan}
    AcceptInfos = {in}
    BackoffLimit = 1
    Nil = Nil
SPECIFICATION Spec
PROPERTY RemovedPeerGoes
CHECK_DEADLOCK FALSE
