CONSTANTS
    k1 = k1
    k2 = k2
    addr1 = addr1
    net1 = net1
    addr2 = addr2
    net2 = net2
    m1 = m1
    m2 = m2
    m3 = m3
    Keys = {k1, k2}
    Dests = {addr1, net1, addr2, net2}
    DestsOf <- MCDestsOf
    Msgs = {m1, m2, m3}
    Dst <- MCDst
    InfoIds = {o1, o2}
    BufIds = {b1, b2}
    MaxLate = 1
    Nil = Nil
SPECIFICATION Spec
INVARIANTS
    TypeOK
    MapsAgree
    NoStrandedPacket
    SentToOwner
    SentOnce
    EverythingExpires
PROPERTIES
    OnlyOwnTimerRemoves
    PacketLeaves
CHECK_DEADLOCK FALSE
