CONSTANTS
    g1 = g1
    g2 = g2
    GameServers = {g1}
    Ports = {p1, p2}
    Nodes = {n1, n2}
    Workers = {w1, w2}
    Amount <- One
    TCPUDP = {}
    MaxSlots = 2
    MaxFaults = 0
SPECIFICATION Spec
INVARIANT NothingLeaks
CHECK_DEADLOCK FALSE
