CONSTANTS
    g1 = g1
    g2 = g2
    GameServers = {g1}
    Ports = {p1, p2}
    Nodes = {n1, n2}
    Workers = {w1}
    Amount <- One
    TCPUDP = {}
    MaxSlots = 2
    MaxFaults = 1
SPECIFICATION Spec
INVARIANT EveryHeldPortIsTaken
CHECK_DEADLOCK FALSE
