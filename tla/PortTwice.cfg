CONSTANTS
    g1 = g1
    g2 = g2
    GameServers = {g1, g2}
    Ports = {p1, p2}
    Nodes = {n1, n2}
    Workers = {w1}
    Amount <- OneAndTwo
    TCPUDP = {}
    MaxSlots = 2
    MaxFaults = 0
SPECIFICATION Spec
INVARIANT PortsOfAGameServerDiffer
CHECK_DEADLOCK FALSE
