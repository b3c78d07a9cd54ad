CONSTANTS
    g1 = g1
    g2 = g2
    GameServers = {g1, g2}
    Ports = {p1, p2}
    Nodes = {n1, n2}
    Workers = {w1, w2}
    Amount <- One
    TCPUDP = {g1}
    MaxSlots = 2
    MaxFaults = 0
SPECIFICATION Spec
INVARIANT HeldPortsAreTaken
CHECK_DEADLOCK FALSE
