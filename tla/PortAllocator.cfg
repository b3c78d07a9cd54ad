CONSTANTS
    g1 = g1
    g2 = g2
    GameServers = {g1, g2}
    Ports = {p1, p2}
    Nodes = {n1, n2}
    Workers = {w1, w2}
    Amount <- Two
    TCPUDP = {}
    MaxSlots = 2
    MaxFaults = 2
SPECIFICATION Spec
SYMMETRY Symmetry
INVARIANTS TypeOK HeldPortsAreTaken
PROPERTIES RestartIsExact
CHECK_DEADLOCK FALSE
