------------------------- MODULE MCPortAllocator -------------------------
(* Small instances of PortAllocator: GameServers with one or two ports and *)
(* two ports per slot, so that slots fill up and are added.  With two nodes *)
(* and cordoning a restart may have fewer slots than a port has holders.   *)
EXTENDS PortAllocator, TLC

CONSTANTS g1, g2

OneAndTwo == g1 :> 1 @@ g2 :> 2
One == [g \in GameServers |-> 1]
Two == [g \in GameServers |-> 2]

Symmetry == Permutations(GameServers) \cup Permutations(Ports)
                \cup Permutations(Workers) \cup Permutations(Nodes)
=============================================================================
