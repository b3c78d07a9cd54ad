--------------------------- MODULE PortAllocator ---------------------------
(***************************************************************************)
(* The dynamic host port allocator (pkg/portallocator/portallocator.go),   *)
(* one range, together with the only code that drives it: the              *)
(* PortAllocation step of the GameServer controller and the DeleteFunc of  *)
(* the GameServer informer.                                                *)
(*                                                                         *)
(* The allocator keeps a list of "slots", one map port -> taken per node   *)
(* it imagines.  A slot is not tied to a real node: the allocator promises *)
(* only that a port is open "somewhere", so what matters is how many slots *)
(* have a port taken.  The GameServer objects live in the API server, the  *)
(* allocator's books in memory; they are reconciled only at start-up.      *)
(***************************************************************************)
EXTENDS Integers, Sequences, FiniteSets

CONSTANTS
    GameServers,    \* UIDs, never reused
    Ports,          \* minPort .. maxPort
    Nodes,          \* the nodes of the cluster
    Workers,        \* goroutines that may be inside syncGameServer
    Amount,         \* [GameServers -> number of Dynamic / Passthrough ports]
    TCPUDP,         \* the GameServers whose ports use the TCPUDP protocol
    MaxSlots,       \* bound on len(portAllocations)
    MaxFaults       \* bound on crashes, lost requests and answers, missed events

ASSUME ConstantsAssumption ==
    /\ IsFiniteSet(GameServers) /\ IsFiniteSet(Nodes) /\ IsFiniteSet(Ports)
    /\ IsFiniteSet(Workers)
    /\ TCPUDP \subseteq GameServers
    /\ Amount \in [GameServers -> Nat \ {0}]
    /\ MaxSlots \in Nat /\ MaxFaults \in Nat

NoNode == "no node"
Informer == "informer"          \* the goroutine that runs syncDeleteGameServer
Actors == Workers \cup {Informer}

ASSUME NamesAssumption == NoNode \notin Nodes /\ Informer \notin Workers

VARIABLES
    portAllocations,     \* sequence of slots; a slot is its set of taken ports
    gameServerRegistry,  \* UIDs the allocator believes it has given ports to
    gameServer,          \* the GameServer objects in the API server
    lister,              \* the controller's cache of them
    actor,               \* what each goroutine holds between two steps
    cordoned,            \* the nodes that are marked unschedulable
    unbooked,            \* history: how many slots of a port the books lack
    faults               \* crashes, lost requests and answers, missed events

\* The code has no variable for `unbooked`.  It counts the entries given up with
\* open eyes: of an Update that was applied and taken for failed, and those for
\* which syncAll found no slot.  What HeldPortsAreTaken says is that there are no
\* others.
vars == <<portAllocations, gameServerRegistry, gameServer, lister, actor,
          cordoned, unbooked, faults>>

\* A GameServer object.  "Creating" stands for every state from Creating on:
\* all of them hold the host ports.  A deleted object is Gone, with its last
\* ports until its Delete event has been delivered.
Objects == [state : {"None", "PortAllocation", "Creating", "Gone"},
            ports : Seq(Ports), node : Nodes \cup {NoNode}, deleting : BOOLEAN]

Blank == [state |-> "None", ports |-> <<>>, node |-> NoNode, deleting |-> FALSE]
Unallocated == [state |-> "PortAllocation", ports |-> <<>>, node |-> NoNode, deleting |-> FALSE]
Forgotten == [state |-> "Gone", ports |-> <<>>, node |-> NoNode, deleting |-> FALSE]

\* pc "Update": holds a copy with ports, the request is out; "DeAllocate": is
\* about to look in the registry; "Release": found itself there, and will now
\* take the write lock.
\* The object a worker read has no ports and is not being deleted, whatever its
\* resourceVersion: there is no need to keep it.
Idle == [pc |-> "Idle", gs |-> "none", ports |-> <<>>]

SlotIds == DOMAIN portAllocations
Taken(p) == {i \in SlotIds : p \in portAllocations[i]}
Occurrences(ports, p) == {k \in DOMAIN ports : ports[k] = p}

TypeOK ==
    /\ portAllocations \in Seq(SUBSET Ports)
    /\ gameServerRegistry \subseteq GameServers
    /\ gameServer \in [GameServers -> Objects]
    /\ lister \in [GameServers -> Objects]
    /\ actor \in [Actors ->
          {Idle} \cup [pc : {"Update", "DeAllocate", "Release"}, gs : GameServers,
                       ports : Seq(Ports)]]
    /\ cordoned \subseteq Nodes
    /\ unbooked \in [Ports -> Nat]
    /\ faults \in 0..MaxFaults

Init ==
    /\ portAllocations = <<>>
    /\ gameServerRegistry = {}
    /\ gameServer = [g \in GameServers |-> Blank]
    /\ lister = gameServer
    /\ actor = [a \in Actors |-> Idle]
    /\ cordoned = {}
    /\ unbooked = [p \in Ports |-> 0]
    /\ faults = 0

Fault == faults < MaxFaults /\ faults' = faults + 1

-----------------------------------------------------------------------------
(* The operators of the allocator.                                         *)

AllSlots(slots, m) == {IF m = 0 THEN {} ELSE slots}

\* setPortAllocation changes the first slot that differs from `taken`; called
\* once for each of m occurrences it changes the first m of those slots.
FirstSlots(slots, m) ==
    {T \in SUBSET slots :
        /\ \A i \in T, j \in slots : j < i => j \in T
        /\ Cardinality(T) = IF m < Cardinality(slots) THEN m ELSE Cardinality(slots)}

OpenPorts(pa) == {o \in (DOMAIN pa) \X Ports : o[2] \notin pa[o[1]]}

\* findOpenPorts: slots in order, the open ports of one slot in map order (any
\* order), until there are `amount`.
findOpenPorts(pa, amount) ==
    {s \in [1..amount -> OpenPorts(pa)] :
        \A k \in 1..amount :
            /\ \A j \in 1..(k - 1) : s[j] # s[k] /\ s[j][1] <= s[k][1]
            /\ \A o \in OpenPorts(pa) : o[1] < s[k][1] => \E j \in 1..amount : s[j] = o}

\* "we ran out of ports. Add a node, and try again": r more empty slots.
Grow(pa, r) == pa \o [i \in 1..r |-> {}]

EnoughOpen(pa, amount) == Cardinality(OpenPorts(pa)) >= amount

\* Ports of the copy: with TCPUDP every port appears a second time, for UDP.
HostPorts(g, s) ==
    LET one == [k \in 1..Amount[g] |-> s[k][2]]
    IN  IF g \in TCPUDP THEN one \o one ELSE one

\* Allocate, under the mutex, by the PortAllocation step of syncGameServer.
\* The object comes from the lister and may be out of date.
Allocate(w, g) ==
    /\ actor[w] = Idle
    /\ lister[g] = Unallocated
    /\ \E r \in 0..(MaxSlots - Len(portAllocations)) :
         LET pa == Grow(portAllocations, r) IN
         /\ EnoughOpen(pa, Amount[g])
         /\ \A q \in 0..(r - 1) : ~EnoughOpen(Grow(portAllocations, q), Amount[g])
         /\ \E s \in findOpenPorts(pa, Amount[g]) :
              /\ portAllocations' = [i \in DOMAIN pa |->
                    pa[i] \cup {p \in Ports : \E k \in 1..Amount[g] : s[k] = <<i, p>>}]
              /\ actor' = [actor EXCEPT ![w] =
                    [pc |-> "Update", gs |-> g, ports |-> HostPorts(g, s)]]
    /\ gameServerRegistry' = gameServerRegistry \cup {g}
    /\ UNCHANGED <<gameServer, lister,
                   cordoned, unbooked, faults>>

\* The Update is accepted when the object is the one the worker read.
UpdateAccepted(w) ==
    LET g == actor[w].gs IN
    /\ actor[w].pc = "Update"
    /\ gameServer[g] = Unallocated
    /\ gameServer' = [gameServer EXCEPT ![g].state = "Creating", ![g].ports = actor[w].ports]
    /\ actor' = [actor EXCEPT ![w] = Idle]
    /\ UNCHANGED <<portAllocations, gameServerRegistry, lister, cordoned, unbooked, faults>>

DeAllocateWhatUpdateReturned(w) ==
    /\ actor[w].pc = "Update"
    /\ gameServer[actor[w].gs] # Unallocated
    /\ actor' = [actor EXCEPT ![w] = [Idle EXCEPT !.pc = "DeAllocate"]]
    /\ UNCHANGED <<portAllocations, gameServerRegistry, gameServer, lister,
                   cordoned, unbooked, faults>>

\* It is refused when the object has changed since, or is gone ...
UpdateRefused(w) ==
    /\ actor[w].pc = "Update"
    /\ gameServer[actor[w].gs] # Unallocated
    /\ actor' = [actor EXCEPT ![w].pc = "DeAllocate"]
    /\ UNCHANGED <<portAllocations, gameServerRegistry, gameServer, lister,
                   cordoned, unbooked, faults>>

\* ... or when the request never reaches the API server; the worker sees the
\* same error when the Update was applied and only its answer is lost.
UpdateLost(w) ==
    /\ Fault
    /\ actor[w].pc = "Update"
    /\ actor' = [actor EXCEPT ![w].pc = "DeAllocate"]
    /\ UNCHANGED <<portAllocations, gameServerRegistry, gameServer, lister, cordoned, unbooked>>

UpdateAnswerLost(w) ==
    LET g == actor[w].gs IN
    /\ Fault
    /\ actor[w].pc = "Update"
    /\ gameServer[g] = Unallocated
    /\ gameServer' = [gameServer EXCEPT ![g].state = "Creating", ![g].ports = actor[w].ports]
    /\ actor' = [actor EXCEPT ![w].pc = "DeAllocate"]
    /\ unbooked' = [p \in Ports |->
          unbooked[p] + Cardinality(Occurrences(actor[w].ports, p))]
    /\ UNCHANGED <<portAllocations, gameServerRegistry, lister, cordoned>>

\* DeAllocate looks in the registry under the read lock ...
DeAllocateFind(a) ==
    /\ actor[a].pc = "DeAllocate"
    /\ actor' = [actor EXCEPT ![a] =
          IF actor[a].gs \in gameServerRegistry THEN [@ EXCEPT !.pc = "Release"] ELSE Idle]
    /\ UNCHANGED <<portAllocations, gameServerRegistry, gameServer, lister,
                   cordoned, unbooked, faults>>

\* ... and releases the ports under the write lock.
DeAllocateRelease(a) ==
    /\ actor[a].pc = "Release"
    /\ \E freed \in [Ports -> SUBSET SlotIds] :
         /\ \A p \in Ports :
              freed[p] \in FirstSlots(Taken(p), Cardinality(Occurrences(actor[a].ports, p)))
         /\ portAllocations' = [i \in SlotIds |->
              {p \in portAllocations[i] : i \notin freed[p]}]
    /\ gameServerRegistry' = gameServerRegistry \ {actor[a].gs}
    /\ actor' = [actor EXCEPT ![a] = Idle]
    /\ UNCHANGED <<gameServer, lister,
                   cordoned, unbooked, faults>>

-----------------------------------------------------------------------------
(* The informer.                                                           *)

\* An Add or Update event, or the last of several that were coalesced.
Deliver(g) ==
    /\ lister[g] # gameServer[g]
    /\ gameServer[g].state # "Gone"
    /\ lister' = [lister EXCEPT ![g] = gameServer[g]]
    /\ UNCHANGED <<portAllocations, gameServerRegistry, gameServer, actor, cordoned, unbooked, faults>>

\* A Delete event: the cache drops the object, then syncDeleteGameServer is
\* called with its final version.
syncDeleteGameServer(g) ==
    /\ gameServer[g].state = "Gone" /\ lister[g].state # "Gone"
    /\ actor[Informer] = Idle
    /\ lister' = [lister EXCEPT ![g] = Forgotten]
    /\ gameServer' = [gameServer EXCEPT ![g] = Forgotten]
    /\ actor' = [actor EXCEPT ![Informer] =
          [pc |-> "DeAllocate", gs |-> g, ports |-> gameServer[g].ports]]
    /\ UNCHANGED <<portAllocations, gameServerRegistry, cordoned, unbooked, faults>>

\* When the watch broke, a relist reports the deletion as a
\* DeletedFinalStateUnknown: the type assertion fails and nothing is released.
DeliverTombstone(g) ==
    /\ Fault
    /\ gameServer[g].state = "Gone" /\ lister[g].state # "Gone"
    /\ lister' = [lister EXCEPT ![g] = Forgotten]
    /\ gameServer' = [gameServer EXCEPT ![g] = Forgotten]
    /\ UNCHANGED <<portAllocations, gameServerRegistry, actor, cordoned, unbooked>>

-----------------------------------------------------------------------------
(* The rest of the cluster: users, the GameServer controller, the scheduler *)

Create(g) ==
    /\ gameServer[g] = Blank
    /\ gameServer' = [gameServer EXCEPT ![g] = Unallocated]
    /\ UNCHANGED <<portAllocations, gameServerRegistry, lister, actor,
                   cordoned, unbooked, faults>>

\* The scheduler's host port filter, and the API server's refusal of a Pod that
\* names one host port twice.
Schedule(g, n) ==
    LET ports == gameServer[g].ports IN
    /\ gameServer[g].state = "Creating" /\ gameServer[g].node = NoNode
    /\ n \notin cordoned
    /\ \A j, k \in 1..Amount[g] : ports[j] = ports[k] => j = k
    /\ \A h \in GameServers : gameServer[h].state = "Creating" /\ gameServer[h].node = n
          => \A j \in DOMAIN ports, k \in DOMAIN gameServer[h].ports :
                ports[j] # gameServer[h].ports[k]
    /\ gameServer' = [gameServer EXCEPT ![g].node = n]
    /\ UNCHANGED <<portAllocations, gameServerRegistry, lister, actor,
                   cordoned, unbooked, faults>>

MarkDeleted(g) ==
    /\ gameServer[g].state \in {"PortAllocation", "Creating"} /\ ~gameServer[g].deleting
    /\ gameServer' = [gameServer EXCEPT ![g].deleting = TRUE]
    /\ UNCHANGED <<portAllocations, gameServerRegistry, lister, actor,
                   cordoned, unbooked, faults>>

RemoveFinalizer(g) ==
    /\ gameServer[g].deleting /\ gameServer[g].state # "Gone"
    /\ gameServer' = [gameServer EXCEPT ![g].state = "Gone"]
    /\ UNCHANGED <<portAllocations, gameServerRegistry, lister, actor,
                   cordoned, unbooked, faults>>

\* An operator, or the autoscaler that wants to drain the node.
Cordon(n) ==
    /\ cordoned' = IF n \in cordoned THEN cordoned \ {n} ELSE cordoned \cup {n}
    /\ UNCHANGED <<portAllocations, gameServerRegistry, gameServer, lister, actor,
                   unbooked, faults>>

-----------------------------------------------------------------------------
(* Crash and restart: the caches are listed afresh, then syncAll rebuilds   *)
(* the books from them.                                                     *)

Holding == {g \in GameServers : gameServer[g].state = "Creating"}
Schedulable == Nodes \ cordoned

\* The (GameServer, index) pairs that hold p, and those of them on a known node.
Indexes == UNION {DOMAIN gameServer[g].ports : g \in GameServers}
Held(p) == {h \in Holding \X Indexes : h[2] \in Occurrences(gameServer[h[1]].ports, p)}
OnNode(h) == gameServer[h[1]].node \in Schedulable
nodePortAllocation(p) == {gameServer[h[1]].node : h \in {x \in Held(p) : OnNode(x)}}
unscheduledPorts(p) == {h \in Held(p) : gameServer[h[1]].node = NoNode}
nonReadyNodesPorts(p) == {h \in Held(p) : ~OnNode(h)}

nodePortCount(n) ==
    Cardinality({h \in Holding \X Indexes : h[2] \in DOMAIN gameServer[h[1]].ports
                                            /\ gameServer[h[1]].node = n})

\* The nodes by descending count; the order of equal counts is the map's.
SortedKeys ==
    {keys \in [1..Cardinality(Schedulable) -> Schedulable] :
        /\ \A i, j \in DOMAIN keys : keys[i] = keys[j] => i = j
        /\ \A i, j \in DOMAIN keys : i < j => nodePortCount(keys[i]) >= nodePortCount(keys[j])}

\* A node slot is taken where its GameServers say so; each port of a GameServer
\* with no known node then closes the first slot that still has it open.  An entry
\* that finds none is dropped, though its GameServer is registered.
syncAll ==
    \E keys \in SortedKeys :
    \E closed \in [Ports -> SUBSET DOMAIN keys] :
        /\ \A p \in Ports :
             closed[p] \in FirstSlots({i \in DOMAIN keys : keys[i] \notin nodePortAllocation(p)},
                                      Cardinality(nonReadyNodesPorts(p)))
        /\ portAllocations' = [i \in DOMAIN keys |->
             {p \in Ports : keys[i] \in nodePortAllocation(p) \/ i \in closed[p]}]
        /\ unbooked' = [p \in Ports |->
             Cardinality(nonReadyNodesPorts(p)) - Cardinality(closed[p])]

Restart ==
    /\ Fault
    /\ gameServer' = [g \in GameServers |->
                        IF gameServer[g].state = "Gone" THEN Forgotten ELSE gameServer[g]]
    /\ lister' = gameServer'
    /\ actor' = [a \in Actors |-> Idle]
    /\ syncAll
    /\ gameServerRegistry' = Holding
    /\ UNCHANGED cordoned

-----------------------------------------------------------------------------
WorkerStep(w) ==
    \/ \E g \in GameServers : Allocate(w, g)
    \/ UpdateAccepted(w) \/ UpdateRefused(w)
    \/ UpdateLost(w) \/ UpdateAnswerLost(w)

Next ==
    \/ \E w \in Workers : WorkerStep(w)
    \/ \E a \in Actors : DeAllocateFind(a) \/ DeAllocateRelease(a)
    \/ \E g \in GameServers :
         \/ Deliver(g) \/ syncDeleteGameServer(g) \/ DeliverTombstone(g)
         \/ Create(g) \/ MarkDeleted(g) \/ RemoveFinalizer(g)
         \/ \E n \in Nodes : Schedule(g, n)
    \/ \E n \in Nodes : Cordon(n)
    \/ Restart

Spec == Init /\ [][Next]_vars

-----------------------------------------------------------------------------
(* Properties.                                                             *)

\* The ports that take room: the TCP and UDP halves of a TCPUDP port share one.
Needs(p) == {h \in Held(p) : h[2] <= Amount[h[1]]}

\* Every host port a GameServer object in the API server holds is backed by a
\* slot of its own that is taken, but for as many as were given up: those of an
\* Update that was applied though its answer was lost (the worker "puts the port
\* back in the pool"), and those for which a restart found no slot.  Were there
\* fewer, the allocator would hand the port out more often than there is room for
\* it.  It has to survive conflicting syncs of one GameServer by two workers, a
\* Delete event between a failed Update and its DeAllocate, the release of a
\* GameServer whose entry was dropped, and a restart.
HeldPortsAreTaken ==
    \A p \in Ports : Cardinality(Taken(p)) + unbooked[p] >= Cardinality(Needs(p))

\* "if the GameServer doesn't get updated with the port data, then put the port
\* back in the pool" (controller.go): without the exception.  The worker cannot
\* tell an Update that failed from one whose answer it missed, and puts the port
\* back in both cases (PortLost.cfg).
EveryHeldPortIsTaken ==
    \A p \in Ports : Cardinality(Taken(p)) >= Cardinality(Needs(p))

\* After a restart the books are exact, whatever was leaked or given up before:
\* syncAll leaves as many slots taken for a port as there are GameServers that
\* hold it, or all of them when there are more holders than schedulable nodes.
RestartIsExact ==
    [][Restart => \A p \in Ports :
          Cardinality(Taken(p)') =
             IF Cardinality(Needs(p)') <= Cardinality(Schedulable)
             THEN Cardinality(Needs(p)') ELSE Cardinality(Schedulable)]_vars

\* "put the port back in the pool" (controller.go) and "make the HostPort
\* available" (syncDeleteGameServer): when no goroutine is in the middle of
\* something and the cache is up to date, a taken slot belongs to a GameServer.
NothingLeaks ==
    (\A a \in Actors : actor[a] = Idle) /\ lister = gameServer
        => \A p \in Ports : Cardinality(Taken(p)) <= Cardinality(Needs(p))

\* The host ports given to one GameServer differ, so that its Pod can be placed:
\* the ports of one GameServer all have to be free on one node.
PortsOfAGameServerDiffer ==
    \A g \in Holding : \A j, k \in 1..Amount[g] :
        gameServer[g].ports[j] = gameServer[g].ports[k] => j = k
=============================================================================
