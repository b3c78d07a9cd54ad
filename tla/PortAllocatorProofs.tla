----------------------- MODULE PortAllocatorProofs -----------------------
(***************************************************************************)
(* Proofs about PortAllocator: the type invariant, that every host port a  *)
(* GameServer holds is backed by a taken slot unless it was given up, and  *)
(* that a restart makes the books as exact as the slots allow, for every   *)
(* number of GameServers, ports, workers, nodes and faults.                *)
(***************************************************************************)
EXTENDS PortAllocator, FunctionTheorems, FiniteSetTheorems, SequenceTheorems, TLAPS

-----------------------------------------------------------------------------
(* Facts about cardinalities.                                              *)

\* Two sets in bijection have the same size.
LEMMA CardinalityOfImage ==
  ASSUME NEW S, NEW T, IsFiniteSet(S), NEW f \in [S -> T],
         \A x, y \in S : f[x] = f[y] => x = y,
         \A t \in T : \E x \in S : f[x] = t
  PROVE  IsFiniteSet(T) /\ Cardinality(T) = Cardinality(S)
<1>1. f \in Bijection(S, T)
  BY Fun_IsBij
<1>2. ExistsBijection(S, T)
  BY <1>1 DEF ExistsBijection
<1> QED
  BY <1>2, FS_Bijection

\* The size of a disjoint union.
LEMMA CardinalityOfDisjointUnion ==
  ASSUME NEW S, NEW T, IsFiniteSet(S), IsFiniteSet(T), S \cap T = {}
  PROVE  /\ IsFiniteSet(S \cup T)
         /\ Cardinality(S \cup T) = Cardinality(S) + Cardinality(T)
<1>1. Cardinality(S) \in Nat /\ Cardinality(T) \in Nat
  BY FS_CardinalityType
<1> QED
  BY <1>1, FS_Union, FS_EmptySet

\* The size of what is left when a part is removed.
LEMMA CardinalityOfRest ==
  ASSUME NEW S, NEW T \in SUBSET S, IsFiniteSet(S)
  PROVE  /\ IsFiniteSet(S \ T) /\ IsFiniteSet(T)
         /\ Cardinality(S) = Cardinality(S \ T) + Cardinality(T)
<1>1. IsFiniteSet(T) /\ IsFiniteSet(S \ T)
  BY FS_Subset
<1>2. (S \ T) \cup T = S /\ (S \ T) \cap T = {}
  OBVIOUS
<1> QED
  BY <1>1, <1>2, CardinalityOfDisjointUnion

\* Pairing every element of a set with one d does not change its size.
LEMMA CardinalityOfRow ==
  ASSUME NEW d, NEW O, IsFiniteSet(O)
  PROVE  IsFiniteSet({d} \X O) /\ Cardinality({d} \X O) = Cardinality(O)
<1> DEFINE f == [k \in O |-> <<d, k>>]
<1>1. f \in [O -> {d} \X O]
  OBVIOUS
<1>2. \A x, y \in O : f[x] = f[y] => x = y
  OBVIOUS
<1>3. \A t \in {d} \X O : \E x \in O : f[x] = t
  OBVIOUS
<1> HIDE DEF f
<1> QED
  BY <1>1, <1>2, <1>3, CardinalityOfImage

-----------------------------------------------------------------------------
(* Claims: the (owner, index) pairs of a family of port sequences that name *)
(* a port p.  The GameServers' own ports are one family, the copies the     *)
(* goroutines hold another.                                                 *)

Indices == UNION {1..Amount[g] : g \in GameServers}

Claims(f, D, p) == {x \in D \X Indices : x[2] \in Occurrences(f[x[1]], p)}

Fits(ports) == ports \in Seq(Ports) /\ DOMAIN ports \subseteq Indices

LEMMA IndicesFinite == IsFiniteSet(Indices)
<1> DEFINE I == {1..Amount[g] : g \in GameServers}
           f == [g \in GameServers |-> 1..Amount[g]]
<1>1. f \in Surjection(GameServers, I)
  BY DEF Surjection
<1>2. IsFiniteSet(I)
  <2> HIDE DEF f, I
  <2> QED
    BY <1>1, FS_Surjection, ConstantsAssumption
<1>3. \A T \in I : IsFiniteSet(T)
  BY ConstantsAssumption, FS_Interval
<1> QED
  <2> HIDE DEF I
  <2>1. IsFiniteSet(UNION I)
    BY <1>2, <1>3, FS_UNION
  <2> QED
    BY <2>1 DEF Indices, I

LEMMA OccurrencesFinite ==
  ASSUME NEW ports, Fits(ports), NEW p
  PROVE  IsFiniteSet(Occurrences(ports, p)) /\ Occurrences(ports, p) \subseteq Indices
<1>1. Occurrences(ports, p) \subseteq Indices
  BY DEF Occurrences, Fits
<1> QED
  BY <1>1, IndicesFinite, FS_Subset

LEMMA ClaimsFinite ==
  ASSUME NEW D, IsFiniteSet(D), NEW f, NEW p
  PROVE  IsFiniteSet(Claims(f, D, p))
<1>1. IsFiniteSet(D \X Indices)
  BY IndicesFinite, FS_Product
<1>2. Claims(f, D, p) \in SUBSET (D \X Indices)
  BY DEF Claims
<1> QED
  BY <1>1, <1>2, FS_Subset

\* Replacing the ports of one owner d exchanges d's claims for the new ones.
LEMMA ClaimsUpdate ==
  ASSUME NEW D, IsFiniteSet(D), NEW d \in D, NEW f, NEW h, NEW p,
         \A x \in D : x # d => h[x] = f[x],
         Fits(f[d]), Fits(h[d])
  PROVE  Cardinality(Claims(h, D, p)) + Cardinality(Occurrences(f[d], p))
           = Cardinality(Claims(f, D, p)) + Cardinality(Occurrences(h[d], p))
<1> DEFINE others == {x \in Claims(f, D, p) : x[1] # d}
           old == {d} \X Occurrences(f[d], p)
           new == {d} \X Occurrences(h[d], p)
<1>1. /\ IsFiniteSet(old) /\ Cardinality(old) = Cardinality(Occurrences(f[d], p))
      /\ IsFiniteSet(new) /\ Cardinality(new) = Cardinality(Occurrences(h[d], p))
  BY OccurrencesFinite, CardinalityOfRow
<1>2. IsFiniteSet(others)
  BY ClaimsFinite, FS_Subset
<1>3. others \cap old = {} /\ others \cap new = {}
  OBVIOUS
<1>4. Claims(f, D, p) = others \cup old
  <2>1. Occurrences(f[d], p) \subseteq Indices
    BY OccurrencesFinite
  <2> QED
    BY <2>1 DEF Claims
<1>5. Claims(h, D, p) = others \cup new
  <2>1. Occurrences(h[d], p) \subseteq Indices
    BY OccurrencesFinite
  <2> QED
    BY <2>1 DEF Claims
<1>6. /\ Cardinality(Claims(f, D, p)) = Cardinality(others) + Cardinality(old)
      /\ Cardinality(Claims(h, D, p)) = Cardinality(others) + Cardinality(new)
  <2> HIDE DEF others, old, new
  <2> QED
    BY <1>1, <1>2, <1>3, <1>4, <1>5, CardinalityOfDisjointUnion
<1>7. Cardinality(others) \in Nat /\ Cardinality(old) \in Nat /\ Cardinality(new) \in Nat
  BY <1>1, <1>2, FS_CardinalityType
<1> QED
  BY <1>1, <1>6, <1>7

-----------------------------------------------------------------------------
(* The type invariant.                                                     *)

\* A function on 1..n is a sequence.
LEMMA FunctionIsSequence ==
  ASSUME NEW S, NEW n \in Nat, NEW f \in [1..n -> S]
  PROVE  f \in Seq(S) /\ Len(f) = n /\ DOMAIN f = 1..n
BY SeqDef

\* Adding slots keeps the ones there are and appends empty ones.
LEMMA GrowProperties ==
  ASSUME NEW pa \in Seq(SUBSET Ports), NEW r \in Nat
  PROVE  /\ Grow(pa, r) \in Seq(SUBSET Ports)
         /\ DOMAIN pa \subseteq DOMAIN Grow(pa, r)
         /\ \A i \in DOMAIN Grow(pa, r) :
               Grow(pa, r)[i] = IF i \in DOMAIN pa THEN pa[i] ELSE {}
<1> DEFINE e == [i \in 1..r |-> {}]
<1>1. e \in [1..r -> SUBSET Ports]
  OBVIOUS
<1>2. e \in Seq(SUBSET Ports) /\ Len(e) = r /\ \A i \in 1..r : e[i] = {}
  BY <1>1, FunctionIsSequence
<1> HIDE DEF e
<1>3. /\ pa \o e \in Seq(SUBSET Ports)
      /\ Len(pa \o e) = Len(pa) + r
      /\ \A i \in 1..(Len(pa) + r) :
            (pa \o e)[i] = IF i <= Len(pa) THEN pa[i] ELSE e[i - Len(pa)]
  BY <1>2, ConcatProperties
<1>4. DOMAIN (pa \o e) = 1..(Len(pa) + r) /\ DOMAIN pa = 1..Len(pa) /\ Len(pa) \in Nat
  BY <1>3, LenProperties
<1>5. \A i \in DOMAIN (pa \o e) : (pa \o e)[i] = IF i \in DOMAIN pa THEN pa[i] ELSE {}
  <2> SUFFICES ASSUME NEW i \in 1..(Len(pa) + r)
               PROVE  (pa \o e)[i] = IF i \in 1..Len(pa) THEN pa[i] ELSE {}
    BY <1>4
  <2>1. CASE i <= Len(pa)
    BY <2>1, <1>3, <1>4
  <2>2. CASE i > Len(pa)
    <3>1. i - Len(pa) \in 1..r
      BY <2>2, <1>4
    <3>2. e[i - Len(pa)] = {}
      BY <3>1, <1>2
    <3>3. (pa \o e)[i] = e[i - Len(pa)]
      BY <2>2, <1>3, <1>4
    <3> QED
      BY <3>2, <3>3, <2>2, <1>4
  <2> QED
    BY <2>1, <2>2, <1>4
<1>6. DOMAIN pa \subseteq DOMAIN (pa \o e)
  BY <1>4
<1> QED
  BY <1>3, <1>5, <1>6 DEF Grow, e

\* What findOpenPorts returns names ports; so does the copy Allocate makes.
LEMMA HostPortsType ==
  ASSUME NEW g \in GameServers, NEW pa, NEW s \in findOpenPorts(pa, Amount[g])
  PROVE  /\ HostPorts(g, s) \in Seq(Ports)
         /\ g \notin TCPUDP => /\ DOMAIN HostPorts(g, s) = 1..Amount[g]
                               /\ \A k \in 1..Amount[g] : HostPorts(g, s)[k] = s[k][2]
<1> DEFINE one == [k \in 1..Amount[g] |-> s[k][2]]
<1>1. Amount[g] \in Nat
  BY ConstantsAssumption
<1>2. one \in [1..Amount[g] -> Ports]
  BY DEF findOpenPorts, OpenPorts
<1>3. one \in Seq(Ports) /\ DOMAIN one = 1..Amount[g] /\ \A k \in 1..Amount[g] : one[k] = s[k][2]
  BY <1>1, <1>2, FunctionIsSequence
<1> HIDE DEF one
<1>4. one \o one \in Seq(Ports)
  BY <1>3, ConcatProperties
<1>5. HostPorts(g, s) = IF g \in TCPUDP THEN one \o one ELSE one
  BY DEF HostPorts, one
<1> QED
  BY <1>3, <1>4, <1>5

LEMMA ObjectsType ==
  /\ Blank \in Objects /\ Unallocated \in Objects /\ Forgotten \in Objects
  /\ Blank.ports = <<>> /\ Unallocated.ports = <<>> /\ Forgotten.ports = <<>>
  /\ Blank.state = "None" /\ Unallocated.state = "PortAllocation" /\ Forgotten.state = "Gone"
  /\ Unallocated.node = NoNode
  /\ Idle.ports = <<>> /\ Idle.pc = "Idle"
BY DEF Blank, Unallocated, Forgotten, Objects, Idle

\* An object after one of its fields has been assigned.
LEMMA PortsUpdate ==
  ASSUME NEW o \in Objects, NEW ports \in Seq(Ports)
  PROVE  LET q == [o EXCEPT !.state = "Creating", !.ports = ports] IN
         q \in Objects /\ q.state = "Creating" /\ q.ports = ports /\ q.node = o.node
BY DEF Objects

LEMMA DeletingUpdate ==
  ASSUME NEW o \in Objects
  PROVE  LET q == [o EXCEPT !.deleting = TRUE] IN
         q \in Objects /\ q.state = o.state /\ q.ports = o.ports /\ q.node = o.node
BY DEF Objects

LEMMA NodeUpdate ==
  ASSUME NEW o \in Objects, NEW n \in Nodes
  PROVE  LET q == [o EXCEPT !.node = n] IN
         q \in Objects /\ q.state = o.state /\ q.ports = o.ports /\ q.node = n
BY DEF Objects

LEMMA GoneUpdate ==
  ASSUME NEW o \in Objects
  PROVE  LET q == [o EXCEPT !.state = "Gone"] IN
         q \in Objects /\ q.state = "Gone" /\ q.ports = o.ports /\ q.node = o.node
BY DEF Objects

Busy == [pc : {"Update", "DeAllocate", "Release"}, gs : GameServers, ports : Seq(Ports)]

LEMMA PcUpdate ==
  ASSUME NEW r \in Busy, NEW v \in {"Update", "DeAllocate", "Release"}
  PROVE  LET q == [r EXCEPT !.pc = v] IN
         q \in Busy /\ q.pc = v /\ q.gs = r.gs /\ q.ports = r.ports
BY DEF Busy

LEMMA BusyActors ==
  ASSUME TypeOK, NEW a \in Actors, actor[a].pc \in {"Update", "DeAllocate", "Release"}
  PROVE  actor[a] \in Busy
BY ObjectsType DEF TypeOK, Busy

\* One object changes: g, to the given state, ports and node.
Becomes(g, state, ports, node) ==
  /\ gameServer' \in [GameServers -> Objects]
  /\ \A h \in GameServers \ {g} : gameServer'[h] = gameServer[h]
  /\ gameServer'[g].state = state
  /\ gameServer'[g].ports = ports
  /\ gameServer'[g].node = node

LEMMA UpdateAppliedStep ==
  ASSUME TypeOK, NEW w \in Workers, UpdateAccepted(w) \/ UpdateAnswerLost(w)
  PROVE  /\ actor[w] \in Busy
         /\ Becomes(actor[w].gs, "Creating", actor[w].ports, NoNode)
<1> DEFINE g == actor[w].gs
           new == [gameServer[g] EXCEPT !.state = "Creating", !.ports = actor[w].ports]
<1>1. actor[w] \in Busy
  BY BusyActors DEF UpdateAccepted, UpdateAnswerLost, Actors
<1>2. g \in GameServers /\ actor[w].ports \in Seq(Ports) /\ gameServer[g] = Unallocated
  BY <1>1 DEF UpdateAccepted, UpdateAnswerLost, Busy
<1>3. new \in Objects /\ new.state = "Creating" /\ new.ports = actor[w].ports /\ new.node = NoNode
  <2>1. gameServer[g] \in Objects /\ gameServer[g].node = NoNode
    BY <1>2, ObjectsType
  <2> QED
    BY <1>2, <2>1, PortsUpdate
<1>4. gameServer' = [gameServer EXCEPT ![g] = new]
  BY DEF UpdateAccepted, UpdateAnswerLost
<1> QED
  <2> HIDE DEF new
  <2> QED
    BY <1>1, <1>2, <1>3, <1>4 DEF TypeOK, Becomes

LEMMA MarkDeletedStep ==
  ASSUME TypeOK, NEW g \in GameServers, MarkDeleted(g)
  PROVE  Becomes(g, gameServer[g].state, gameServer[g].ports, gameServer[g].node)
<1> DEFINE new == [gameServer[g] EXCEPT !.deleting = TRUE]
<1>1. /\ new \in Objects /\ new.state = gameServer[g].state
      /\ new.ports = gameServer[g].ports /\ new.node = gameServer[g].node
  BY DeletingUpdate DEF TypeOK
<1>2. gameServer' = [gameServer EXCEPT ![g] = new]
  BY DEF MarkDeleted
<1> QED
  <2> HIDE DEF new
  <2> QED
    BY <1>1, <1>2 DEF TypeOK, Becomes

LEMMA RemoveFinalizerStep ==
  ASSUME TypeOK, NEW g \in GameServers, RemoveFinalizer(g)
  PROVE  Becomes(g, "Gone", gameServer[g].ports, gameServer[g].node)
<1> DEFINE new == [gameServer[g] EXCEPT !.state = "Gone"]
<1>1. /\ new \in Objects /\ new.state = "Gone"
      /\ new.ports = gameServer[g].ports /\ new.node = gameServer[g].node
  BY GoneUpdate DEF TypeOK
<1>2. gameServer' = [gameServer EXCEPT ![g] = new]
  BY DEF RemoveFinalizer
<1> QED
  <2> HIDE DEF new
  <2> QED
    BY <1>1, <1>2 DEF TypeOK, Becomes

LEMMA ScheduleStep ==
  ASSUME TypeOK, NEW g \in GameServers, NEW n \in Nodes, Schedule(g, n)
  PROVE  Becomes(g, "Creating", gameServer[g].ports, n)
<1> DEFINE new == [gameServer[g] EXCEPT !.node = n]
<1>1. /\ new \in Objects /\ new.state = "Creating"
      /\ new.ports = gameServer[g].ports /\ new.node = n
  BY NodeUpdate DEF TypeOK, Schedule
<1>2. gameServer' = [gameServer EXCEPT ![g] = new]
  BY DEF Schedule
<1> QED
  <2> HIDE DEF new
  <2> QED
    BY <1>1, <1>2 DEF TypeOK, Becomes

LEMMA AllocateType ==
  ASSUME TypeOK, NEW w \in Workers, NEW g \in GameServers, Allocate(w, g)
  PROVE  TypeOK'
<1>1. PICK r \in 0..(MaxSlots - Len(portAllocations)) :
         LET pa == Grow(portAllocations, r) IN
         \E s \in findOpenPorts(pa, Amount[g]) :
              /\ portAllocations' = [i \in DOMAIN pa |->
                    pa[i] \cup {p \in Ports : \E k \in 1..Amount[g] : s[k] = <<i, p>>}]
              /\ actor' = [actor EXCEPT ![w] =
                    [pc |-> "Update", gs |-> g, ports |-> HostPorts(g, s)]]
  BY DEF Allocate
<1> DEFINE pa == Grow(portAllocations, r)
<1>2. PICK s \in findOpenPorts(pa, Amount[g]) :
              /\ portAllocations' = [i \in DOMAIN pa |->
                    pa[i] \cup {p \in Ports : \E k \in 1..Amount[g] : s[k] = <<i, p>>}]
              /\ actor' = [actor EXCEPT ![w] =
                    [pc |-> "Update", gs |-> g, ports |-> HostPorts(g, s)]]
  BY <1>1
<1>3. pa \in Seq(SUBSET Ports)
  <2>1. r \in Nat
    BY ConstantsAssumption
  <2> QED
    BY <2>1, GrowProperties DEF TypeOK
<1>4. portAllocations' \in Seq(SUBSET Ports)
  <2> HIDE DEF pa
  <2>1. DOMAIN pa = 1..Len(pa) /\ Len(pa) \in Nat /\ \A i \in DOMAIN pa : pa[i] \in SUBSET Ports
    BY <1>3, LenProperties
  <2>2. portAllocations' \in [1..Len(pa) -> SUBSET Ports]
    BY <1>2, <2>1
  <2> QED
    BY <2>1, <2>2, FunctionIsSequence
<1>5. HostPorts(g, s) \in Seq(Ports)
  BY HostPortsType
<1>6. actor' \in [Actors ->
          {Idle} \cup [pc : {"Update", "DeAllocate", "Release"}, gs : GameServers,
                       ports : Seq(Ports)]]
  BY <1>2, <1>5 DEF TypeOK, Actors
<1> QED
  BY <1>4, <1>6 DEF TypeOK, Allocate

\* There are finitely many entries for a port.
LEMMA HeldFinite ==
  ASSUME TypeOK, NEW p
  PROVE  IsFiniteSet(Held(p))
<1> DEFINE D == {DOMAIN gameServer[g].ports : g \in GameServers}
           f == [g \in GameServers |-> DOMAIN gameServer[g].ports]
<1>1. f \in Surjection(GameServers, D)
  BY DEF Surjection
<1>2. IsFiniteSet(D)
  <2> HIDE DEF f, D
  <2> QED
    BY <1>1, FS_Surjection, ConstantsAssumption
<1>3. \A g \in GameServers : IsFiniteSet(DOMAIN gameServer[g].ports)
  <2> TAKE g \in GameServers
  <2>1. gameServer[g].ports \in Seq(Ports)
    BY DEF TypeOK, Objects
  <2> QED
    BY <2>1, LenProperties, FS_Interval
<1>4. IsFiniteSet(Indexes)
  <2>1. \A T \in D : IsFiniteSet(T)
    BY <1>3
  <2> HIDE DEF D
  <2>2. IsFiniteSet(UNION D)
    BY <1>2, <2>1, FS_UNION
  <2> QED
    BY <2>2 DEF Indexes, D
<1>5. IsFiniteSet(Holding)
  BY ConstantsAssumption, FS_Subset DEF Holding
<1>6. IsFiniteSet(Holding \X Indexes)
  BY <1>4, <1>5, FS_Product
<1> QED
  BY <1>6, FS_Subset DEF Held

\* The first m of some slots are at most m.
LEMMA FirstSlotsSize ==
  ASSUME NEW slots, IsFiniteSet(slots), NEW m \in Nat, NEW T \in FirstSlots(slots, m)
  PROVE  /\ T \subseteq slots /\ IsFiniteSet(T)
         /\ Cardinality(T) \in Nat /\ Cardinality(slots) \in Nat
         /\ Cardinality(T) = IF m < Cardinality(slots) THEN m ELSE Cardinality(slots)
         /\ m - Cardinality(T) \in Nat
<1>1. /\ T \subseteq slots
      /\ Cardinality(T) = IF m < Cardinality(slots) THEN m ELSE Cardinality(slots)
  BY DEF FirstSlots
<1>2. Cardinality(slots) \in Nat /\ IsFiniteSet(T)
  BY <1>1, FS_Subset, FS_CardinalityType
<1> QED
  BY <1>1, <1>2

LEMMA RestartType ==
  ASSUME TypeOK, Restart
  PROVE  TypeOK'
<1>1. PICK keys \in SortedKeys :
         \E closed \in [Ports -> SUBSET DOMAIN keys] :
           /\ \A p \in Ports :
                closed[p] \in FirstSlots({i \in DOMAIN keys : keys[i] \notin nodePortAllocation(p)},
                                         Cardinality(nonReadyNodesPorts(p)))
           /\ portAllocations' = [i \in DOMAIN keys |->
                {p \in Ports : keys[i] \in nodePortAllocation(p) \/ i \in closed[p]}]
           /\ unbooked' = [p \in Ports |->
                Cardinality(nonReadyNodesPorts(p)) - Cardinality(closed[p])]
  BY DEF Restart, syncAll
<1>2. DOMAIN keys = 1..Cardinality(Schedulable) /\ Cardinality(Schedulable) \in Nat
  <2>1. IsFiniteSet(Schedulable)
    BY ConstantsAssumption, FS_Subset DEF Schedulable
  <2> QED
    BY <2>1, FS_CardinalityType DEF SortedKeys
<1>3. portAllocations' \in [1..Cardinality(Schedulable) -> SUBSET Ports]
  BY <1>1, <1>2
<1>4. portAllocations' \in Seq(SUBSET Ports)
  BY <1>2, <1>3, FunctionIsSequence
<1>5. gameServer' \in [GameServers -> Objects] /\ lister' \in [GameServers -> Objects]
  BY ObjectsType DEF Restart, TypeOK
<1>6. unbooked' \in [Ports -> Nat]
  <2>1. PICK closed \in [Ports -> SUBSET DOMAIN keys] :
           /\ \A p \in Ports :
                closed[p] \in FirstSlots({i \in DOMAIN keys : keys[i] \notin nodePortAllocation(p)},
                                         Cardinality(nonReadyNodesPorts(p)))
           /\ unbooked' = [p \in Ports |->
                Cardinality(nonReadyNodesPorts(p)) - Cardinality(closed[p])]
    BY <1>1
  <2>2. ASSUME NEW p \in Ports
        PROVE  Cardinality(nonReadyNodesPorts(p)) - Cardinality(closed[p]) \in Nat
    <3> DEFINE open == {i \in DOMAIN keys : keys[i] \notin nodePortAllocation(p)}
    <3>1. Cardinality(nonReadyNodesPorts(p)) \in Nat
      BY HeldFinite, FS_Subset, FS_CardinalityType DEF nonReadyNodesPorts
    <3>2. IsFiniteSet(open)
      <4>1. IsFiniteSet(DOMAIN keys)
        BY <1>2, FS_Interval
      <4>2. open \subseteq DOMAIN keys
        OBVIOUS
      <4> HIDE DEF open
      <4> QED
        BY <4>1, <4>2, FS_Subset
    <3>3. closed[p] \in FirstSlots(open, Cardinality(nonReadyNodesPorts(p)))
      BY <2>1
    <3> HIDE DEF open
    <3> QED
      BY <3>1, <3>2, <3>3, FirstSlotsSize
  <2> QED
    BY <2>1, <2>2
<1> QED
  BY <1>4, <1>5, <1>6, ConstantsAssumption DEF TypeOK, Restart, Fault, Holding

LEMMA TypeOKInductive == TypeOK /\ [Next]_vars => TypeOK'
<1> SUFFICES ASSUME TypeOK, [Next]_vars PROVE TypeOK'
  OBVIOUS
<1>1. ASSUME NEW w \in Workers, NEW g \in GameServers, Allocate(w, g) PROVE TypeOK'
  BY <1>1, AllocateType
<1>2. ASSUME NEW w \in Workers, UpdateAccepted(w) PROVE TypeOK'
  <2>1. gameServer' \in [GameServers -> Objects]
    BY <1>2, UpdateAppliedStep DEF Becomes
  <2>2. actor' = [actor EXCEPT ![w] = Idle]
    BY <1>2 DEF UpdateAccepted
  <2>3. UNCHANGED <<portAllocations, gameServerRegistry, lister, cordoned, unbooked, faults>>
    BY <1>2 DEF UpdateAccepted
  <2> QED
    BY <2>1, <2>2, <2>3 DEF TypeOK, Actors
<1>3. ASSUME NEW w \in Workers, UpdateRefused(w) \/ UpdateLost(w) PROVE TypeOK'
  <2>1. actor[w] \in Busy
    BY <1>3, BusyActors DEF UpdateRefused, UpdateLost, Actors
  <2>2. [actor[w] EXCEPT !.pc = "DeAllocate"] \in Busy
    BY <2>1, PcUpdate
  <2>3. actor' = [actor EXCEPT ![w] = [actor[w] EXCEPT !.pc = "DeAllocate"]]
    BY <1>3 DEF UpdateRefused, UpdateLost
  <2> QED
    BY <1>3, <2>2, <2>3, ConstantsAssumption
       DEF TypeOK, UpdateRefused, UpdateLost, Fault, Actors, Busy
<1>4. ASSUME NEW a \in Actors, DeAllocateFind(a) PROVE TypeOK'
  <2>1. actor[a] \in Busy
    BY <1>4, BusyActors DEF DeAllocateFind
  <2>2. [actor[a] EXCEPT !.pc = "Release"] \in Busy
    BY <2>1, PcUpdate
  <2>3. actor' = [actor EXCEPT ![a] = IF actor[a].gs \in gameServerRegistry
                                       THEN [actor[a] EXCEPT !.pc = "Release"] ELSE Idle]
    BY <1>4 DEF DeAllocateFind
  <2> QED
    BY <1>4, <2>2, <2>3 DEF TypeOK, DeAllocateFind, Busy
<1>5. ASSUME NEW a \in Actors, DeAllocateRelease(a) PROVE TypeOK'
  <2>1. PICK freed \in [Ports -> SUBSET SlotIds] :
          portAllocations' = [i \in SlotIds |-> {p \in portAllocations[i] : i \notin freed[p]}]
    BY <1>5 DEF DeAllocateRelease
  <2>2. SlotIds = 1..Len(portAllocations) /\ Len(portAllocations) \in Nat
    BY LenProperties DEF TypeOK, SlotIds
  <2>3. portAllocations' \in [1..Len(portAllocations) -> SUBSET Ports]
    BY <2>1, <2>2 DEF TypeOK
  <2>4. portAllocations' \in Seq(SUBSET Ports)
    BY <2>2, <2>3, FunctionIsSequence
  <2> QED
    BY <1>5, <2>4 DEF DeAllocateRelease, TypeOK
<1>6. ASSUME NEW g \in GameServers, Deliver(g) PROVE TypeOK'
  BY <1>6 DEF TypeOK, Deliver
<1>7. ASSUME NEW g \in GameServers, syncDeleteGameServer(g) PROVE TypeOK'
  BY <1>7, ObjectsType DEF TypeOK, syncDeleteGameServer, Actors, Objects
<1>8. ASSUME NEW g \in GameServers, DeliverTombstone(g) PROVE TypeOK'
  BY <1>8, ObjectsType, ConstantsAssumption DEF TypeOK, DeliverTombstone, Fault
<1>9. ASSUME NEW g \in GameServers, Create(g) PROVE TypeOK'
  BY <1>9, ObjectsType DEF TypeOK, Create
<1>10. ASSUME NEW g \in GameServers, MarkDeleted(g) \/ RemoveFinalizer(g) PROVE TypeOK'
  <2>1. gameServer' \in [GameServers -> Objects]
    BY <1>10, MarkDeletedStep, RemoveFinalizerStep DEF Becomes
  <2>2. UNCHANGED <<portAllocations, gameServerRegistry, lister, actor, cordoned, unbooked, faults>>
    BY <1>10 DEF MarkDeleted, RemoveFinalizer
  <2> QED
    BY <2>1, <2>2 DEF TypeOK
<1>11. ASSUME NEW g \in GameServers, NEW n \in Nodes, Schedule(g, n) PROVE TypeOK'
  <2>1. gameServer' \in [GameServers -> Objects]
    BY <1>11, ScheduleStep DEF Becomes
  <2>2. UNCHANGED <<portAllocations, gameServerRegistry, lister, actor, cordoned, unbooked, faults>>
    BY <1>11 DEF Schedule
  <2> QED
    BY <2>1, <2>2 DEF TypeOK
<1>12. ASSUME NEW w \in Workers, UpdateAnswerLost(w) PROVE TypeOK'
  <2>1. actor[w] \in Busy /\ gameServer' \in [GameServers -> Objects]
    BY <1>12, UpdateAppliedStep DEF Becomes
  <2>2. [actor[w] EXCEPT !.pc = "DeAllocate"] \in Busy
    BY <2>1, PcUpdate
  <2>3. actor' = [actor EXCEPT ![w] = [actor[w] EXCEPT !.pc = "DeAllocate"]]
    BY <1>12 DEF UpdateAnswerLost
  <2>4. unbooked' \in [Ports -> Nat]
    <3>1. actor[w].ports \in Seq(Ports)
      BY <2>1 DEF Busy
    <3>2. IsFiniteSet(DOMAIN actor[w].ports)
      BY <3>1, LenProperties, FS_Interval
    <3>3. \A p \in Ports : Cardinality(Occurrences(actor[w].ports, p)) \in Nat
      BY <3>2, FS_Subset, FS_CardinalityType DEF Occurrences
    <3> QED
      BY <1>12, <3>3 DEF UpdateAnswerLost, TypeOK
  <2> QED
    BY <1>12, <2>1, <2>2, <2>3, <2>4, ConstantsAssumption
       DEF TypeOK, UpdateAnswerLost, Fault, Actors, Busy
<1>13. ASSUME NEW n \in Nodes, Cordon(n) PROVE TypeOK'
  BY <1>13 DEF TypeOK, Cordon
<1>14. CASE Restart
  BY <1>14, RestartType
<1>15. CASE UNCHANGED vars
  BY <1>15 DEF TypeOK, vars
<1> QED
  BY <1>1, <1>2, <1>3, <1>4, <1>5, <1>6, <1>7, <1>8, <1>9, <1>10, <1>11, <1>12, <1>13,
     <1>14, <1>15
     DEF Next, WorkerStep

LEMMA TypeOKInit == Init => TypeOK
BY ObjectsType, EmptySeq, ConstantsAssumption DEF Init, TypeOK

\* The type invariant holds for every value of the constants.
THEOREM TypeCorrect == Spec => []TypeOK
BY TypeOKInit, TypeOKInductive, PTL DEF Spec

-----------------------------------------------------------------------------
(* The inductive invariant.                                                *)

GSPorts == [g \in GameServers |-> gameServer[g].ports]
ActorPorts == [a \in Actors |-> actor[a].ports]

\* How many claims on p the objects make, and the copies of the goroutines.  An
\* object keeps its claim until its Delete event has been delivered; then the
\* informer's goroutine carries it until it has released the ports.
GSCount(p) == Cardinality(Claims(GSPorts, GameServers, p))
ActorCount(p) == Cardinality(Claims(ActorPorts, Actors, p))

\* Which objects and goroutines hold ports, and how many.
Shape ==
  /\ \A g \in GameServers :
        /\ Fits(gameServer[g].ports)
        /\ gameServer[g].state = "Creating" => DOMAIN gameServer[g].ports = 1..Amount[g]
        /\ gameServer[g].state \in {"None", "PortAllocation"} => gameServer[g].ports = <<>>
  /\ \A a \in Actors :
        /\ Fits(actor[a].ports)
        /\ actor[a].pc = "Update" => DOMAIN actor[a].ports = 1..Amount[actor[a].gs]

\* No port is placed twice on one node.
Placed ==
  \A g, h \in Holding :
     gameServer[g].node # NoNode /\ gameServer[g].node = gameServer[h].node =>
       \A j \in DOMAIN gameServer[g].ports, k \in DOMAIN gameServer[h].ports :
          gameServer[g].ports[j] = gameServer[h].ports[k] => g = h /\ j = k

\* The books cover every claim, not only those of the objects, but for the
\* entries that were given up.
Books == \A p \in Ports : Cardinality(Taken(p)) + unbooked[p] >= GSCount(p) + ActorCount(p)

IInv == TypeOK /\ Shape /\ Placed /\ Books

LEMMA EmptyFits == Fits(<<>>) /\ \A p : Cardinality(Occurrences(<<>>, p)) = 0
<1>1. \A p : Occurrences(<<>>, p) = {}
  BY DEF Occurrences
<1> QED
  BY <1>1, EmptySeq, FS_EmptySet DEF Fits

LEMMA ActorsFinite == IsFiniteSet(Actors)
BY ConstantsAssumption, FS_AddElement DEF Actors

LEMMA CountsType ==
  ASSUME TypeOK, NEW p
  PROVE  /\ GSCount(p) \in Nat /\ ActorCount(p) \in Nat
         /\ IsFiniteSet(SlotIds)
         /\ IsFiniteSet(Taken(p)) /\ Cardinality(Taken(p)) \in Nat
<1>1. IsFiniteSet(SlotIds)
  BY LenProperties, FS_Interval DEF TypeOK, SlotIds
<1>2. IsFiniteSet(Taken(p))
  BY <1>1, FS_Subset DEF Taken
<1>3. IsFiniteSet(Claims(GSPorts, GameServers, p)) /\ IsFiniteSet(Claims(ActorPorts, Actors, p))
  BY ClaimsFinite, ActorsFinite, ConstantsAssumption
<1> QED
  BY <1>1, <1>2, <1>3, FS_CardinalityType DEF GSCount, ActorCount

\* Counts after one object, or one goroutine, has exchanged its ports.
LEMMA GSCountChange ==
  ASSUME NEW g \in GameServers, NEW p,
         Fits(gameServer[g].ports), Fits(gameServer'[g].ports),
         \A h \in GameServers \ {g} : gameServer'[h].ports = gameServer[h].ports
  PROVE  GSCount(p)' + Cardinality(Occurrences(gameServer[g].ports, p))
           = GSCount(p) + Cardinality(Occurrences(gameServer'[g].ports, p))
<1>1. \A h \in GameServers : h # g => GSPorts'[h] = GSPorts[h]
  BY DEF GSPorts
<1>2. GSPorts[g] = gameServer[g].ports /\ GSPorts'[g] = gameServer'[g].ports
  BY DEF GSPorts
<1>3. IsFiniteSet(GameServers)
  BY ConstantsAssumption
<1>4. Cardinality(Claims(GSPorts', GameServers, p)) + Cardinality(Occurrences(GSPorts[g], p))
        = Cardinality(Claims(GSPorts, GameServers, p)) + Cardinality(Occurrences(GSPorts'[g], p))
  BY <1>1, <1>2, <1>3, ClaimsUpdate
<1> QED
  BY <1>2, <1>4 DEF GSCount, Claims

LEMMA ActorCountChange ==
  ASSUME NEW a \in Actors, NEW p,
         Fits(actor[a].ports), Fits(actor'[a].ports),
         \A b \in Actors \ {a} : actor'[b].ports = actor[b].ports
  PROVE  ActorCount(p)' + Cardinality(Occurrences(actor[a].ports, p))
           = ActorCount(p) + Cardinality(Occurrences(actor'[a].ports, p))
<1>1. \A b \in Actors : b # a => ActorPorts'[b] = ActorPorts[b]
  BY DEF ActorPorts
<1>2. ActorPorts[a] = actor[a].ports /\ ActorPorts'[a] = actor'[a].ports
  BY DEF ActorPorts
<1>3. Cardinality(Claims(ActorPorts', Actors, p)) + Cardinality(Occurrences(ActorPorts[a], p))
        = Cardinality(Claims(ActorPorts, Actors, p)) + Cardinality(Occurrences(ActorPorts'[a], p))
  BY <1>1, <1>2, ActorsFinite, ClaimsUpdate
<1> QED
  BY <1>2, <1>3 DEF ActorCount, Claims

\* Counts when nobody's ports change.
LEMMA CountsSame ==
  ASSUME NEW p,
         \A g \in GameServers : gameServer'[g].ports = gameServer[g].ports,
         \A a \in Actors : actor'[a].ports = actor[a].ports
  PROVE  GSCount(p)' = GSCount(p) /\ ActorCount(p)' = ActorCount(p)
<1>1. GSPorts' = GSPorts /\ ActorPorts' = ActorPorts
  BY DEF GSPorts, ActorPorts
<1> QED
  BY <1>1 DEF GSCount, ActorCount, Claims

-----------------------------------------------------------------------------
(* What each step does to the ports that are held and the slots taken.     *)

\* Allocate takes, for each port, as many new slots as the copy has entries.
LEMMA AllocateStep ==
  ASSUME TypeOK, TCPUDP = {}, NEW w \in Workers, NEW g \in GameServers, Allocate(w, g)
  PROVE  /\ actor[w].ports = <<>>
         /\ Fits(actor'[w].ports)
         /\ DOMAIN actor'[w].ports = 1..Amount[g]
         /\ actor'[w].gs = g
         /\ \A b \in Actors \ {w} : actor'[b] = actor[b]
         /\ \A p \in Ports :
               Cardinality(Taken(p)') =
                 Cardinality(Taken(p)) + Cardinality(Occurrences(actor'[w].ports, p))
<1>1. PICK r \in 0..(MaxSlots - Len(portAllocations)) :
         LET pa == Grow(portAllocations, r) IN
         \E s \in findOpenPorts(pa, Amount[g]) :
              /\ portAllocations' = [i \in DOMAIN pa |->
                    pa[i] \cup {p \in Ports : \E k \in 1..Amount[g] : s[k] = <<i, p>>}]
              /\ actor' = [actor EXCEPT ![w] =
                    [pc |-> "Update", gs |-> g, ports |-> HostPorts(g, s)]]
  BY DEF Allocate
<1> DEFINE pa == Grow(portAllocations, r)
<1>2. PICK s \in findOpenPorts(pa, Amount[g]) :
              /\ portAllocations' = [i \in DOMAIN pa |->
                    pa[i] \cup {p \in Ports : \E k \in 1..Amount[g] : s[k] = <<i, p>>}]
              /\ actor' = [actor EXCEPT ![w] =
                    [pc |-> "Update", gs |-> g, ports |-> HostPorts(g, s)]]
  BY <1>1
<1> DEFINE new == HostPorts(g, s)
<1>3. /\ pa \in Seq(SUBSET Ports)
      /\ DOMAIN portAllocations \subseteq DOMAIN pa
      /\ \A i \in DOMAIN pa : pa[i] = IF i \in DOMAIN portAllocations THEN portAllocations[i] ELSE {}
  <2>1. r \in Nat
    BY ConstantsAssumption
  <2> QED
    BY <2>1, GrowProperties DEF TypeOK
<1>4. /\ new \in Seq(Ports) /\ DOMAIN new = 1..Amount[g]
      /\ \A k \in 1..Amount[g] : new[k] = s[k][2]
  BY HostPortsType
<1>5. Fits(new)
  BY <1>4 DEF Fits, Indices
<1>6. /\ actor[w] = Idle /\ w \in Actors
      /\ actor'[w].ports = new /\ actor'[w].gs = g
      /\ \A b \in Actors \ {w} : actor'[b] = actor[b]
  <2>1. actor[w] = Idle /\ w \in Actors
    BY DEF Allocate, Actors
  <2> QED
    BY <1>2, <2>1 DEF TypeOK
<1>7. ASSUME NEW p \in Ports
      PROVE  Cardinality(Taken(p)') = Cardinality(Taken(p)) + Cardinality(Occurrences(new, p))
  <2> DEFINE fresh == {i \in DOMAIN pa : \E k \in 1..Amount[g] : s[k] = <<i, p>>}
             f == [k \in Occurrences(new, p) |-> s[k][1]]
  <2>1. \A k \in 1..Amount[g] :
          /\ s[k] = <<s[k][1], s[k][2]>> /\ s[k][1] \in DOMAIN pa /\ s[k][2] \notin pa[s[k][1]]
          /\ \A j \in 1..(k - 1) : s[j] # s[k]
    BY DEF findOpenPorts, OpenPorts
  <2>2. \A k \in Occurrences(new, p) : k \in 1..Amount[g] /\ s[k] = <<s[k][1], p>>
    BY <1>4, <2>1 DEF Occurrences
  <2>3. f \in [Occurrences(new, p) -> fresh]
    BY <2>1, <2>2
  <2>4. \A x, y \in Occurrences(new, p) : f[x] = f[y] => x = y
    <3> SUFFICES ASSUME NEW x \in Occurrences(new, p), NEW y \in Occurrences(new, p),
                        f[x] = f[y], x # y
                 PROVE  FALSE
      OBVIOUS
    <3>1. s[x] = s[y]
      BY <2>2
    <3>2. x \in Nat /\ y \in Nat /\ (x < y \/ y < x)
      BY <2>2
    <3>3. x \in 1..(y - 1) \/ y \in 1..(x - 1)
      BY <2>2, <3>2, ConstantsAssumption
    <3> QED
      BY <2>1, <2>2, <3>1, <3>3
  <2>5. \A t \in fresh : \E x \in Occurrences(new, p) : f[x] = t
    BY <1>4, <2>1 DEF Occurrences
  <2>6. IsFiniteSet(fresh) /\ Cardinality(fresh) = Cardinality(Occurrences(new, p))
    <3>1. IsFiniteSet(Occurrences(new, p))
      BY <1>5, OccurrencesFinite
    <3> HIDE DEF f, fresh, new
    <3> QED
      BY <2>3, <2>4, <2>5, <3>1, CardinalityOfImage
  <2>7. Taken(p)' = Taken(p) \cup fresh
    <3>1. DOMAIN portAllocations' = DOMAIN pa
      BY <1>2
    <3>2. \A i \in DOMAIN pa : p \in portAllocations'[i] <=> p \in pa[i] \/ i \in fresh
      BY <1>2
    <3> HIDE DEF pa, fresh
    <3> QED
      BY <1>3, <3>1, <3>2 DEF Taken, SlotIds, fresh
  <2>8. Taken(p) \cap fresh = {}
    BY <1>3, <2>1 DEF Taken, SlotIds
  <2> HIDE DEF fresh
  <2> QED
    BY <2>6, <2>7, <2>8, CountsType, CardinalityOfDisjointUnion
<1> QED
  BY <1>4, <1>5, <1>6, <1>7, ObjectsType

\* Release frees at most as many slots of a port as the object has entries.
LEMMA ReleaseStep ==
  ASSUME TypeOK, Shape, NEW a \in Actors, DeAllocateRelease(a), NEW p \in Ports
  PROVE  Cardinality(Taken(p)') + Cardinality(Occurrences(actor[a].ports, p)) >= Cardinality(Taken(p))
<1> DEFINE m == Cardinality(Occurrences(actor[a].ports, p))
<1>1. PICK freed \in [Ports -> SUBSET SlotIds] :
         /\ freed[p] \in FirstSlots(Taken(p), m)
         /\ portAllocations' = [i \in SlotIds |-> {q \in portAllocations[i] : i \notin freed[q]}]
  BY DEF DeAllocateRelease
<1>2. m \in Nat
  BY OccurrencesFinite, FS_CardinalityType DEF Shape
<1>3. freed[p] \in SUBSET Taken(p) /\ Cardinality(freed[p]) <= m
  BY <1>1, <1>2, CountsType DEF FirstSlots
<1>4. Taken(p)' = Taken(p) \ freed[p]
  BY <1>1 DEF Taken, SlotIds, TypeOK
<1>5. /\ IsFiniteSet(Taken(p)') /\ IsFiniteSet(freed[p])
      /\ Cardinality(Taken(p)) = Cardinality(Taken(p)') + Cardinality(freed[p])
  BY <1>3, <1>4, CountsType, CardinalityOfRest
<1>6. Cardinality(Taken(p)') \in Nat /\ Cardinality(freed[p]) \in Nat
  BY <1>5, FS_CardinalityType
<1> QED
  BY <1>2, <1>3, <1>5, <1>6

-----------------------------------------------------------------------------
(* The restart.                                                            *)

\* Held, without the bound on the index that makes it enumerable.
LEMMA HeldProperties ==
  ASSUME Shape, NEW p
  PROVE  /\ Held(p) = {x \in Holding \X Indices : x[2] \in Occurrences(gameServer[x[1]].ports, p)}
         /\ Held(p) \subseteq Claims(GSPorts, GameServers, p)
         /\ Needs(p) = Held(p)
         /\ IsFiniteSet(Held(p)) /\ Cardinality(Held(p)) \in Nat
<1>1. \A g \in Holding : /\ g \in GameServers
                         /\ DOMAIN gameServer[g].ports = 1..Amount[g]
                         /\ DOMAIN gameServer[g].ports \subseteq Indices
                         /\ DOMAIN gameServer[g].ports \subseteq Indexes
  BY DEF Holding, Shape, Fits, Indexes
<1>2. Held(p) = {x \in Holding \X Indices : x[2] \in Occurrences(gameServer[x[1]].ports, p)}
  BY <1>1 DEF Held, Occurrences
<1>3. Held(p) \subseteq Claims(GSPorts, GameServers, p)
  BY <1>1, <1>2 DEF Claims, GSPorts
<1>4. Needs(p) = Held(p)
  BY <1>1, <1>2, ConstantsAssumption DEF Needs, Occurrences
<1>5. IsFiniteSet(GameServers \X Indices)
  BY IndicesFinite, ConstantsAssumption, FS_Product
<1>6. IsFiniteSet(Held(p))
  <2>1. Held(p) \subseteq GameServers \X Indices
    BY <1>2 DEF Holding
  <2> QED
    BY <1>5, <2>1, FS_Subset
<1> QED
  BY <1>2, <1>3, <1>4, <1>6, FS_CardinalityType

\* syncAll takes exactly as many slots of a port as there are entries for it, or
\* all of them; the entries that are left are counted as given up.
LEMMA SyncAllIsExact ==
  ASSUME TypeOK, Shape, Placed, syncAll, NEW p \in Ports
  PROVE  /\ Cardinality(Taken(p)') = IF Cardinality(Held(p)) <= Cardinality(Schedulable)
                                     THEN Cardinality(Held(p)) ELSE Cardinality(Schedulable)
         /\ Cardinality(Taken(p)') + unbooked'[p] = Cardinality(Held(p))
         /\ Cardinality(Schedulable) \in Nat
<1> DEFINE N == Cardinality(Schedulable)
           on == {x \in Held(p) : OnNode(x)}
           off == nonReadyNodesPorts(p)
           nodes == nodePortAllocation(p)
<1>0. PICK keys \in SortedKeys :
         \E closed \in [Ports -> SUBSET DOMAIN keys] :
           /\ \A q \in Ports :
                closed[q] \in FirstSlots({i \in DOMAIN keys : keys[i] \notin nodePortAllocation(q)},
                                         Cardinality(nonReadyNodesPorts(q)))
           /\ portAllocations' = [i \in DOMAIN keys |->
                {q \in Ports : keys[i] \in nodePortAllocation(q) \/ i \in closed[q]}]
           /\ unbooked' = [q \in Ports |->
                Cardinality(nonReadyNodesPorts(q)) - Cardinality(closed[q])]
  BY DEF syncAll
<1>1. PICK closed \in [Ports -> SUBSET DOMAIN keys] :
         /\ closed[p] \in FirstSlots({i \in DOMAIN keys : keys[i] \notin nodes}, Cardinality(off))
         /\ portAllocations' = [i \in DOMAIN keys |->
              {q \in Ports : keys[i] \in nodePortAllocation(q) \/ i \in closed[q]}]
         /\ unbooked'[p] = Cardinality(off) - Cardinality(closed[p])
  BY <1>0
<1> DEFINE base == {i \in DOMAIN keys : keys[i] \in nodes}
           open == {i \in DOMAIN keys : keys[i] \notin nodes}
<1>2. /\ IsFiniteSet(on) /\ IsFiniteSet(off)
      /\ Cardinality(Held(p)) = Cardinality(on) + Cardinality(off)
      /\ Cardinality(on) \in Nat /\ Cardinality(off) \in Nat
  <2>1. off = Held(p) \ on /\ on \in SUBSET Held(p)
    BY DEF nonReadyNodesPorts
  <2> HIDE DEF on, off
  <2>2. /\ IsFiniteSet(on) /\ IsFiniteSet(off)
        /\ Cardinality(Held(p)) = Cardinality(off) + Cardinality(on)
    BY <2>1, HeldProperties, CardinalityOfRest
  <2> QED
    BY <2>2, FS_CardinalityType
<1>3. IsFiniteSet(nodes) /\ Cardinality(nodes) = Cardinality(on)
  <2> DEFINE f == [x \in on |-> gameServer[x[1]].node]
  <2>1. f \in [on -> nodes]
    BY DEF nodePortAllocation
  <2>2. \A x, y \in on : f[x] = f[y] => x = y
    <3> SUFFICES ASSUME NEW x \in on, NEW y \in on, f[x] = f[y] PROVE x = y
      OBVIOUS
    <3>1. /\ x[1] \in Holding /\ y[1] \in Holding
          /\ x = <<x[1], x[2]>> /\ y = <<y[1], y[2]>>
          /\ x[2] \in DOMAIN gameServer[x[1]].ports /\ y[2] \in DOMAIN gameServer[y[1]].ports
          /\ gameServer[x[1]].ports[x[2]] = p /\ gameServer[y[1]].ports[y[2]] = p
      BY DEF Held, Occurrences
    <3>2. gameServer[x[1]].node = gameServer[y[1]].node /\ gameServer[x[1]].node # NoNode
      BY NamesAssumption DEF OnNode, Schedulable
    <3> QED
      BY <3>1, <3>2 DEF Placed
  <2>3. \A t \in nodes : \E x \in on : f[x] = t
    BY DEF nodePortAllocation
  <2> HIDE DEF f, on, nodes
  <2> QED
    BY <1>2, <2>1, <2>2, <2>3, CardinalityOfImage
<1>4. /\ IsFiniteSet(Schedulable) /\ N \in Nat
      /\ DOMAIN keys = 1..N /\ IsFiniteSet(DOMAIN keys) /\ Cardinality(DOMAIN keys) = N
      /\ keys \in [1..N -> Schedulable]
      /\ \A i, j \in 1..N : keys[i] = keys[j] => i = j
  <2>1. IsFiniteSet(Schedulable)
    BY ConstantsAssumption, FS_Subset DEF Schedulable
  <2>2. N \in Nat
    BY <2>1, FS_CardinalityType
  <2>3. keys \in [1..N -> Schedulable] /\ \A i, j \in DOMAIN keys : keys[i] = keys[j] => i = j
    BY DEF SortedKeys
  <2>4. IsFiniteSet(1..N) /\ Cardinality(1..N) = N
    BY <2>2, FS_Interval
  <2> HIDE DEF N
  <2> QED
    BY <2>1, <2>2, <2>3, <2>4
<1>5. \A n \in Schedulable : \E i \in 1..N : keys[i] = n
  <2>1. keys \in Injection(1..N, Schedulable)
    BY <1>4 DEF Injection, IsInjective
  <2>2. keys \in Surjection(1..N, Schedulable)
    BY <1>4, <2>1, FS_Injection
  <2> QED
    BY <2>2 DEF Surjection
<1>6. IsFiniteSet(base) /\ Cardinality(base) = Cardinality(on)
  <2> DEFINE f == [i \in base |-> keys[i]]
  <2>1. f \in [base -> nodes]
    OBVIOUS
  <2>2. \A x, y \in base : f[x] = f[y] => x = y
    BY <1>4
  <2>3. \A t \in nodes : \E x \in base : f[x] = t
    BY <1>4, <1>5 DEF nodePortAllocation, OnNode
  <2>4. IsFiniteSet(base)
    BY <1>4, FS_Subset
  <2> HIDE DEF f, base, nodes, on
  <2>5. Cardinality(nodes) = Cardinality(base)
    BY <2>1, <2>2, <2>3, <2>4, CardinalityOfImage
  <2> QED
    BY <1>3, <2>4, <2>5
<1>7. /\ IsFiniteSet(open) /\ Cardinality(open) \in Nat
      /\ N = Cardinality(open) + Cardinality(base)
  <2>1. open = DOMAIN keys \ base /\ base \in SUBSET DOMAIN keys
    OBVIOUS
  <2> HIDE DEF open, base, N
  <2> QED
    BY <1>4, <2>1, CardinalityOfRest, FS_CardinalityType
<1>8. /\ closed[p] \in SUBSET open
      /\ Cardinality(closed[p]) = IF Cardinality(off) < Cardinality(open)
                                  THEN Cardinality(off) ELSE Cardinality(open)
  <2> HIDE DEF off, open, nodes
  <2>1. closed[p] \in FirstSlots(open, Cardinality(off))
    BY <1>1 DEF open
  <2> QED
    BY <1>2, <1>7, <2>1, FirstSlotsSize
<1>9. Taken(p)' = base \cup closed[p]
  BY <1>1 DEF Taken, SlotIds
<1>10. base \cap closed[p] = {} /\ IsFiniteSet(closed[p])
  <2>1. base \cap open = {}
    OBVIOUS
  <2> HIDE DEF base, open
  <2> QED
    BY <1>7, <1>8, <2>1, FS_Subset
<1> HIDE DEF base, open, on, off, nodes, N
<1>11. Cardinality(Taken(p)') = Cardinality(base) + Cardinality(closed[p])
  BY <1>6, <1>9, <1>10, CardinalityOfDisjointUnion
<1>12. /\ Cardinality(Taken(p)') = IF Cardinality(Held(p)) <= N THEN Cardinality(Held(p)) ELSE N
       /\ Cardinality(Taken(p)') + unbooked'[p] = Cardinality(Held(p))
       /\ N \in Nat
  BY <1>1, <1>2, <1>4, <1>6, <1>7, <1>8, <1>11
<1> QED
  BY <1>12 DEF N

\* After a restart the objects that hold ports are the ones that did before.
LEMMA RestartObjects ==
  ASSUME TypeOK, Shape, Restart
  PROVE  /\ Holding' = Holding
         /\ \A g \in Holding : gameServer'[g] = gameServer[g]
         /\ \A g \in GameServers \ Holding : gameServer'[g].ports = <<>>
         /\ \A g \in GameServers : gameServer'[g].state = gameServer[g].state
         /\ \A a \in Actors : actor'[a] = Idle
<1>1. \A g \in GameServers :
        gameServer'[g] = IF gameServer[g].state = "Gone" THEN Forgotten ELSE gameServer[g]
  BY DEF Restart
<1>2. \A g \in GameServers : gameServer'[g].state = gameServer[g].state
  BY <1>1, ObjectsType
<1>3. Holding' = Holding
  BY <1>2 DEF Holding
<1>4. \A g \in Holding : gameServer'[g] = gameServer[g]
  BY <1>1 DEF Holding
<1>5. ASSUME NEW g \in GameServers \ Holding
      PROVE  gameServer'[g].ports = <<>>
  <2>1. gameServer[g].state \in {"None", "PortAllocation", "Gone"}
    BY <1>5 DEF TypeOK, Objects, Holding
  <2> QED
    BY <1>1, <2>1, ObjectsType DEF Shape
<1>6. \A a \in Actors : actor'[a] = Idle
  BY DEF Restart
<1> QED
  BY <1>2, <1>3, <1>4, <1>5, <1>6

-----------------------------------------------------------------------------
(* The invariant is inductive: Shape.                                      *)

LEMMA ShapeInductive ==
  ASSUME TypeOK, Shape, TCPUDP = {}, Next
  PROVE  Shape'
<1>1. ASSUME NEW w \in Workers, NEW g \in GameServers, Allocate(w, g) PROVE Shape'
  <2>1. UNCHANGED gameServer
    BY <1>1 DEF Allocate
  <2> QED
    BY <1>1, <2>1, AllocateStep DEF Shape, Fits
<1>2. ASSUME NEW w \in Workers, UpdateAccepted(w) PROVE Shape'
  <2>1. actor[w] \in Busy /\ Becomes(actor[w].gs, "Creating", actor[w].ports, NoNode)
    BY <1>2, UpdateAppliedStep
  <2>2. actor' = [actor EXCEPT ![w] = Idle] /\ actor[w].pc = "Update" /\ w \in Actors
    BY <1>2 DEF UpdateAccepted, Actors
  <2>3. Fits(actor[w].ports) /\ DOMAIN actor[w].ports = 1..Amount[actor[w].gs]
    BY <2>2 DEF Shape
  <2>4. \A a \in Actors : actor'[a] = IF a = w THEN Idle ELSE actor[a]
    BY <2>2 DEF TypeOK
  <2>5. \A a \in Actors :
          /\ Fits(actor'[a].ports)
          /\ actor'[a].pc = "Update" => DOMAIN actor'[a].ports = 1..Amount[actor'[a].gs]
    BY <2>4, EmptyFits, ObjectsType DEF Shape
  <2>6. \A h \in GameServers :
          /\ Fits(gameServer'[h].ports)
          /\ gameServer'[h].state = "Creating" => DOMAIN gameServer'[h].ports = 1..Amount[h]
          /\ gameServer'[h].state \in {"None", "PortAllocation"} => gameServer'[h].ports = <<>>
    BY <2>1, <2>3 DEF Shape, Becomes
  <2> QED
    BY <2>5, <2>6 DEF Shape, Fits
<1>3. ASSUME NEW w \in Workers, UpdateRefused(w) \/ UpdateLost(w) PROVE Shape'
  <2> DEFINE new == [actor[w] EXCEPT !.pc = "DeAllocate"]
  <2>1. actor[w] \in Busy /\ w \in Actors
    BY <1>3, BusyActors DEF UpdateRefused, UpdateLost, Actors
  <2>2. new.pc = "DeAllocate" /\ new.ports = actor[w].ports
    BY <2>1, PcUpdate
  <2>3. actor' = [actor EXCEPT ![w] = new] /\ UNCHANGED gameServer
    BY <1>3 DEF UpdateRefused, UpdateLost
  <2> HIDE DEF new
  <2>4. \A a \in Actors : actor'[a] = IF a = w THEN new ELSE actor[a]
    BY <2>3 DEF TypeOK
  <2> QED
    BY <2>1, <2>2, <2>3, <2>4 DEF Shape, Fits
<1>4. ASSUME NEW a \in Actors, DeAllocateFind(a) PROVE Shape'
  <2> DEFINE new == [actor[a] EXCEPT !.pc = "Release"]
  <2>1. actor[a] \in Busy
    BY <1>4, BusyActors DEF DeAllocateFind
  <2>2. new.pc = "Release" /\ new.ports = actor[a].ports
    BY <2>1, PcUpdate
  <2>3. /\ actor' = [actor EXCEPT ![a] = IF actor[a].gs \in gameServerRegistry THEN new ELSE Idle]
        /\ UNCHANGED gameServer
    BY <1>4 DEF DeAllocateFind
  <2> HIDE DEF new
  <2>4. /\ \A b \in Actors \ {a} : actor'[b] = actor[b]
        /\ actor'[a] = new \/ actor'[a] = Idle
    BY <2>3 DEF TypeOK
  <2>5. \A b \in Actors : Fits(actor'[b].ports) /\ (actor'[b].pc = "Update" => actor'[b] = actor[b])
    BY <2>2, <2>4, EmptyFits, ObjectsType DEF Shape
  <2> QED
    BY <2>3, <2>5 DEF Shape, Fits
<1>5. ASSUME NEW a \in Actors, DeAllocateRelease(a) PROVE Shape'
  <2>1. actor' = [actor EXCEPT ![a] = Idle] /\ UNCHANGED gameServer
    BY <1>5 DEF DeAllocateRelease
  <2>2. \A b \in Actors : actor'[b] = IF b = a THEN Idle ELSE actor[b]
    BY <2>1 DEF TypeOK
  <2>3. \A b \in Actors : Fits(actor'[b].ports) /\ (actor'[b].pc = "Update" => actor'[b] = actor[b])
    BY <2>2, EmptyFits, ObjectsType DEF Shape
  <2> QED
    BY <2>1, <2>3 DEF Shape, Fits
<1>6. ASSUME NEW g \in GameServers, Deliver(g) PROVE Shape'
  BY <1>6 DEF Deliver, Shape, Fits
<1>7. ASSUME NEW g \in GameServers, syncDeleteGameServer(g) PROVE Shape'
  <2>1. /\ \A h \in GameServers : gameServer'[h] = IF h = g THEN Forgotten ELSE gameServer[h]
        /\ \A b \in Actors : actor'[b] =
              IF b = Informer THEN [pc |-> "DeAllocate", gs |-> g, ports |-> gameServer[g].ports]
                              ELSE actor[b]
    BY <1>7 DEF TypeOK, syncDeleteGameServer, Actors
  <2> QED
    <3>1. \A h \in GameServers :
            /\ Fits(gameServer'[h].ports)
            /\ gameServer'[h].state = "Creating" => DOMAIN gameServer'[h].ports = 1..Amount[h]
            /\ gameServer'[h].state \in {"None", "PortAllocation"} => gameServer'[h].ports = <<>>
      BY <2>1, EmptyFits, ObjectsType DEF Shape
    <3>2. \A b \in Actors :
            /\ Fits(actor'[b].ports)
            /\ actor'[b].pc = "Update" => DOMAIN actor'[b].ports = 1..Amount[actor'[b].gs]
      BY <2>1, EmptyFits, ObjectsType DEF Shape
    <3> QED
      BY <3>1, <3>2 DEF Shape, Fits
<1>8. ASSUME NEW g \in GameServers, DeliverTombstone(g) PROVE Shape'
  <2>1. /\ \A h \in GameServers : gameServer'[h] = IF h = g THEN Forgotten ELSE gameServer[h]
        /\ UNCHANGED actor
    BY <1>8 DEF TypeOK, DeliverTombstone
  <2> QED
    BY <2>1, EmptyFits, ObjectsType DEF Shape, Fits
<1>9. ASSUME NEW g \in GameServers, Create(g) PROVE Shape'
  <2>1. /\ \A h \in GameServers : gameServer'[h] = IF h = g THEN Unallocated ELSE gameServer[h]
        /\ UNCHANGED actor
    BY <1>9 DEF TypeOK, Create
  <2> QED
    BY <2>1, EmptyFits, ObjectsType DEF Shape, Fits
<1>10. ASSUME NEW g \in GameServers, MarkDeleted(g) \/ RemoveFinalizer(g) PROVE Shape'
  <2>1. \/ Becomes(g, gameServer[g].state, gameServer[g].ports, gameServer[g].node)
        \/ Becomes(g, "Gone", gameServer[g].ports, gameServer[g].node)
    BY <1>10, MarkDeletedStep, RemoveFinalizerStep
  <2>2. UNCHANGED actor
    BY <1>10 DEF MarkDeleted, RemoveFinalizer
  <2> QED
    BY <2>1, <2>2 DEF Shape, Fits, Becomes
<1>11. ASSUME NEW g \in GameServers, NEW n \in Nodes, Schedule(g, n) PROVE Shape'
  <2>1. Becomes(g, "Creating", gameServer[g].ports, n)
    BY <1>11, ScheduleStep
  <2>2. UNCHANGED actor /\ gameServer[g].state = "Creating"
    BY <1>11 DEF Schedule
  <2> QED
    BY <2>1, <2>2 DEF Shape, Fits, Becomes
<1>12. ASSUME NEW w \in Workers, UpdateAnswerLost(w) PROVE Shape'
  <2> DEFINE new == [actor[w] EXCEPT !.pc = "DeAllocate"]
  <2>1. actor[w] \in Busy /\ Becomes(actor[w].gs, "Creating", actor[w].ports, NoNode)
    BY <1>12, UpdateAppliedStep
  <2>2. actor[w].pc = "Update" /\ w \in Actors /\ actor' = [actor EXCEPT ![w] = new]
    BY <1>12 DEF UpdateAnswerLost, Actors
  <2>3. new.pc = "DeAllocate" /\ new.ports = actor[w].ports
    BY <2>1, PcUpdate
  <2> HIDE DEF new
  <2>4. Fits(actor[w].ports) /\ DOMAIN actor[w].ports = 1..Amount[actor[w].gs]
    BY <2>2 DEF Shape
  <2>5. \A a \in Actors : actor'[a] = IF a = w THEN new ELSE actor[a]
    BY <2>2 DEF TypeOK
  <2>6. \A a \in Actors :
          /\ Fits(actor'[a].ports)
          /\ actor'[a].pc = "Update" => DOMAIN actor'[a].ports = 1..Amount[actor'[a].gs]
    BY <2>3, <2>4, <2>5 DEF Shape
  <2>7. \A h \in GameServers :
          /\ Fits(gameServer'[h].ports)
          /\ gameServer'[h].state = "Creating" => DOMAIN gameServer'[h].ports = 1..Amount[h]
          /\ gameServer'[h].state \in {"None", "PortAllocation"} => gameServer'[h].ports = <<>>
    BY <2>1, <2>4 DEF Shape, Becomes
  <2> QED
    BY <2>6, <2>7 DEF Shape, Fits
<1>13. ASSUME NEW n \in Nodes, Cordon(n) PROVE Shape'
  BY <1>13 DEF Cordon, Shape, Fits
<1>14. ASSUME Restart PROVE Shape'
  <2>1. \A g \in GameServers :
          /\ Fits(gameServer'[g].ports)
          /\ gameServer'[g].state = "Creating" => DOMAIN gameServer'[g].ports = 1..Amount[g]
          /\ gameServer'[g].state \in {"None", "PortAllocation"} => gameServer'[g].ports = <<>>
    BY <1>14, RestartObjects, EmptyFits DEF Shape, Holding
  <2>2. \A a \in Actors : Fits(actor'[a].ports) /\ actor'[a].pc # "Update"
    BY <1>14, RestartObjects, EmptyFits, ObjectsType
  <2> QED
    BY <2>1, <2>2 DEF Shape, Fits
<1> QED
  BY <1>1, <1>2, <1>3, <1>4, <1>5, <1>6, <1>7, <1>8, <1>9, <1>10, <1>11, <1>12, <1>13, <1>14
     DEF Next, WorkerStep

-----------------------------------------------------------------------------
(* The invariant is inductive: Placed.                                     *)

\* It survives a step after which no new GameServer holds ports and those that
\* do are where they were.
LEMMA PlacedKept ==
  ASSUME Placed, Holding' \subseteq Holding,
         \A g \in Holding' : /\ gameServer'[g].ports = gameServer[g].ports
                             /\ gameServer'[g].node = gameServer[g].node
  PROVE  Placed'
BY DEF Placed

LEMMA PlacedInductive ==
  ASSUME TypeOK, Shape, Placed, Next
  PROVE  Placed'
<1>1. ASSUME UNCHANGED gameServer PROVE Placed'
  BY <1>1, PlacedKept DEF Holding
<1>2. ASSUME NEW w \in Workers, UpdateAccepted(w) \/ UpdateAnswerLost(w) PROVE Placed'
  <2> DEFINE g == actor[w].gs
  <2>1. Becomes(g, "Creating", actor[w].ports, NoNode)
    BY <1>2, UpdateAppliedStep
  <2>2. Holding' \subseteq Holding \cup {g}
    BY <2>1 DEF Holding, Becomes
  <2>3. \A h \in Holding' \ {g} : h \in Holding /\ gameServer'[h] = gameServer[h]
    BY <2>1, <2>2 DEF Holding, Becomes
  <2>4. gameServer'[g].node = NoNode
    BY <2>1 DEF Becomes
  <2> HIDE DEF g
  <2> QED
    BY <2>3, <2>4 DEF Placed
<1>3. ASSUME NEW g \in GameServers, syncDeleteGameServer(g) \/ DeliverTombstone(g) \/ Create(g)
      PROVE  Placed'
  <2>1. gameServer' = [gameServer EXCEPT ![g] = Forgotten]
        \/ gameServer' = [gameServer EXCEPT ![g] = Unallocated]
    BY <1>3 DEF syncDeleteGameServer, DeliverTombstone, Create
  <2>2. /\ \A h \in GameServers \ {g} : gameServer'[h] = gameServer[h]
        /\ gameServer'[g].state # "Creating"
    BY <2>1, ObjectsType DEF TypeOK
  <2> QED
    BY <2>2, PlacedKept DEF Holding
<1>4. ASSUME NEW g \in GameServers, MarkDeleted(g) \/ RemoveFinalizer(g) PROVE Placed'
  <2>1. \/ Becomes(g, gameServer[g].state, gameServer[g].ports, gameServer[g].node)
        \/ Becomes(g, "Gone", gameServer[g].ports, gameServer[g].node)
    BY <1>4, MarkDeletedStep, RemoveFinalizerStep
  <2> QED
    BY <2>1, PlacedKept DEF Holding, Becomes
<1>5. ASSUME NEW g \in GameServers, NEW n \in Nodes, Schedule(g, n) PROVE Placed'
  <2>1. Becomes(g, "Creating", gameServer[g].ports, n)
    BY <1>5, ScheduleStep
  <2>2. /\ \A h \in Holding : gameServer'[h].ports = gameServer[h].ports
        /\ \A h \in Holding \ {g} : gameServer'[h].node = gameServer[h].node
        /\ gameServer'[g].node = n
        /\ Holding' = Holding /\ g \in Holding
    BY <1>5, <2>1 DEF Holding, Becomes, Schedule
  <2>3. DOMAIN gameServer[g].ports = 1..Amount[g]
    BY <2>2 DEF Shape, Holding
  <2>4. \A j, k \in DOMAIN gameServer[g].ports :
          gameServer[g].ports[j] = gameServer[g].ports[k] => j = k
    BY <1>5, <2>3 DEF Schedule
  <2>5. \A h \in Holding : gameServer[h].node = n =>
          \A j \in DOMAIN gameServer[g].ports, k \in DOMAIN gameServer[h].ports :
             gameServer[g].ports[j] # gameServer[h].ports[k]
    BY <1>5 DEF Schedule, Holding
  <2> QED
    BY <2>2, <2>4, <2>5 DEF Placed
<1>6. ASSUME Restart PROVE Placed'
  BY <1>6, RestartObjects, PlacedKept
<1> QED
  BY <1>1, <1>2, <1>3, <1>4, <1>5, <1>6
     DEF Next, WorkerStep, Allocate, UpdateRefused, UpdateLost, DeAllocateFind,
         DeAllocateRelease, Deliver, Cordon

-----------------------------------------------------------------------------
(* The invariant is inductive: Books.                                      *)

LEMMA BooksInductive ==
  ASSUME TypeOK, Shape, Placed, Books, TCPUDP = {}, Next, TypeOK', Shape',
         NEW p \in Ports
  PROVE  Cardinality(Taken(p)') + unbooked'[p] >= GSCount(p)' + ActorCount(p)'
<1>1. /\ GSCount(p) \in Nat /\ ActorCount(p) \in Nat /\ Cardinality(Taken(p)) \in Nat
      /\ unbooked[p] \in Nat /\ unbooked'[p] \in Nat
      /\ Cardinality(Taken(p)) + unbooked[p] >= GSCount(p) + ActorCount(p)
  BY CountsType DEF Books, TypeOK
<1>2. /\ \A g \in GameServers : /\ Fits(gameServer[g].ports)
                                /\ Cardinality(Occurrences(gameServer[g].ports, p)) \in Nat
                                /\ Fits(gameServer'[g].ports)
                                /\ Cardinality(Occurrences(gameServer'[g].ports, p)) \in Nat
      /\ \A a \in Actors : /\ Fits(actor[a].ports)
                           /\ Cardinality(Occurrences(actor[a].ports, p)) \in Nat
                           /\ Fits(actor'[a].ports)
                           /\ Cardinality(Occurrences(actor'[a].ports, p)) \in Nat
  <2>1. /\ \A g \in GameServers : Fits(gameServer[g].ports) /\ Fits(gameServer'[g].ports)
        /\ \A a \in Actors : Fits(actor[a].ports) /\ Fits(actor'[a].ports)
    BY DEF Shape, Fits
  <2> QED
    BY <2>1, OccurrencesFinite, FS_CardinalityType
<1>3. /\ Cardinality(Occurrences(<<>>, p)) = 0 /\ Idle.ports = <<>> /\ Forgotten.ports = <<>>
      /\ Unallocated.ports = <<>> /\ Blank.ports = <<>>
  BY EmptyFits, ObjectsType
<1>4. /\ GSCount(p)' \in Nat /\ ActorCount(p)' \in Nat
  <2>1. IsFiniteSet(Claims(GSPorts', GameServers, p)) /\ IsFiniteSet(Claims(ActorPorts', Actors, p))
    BY ClaimsFinite, ActorsFinite, ConstantsAssumption
  <2> QED
    BY <2>1, FS_CardinalityType DEF GSCount, ActorCount, Claims
\* Who changes what; the arithmetic is the same everywhere.
<1>5. ASSUME UNCHANGED <<portAllocations, unbooked>>,
             \A g \in GameServers : gameServer'[g].ports = gameServer[g].ports,
             \A a \in Actors : actor'[a].ports = actor[a].ports
      PROVE  Cardinality(Taken(p)') + unbooked'[p] >= GSCount(p)' + ActorCount(p)'
  <2>1. Taken(p)' = Taken(p)
    BY <1>5 DEF Taken, SlotIds
  <2> QED
    BY <1>1, <1>5, <2>1, CountsSame
<1>6. ASSUME NEW w \in Workers, NEW g \in GameServers, Allocate(w, g)
      PROVE  Cardinality(Taken(p)') + unbooked'[p] >= GSCount(p)' + ActorCount(p)'
  <2>1. w \in Actors /\ UNCHANGED <<gameServer, unbooked>>
    BY <1>6 DEF Actors, Allocate
  <2>2. GSCount(p)' = GSCount(p)
    BY <2>1 DEF GSCount, GSPorts, Claims
  <2>3. /\ actor[w].ports = <<>>
        /\ \A b \in Actors \ {w} : actor'[b].ports = actor[b].ports
        /\ Cardinality(Taken(p)') =
              Cardinality(Taken(p)) + Cardinality(Occurrences(actor'[w].ports, p))
    BY <1>6, AllocateStep
  <2>4. ActorCount(p)' + Cardinality(Occurrences(actor[w].ports, p))
          = ActorCount(p) + Cardinality(Occurrences(actor'[w].ports, p))
    BY <1>2, <2>1, <2>3, ActorCountChange
  <2>5. /\ unbooked'[p] = unbooked[p] /\ Cardinality(Occurrences(actor[w].ports, p)) = 0
        /\ Cardinality(Occurrences(actor'[w].ports, p)) \in Nat
    BY <1>2, <1>3, <2>1, <2>3
  <2> QED
    BY <1>1, <1>4, <2>2, <2>3, <2>4, <2>5
<1>7. ASSUME NEW w \in Workers, UpdateAccepted(w)
      PROVE  Cardinality(Taken(p)') + unbooked'[p] >= GSCount(p)' + ActorCount(p)'
  <2> DEFINE g == actor[w].gs
  <2>1. Becomes(g, "Creating", actor[w].ports, NoNode) /\ g \in GameServers /\ w \in Actors
    BY <1>7, UpdateAppliedStep DEF Actors, Busy
  <2>2. /\ \A b \in Actors \ {w} : actor'[b].ports = actor[b].ports
        /\ actor'[w].ports = <<>> /\ gameServer[g].ports = <<>>
        /\ UNCHANGED <<portAllocations, unbooked>>
    BY <1>3, <1>7, <2>1 DEF UpdateAccepted, TypeOK
  <2>3. /\ \A h \in GameServers \ {g} : gameServer'[h].ports = gameServer[h].ports
        /\ gameServer'[g].ports = actor[w].ports
    BY <2>1 DEF Becomes
  <2> HIDE DEF g
  <2>4. GSCount(p)' + Cardinality(Occurrences(gameServer[g].ports, p))
          = GSCount(p) + Cardinality(Occurrences(gameServer'[g].ports, p))
    BY <1>2, <2>1, <2>3, GSCountChange
  <2>5. ActorCount(p)' + Cardinality(Occurrences(actor[w].ports, p))
          = ActorCount(p) + Cardinality(Occurrences(actor'[w].ports, p))
    BY <1>2, <2>1, <2>2, ActorCountChange
  <2>6. Taken(p)' = Taken(p)
    BY <2>2 DEF Taken, SlotIds
  <2> QED
    BY <1>1, <1>2, <1>3, <1>4, <2>1, <2>2, <2>3, <2>4, <2>5, <2>6
<1>8. ASSUME NEW w \in Workers, UpdateRefused(w) \/ UpdateLost(w)
      PROVE  Cardinality(Taken(p)') + unbooked'[p] >= GSCount(p)' + ActorCount(p)'
  <2> DEFINE new == [actor[w] EXCEPT !.pc = "DeAllocate"]
  <2>1. actor[w] \in Busy
    BY <1>8, BusyActors DEF UpdateRefused, UpdateLost, Actors
  <2>2. new.ports = actor[w].ports
    BY <2>1, PcUpdate
  <2>3. actor' = [actor EXCEPT ![w] = new] /\ UNCHANGED <<portAllocations, gameServer, unbooked>>
    BY <1>8 DEF UpdateRefused, UpdateLost
  <2> HIDE DEF new
  <2>4. \A a \in Actors : actor'[a].ports = actor[a].ports
    BY <2>2, <2>3 DEF TypeOK
  <2> QED
    BY <1>5, <2>3, <2>4
<1>9. ASSUME NEW a \in Actors, DeAllocateFind(a)
      PROVE  Cardinality(Taken(p)') + unbooked'[p] >= GSCount(p)' + ActorCount(p)'
  <2> DEFINE new == [actor[a] EXCEPT !.pc = "Release"]
  <2>1. actor[a] \in Busy
    BY <1>9, BusyActors DEF DeAllocateFind
  <2>2. new.ports = actor[a].ports
    BY <2>1, PcUpdate
  <2>3. /\ actor' = [actor EXCEPT ![a] = IF actor[a].gs \in gameServerRegistry THEN new ELSE Idle]
        /\ UNCHANGED <<portAllocations, gameServer, unbooked>>
    BY <1>9 DEF DeAllocateFind
  <2> HIDE DEF new
  <2>4. /\ \A b \in Actors \ {a} : actor'[b].ports = actor[b].ports
        /\ actor'[a].ports = actor[a].ports \/ actor'[a].ports = <<>>
    BY <1>3, <2>2, <2>3 DEF TypeOK
  <2>5. ActorCount(p)' + Cardinality(Occurrences(actor[a].ports, p))
          = ActorCount(p) + Cardinality(Occurrences(actor'[a].ports, p))
    BY <1>2, <2>4, ActorCountChange
  <2>6. Taken(p)' = Taken(p) /\ GSCount(p)' = GSCount(p)
    BY <2>3 DEF Taken, SlotIds, GSCount, GSPorts, Claims
  <2>7. /\ unbooked'[p] = unbooked[p] /\ Cardinality(Occurrences(actor[a].ports, p)) \in Nat
        /\ \/ Cardinality(Occurrences(actor'[a].ports, p)) = Cardinality(Occurrences(actor[a].ports, p))
           \/ Cardinality(Occurrences(actor'[a].ports, p)) = 0
    BY <1>2, <1>3, <2>3, <2>4
  <2> QED
    BY <1>1, <1>4, <2>5, <2>6, <2>7
<1>10. ASSUME NEW a \in Actors, DeAllocateRelease(a)
      PROVE  Cardinality(Taken(p)') + unbooked'[p] >= GSCount(p)' + ActorCount(p)'
  <2>1. actor' = [actor EXCEPT ![a] = Idle] /\ UNCHANGED <<gameServer, unbooked>>
    BY <1>10 DEF DeAllocateRelease
  <2>2. /\ \A b \in Actors \ {a} : actor'[b].ports = actor[b].ports
        /\ actor'[a].ports = <<>>
    BY <1>3, <2>1 DEF TypeOK
  <2>3. ActorCount(p)' + Cardinality(Occurrences(actor[a].ports, p))
          = ActorCount(p) + Cardinality(Occurrences(actor'[a].ports, p))
    BY <1>2, <2>2, ActorCountChange
  <2>4. GSCount(p)' = GSCount(p)
    BY <2>1 DEF GSCount, GSPorts, Claims
  <2>5. Cardinality(Taken(p)') + Cardinality(Occurrences(actor[a].ports, p)) >= Cardinality(Taken(p))
    BY <1>10, ReleaseStep
  <2>6. Cardinality(Taken(p)') \in Nat
    <3>1. IsFiniteSet(SlotIds') /\ Taken(p)' \subseteq SlotIds'
      BY LenProperties, FS_Interval DEF TypeOK, SlotIds, Taken
    <3> QED
      BY <3>1, FS_Subset, FS_CardinalityType
  <2>7. /\ unbooked'[p] = unbooked[p] /\ Cardinality(Occurrences(actor'[a].ports, p)) = 0
        /\ Cardinality(Occurrences(actor[a].ports, p)) \in Nat
    BY <1>2, <1>3, <2>1, <2>2
  <2> QED
    BY <1>1, <1>4, <2>3, <2>4, <2>5, <2>6, <2>7
<1>11. ASSUME NEW g \in GameServers, syncDeleteGameServer(g)
      PROVE  Cardinality(Taken(p)') + unbooked'[p] >= GSCount(p)' + ActorCount(p)'
  <2>1. /\ gameServer' = [gameServer EXCEPT ![g] = Forgotten]
        /\ actor' = [actor EXCEPT ![Informer] =
              [pc |-> "DeAllocate", gs |-> g, ports |-> gameServer[g].ports]]
        /\ actor[Informer] = Idle /\ Informer \in Actors
        /\ UNCHANGED <<portAllocations, unbooked>>
    BY <1>11 DEF syncDeleteGameServer, Actors
  <2>2. /\ \A h \in GameServers \ {g} : gameServer'[h].ports = gameServer[h].ports
        /\ gameServer'[g].ports = <<>>
        /\ \A b \in Actors \ {Informer} : actor'[b].ports = actor[b].ports
        /\ actor'[Informer].ports = gameServer[g].ports /\ actor[Informer].ports = <<>>
    BY <1>3, <2>1 DEF TypeOK
  <2>3. GSCount(p)' + Cardinality(Occurrences(gameServer[g].ports, p))
          = GSCount(p) + Cardinality(Occurrences(gameServer'[g].ports, p))
    BY <1>2, <2>2, GSCountChange
  <2>4. ActorCount(p)' + Cardinality(Occurrences(actor[Informer].ports, p))
          = ActorCount(p) + Cardinality(Occurrences(actor'[Informer].ports, p))
    BY <1>2, <2>1, <2>2, ActorCountChange
  <2>5. Taken(p)' = Taken(p)
    BY <2>1 DEF Taken, SlotIds
  <2>6. /\ unbooked'[p] = unbooked[p]
        /\ Cardinality(Occurrences(gameServer'[g].ports, p)) = 0
        /\ Cardinality(Occurrences(actor[Informer].ports, p)) = 0
        /\ Cardinality(Occurrences(actor'[Informer].ports, p))
              = Cardinality(Occurrences(gameServer[g].ports, p))
    BY <1>3, <2>1, <2>2
  <2>7. Cardinality(Occurrences(gameServer[g].ports, p)) \in Nat
    BY <1>2
  <2> QED
    BY <1>1, <1>4, <2>3, <2>4, <2>5, <2>6, <2>7
<1>12. ASSUME NEW g \in GameServers, DeliverTombstone(g)
      PROVE  Cardinality(Taken(p)') + unbooked'[p] >= GSCount(p)' + ActorCount(p)'
  <2>1. gameServer' = [gameServer EXCEPT ![g] = Forgotten] /\ UNCHANGED <<actor, portAllocations, unbooked>>
    BY <1>12 DEF DeliverTombstone
  <2>2. /\ \A h \in GameServers \ {g} : gameServer'[h].ports = gameServer[h].ports
        /\ gameServer'[g].ports = <<>>
    BY <1>3, <2>1 DEF TypeOK
  <2>3. GSCount(p)' + Cardinality(Occurrences(gameServer[g].ports, p))
          = GSCount(p) + Cardinality(Occurrences(gameServer'[g].ports, p))
    BY <1>2, <2>2, GSCountChange
  <2>4. Taken(p)' = Taken(p) /\ ActorCount(p)' = ActorCount(p)
    BY <2>1 DEF Taken, SlotIds, ActorCount, ActorPorts, Claims
  <2>5. /\ unbooked'[p] = unbooked[p] /\ Cardinality(Occurrences(gameServer'[g].ports, p)) = 0
        /\ Cardinality(Occurrences(gameServer[g].ports, p)) \in Nat
    BY <1>2, <1>3, <2>1, <2>2
  <2> QED
    BY <1>1, <1>4, <2>3, <2>4, <2>5
<1>13. ASSUME NEW g \in GameServers,
              Deliver(g) \/ Create(g) \/ MarkDeleted(g) \/ RemoveFinalizer(g)
                \/ (\E n \in Nodes : Schedule(g, n))
      PROVE  Cardinality(Taken(p)') + unbooked'[p] >= GSCount(p)' + ActorCount(p)'
  <2>1. UNCHANGED <<portAllocations, actor, unbooked>>
    BY <1>13 DEF Deliver, Create, MarkDeleted, RemoveFinalizer, Schedule
  <2>2. \A h \in GameServers : gameServer'[h].ports = gameServer[h].ports
    <3>1. CASE Deliver(g)
      BY <3>1 DEF Deliver
    <3>2. CASE Create(g)
      BY <1>3, <3>2 DEF Create, TypeOK
    <3>3. CASE MarkDeleted(g) \/ RemoveFinalizer(g)
      BY <3>3, MarkDeletedStep, RemoveFinalizerStep DEF Becomes
    <3>4. CASE \E n \in Nodes : Schedule(g, n)
      BY <3>4, ScheduleStep DEF Becomes
    <3> QED
      BY <1>13, <3>1, <3>2, <3>3, <3>4
  <2> QED
    BY <1>5, <2>1, <2>2
<1>14. ASSUME NEW w \in Workers, UpdateAnswerLost(w)
      PROVE  Cardinality(Taken(p)') + unbooked'[p] >= GSCount(p)' + ActorCount(p)'
  <2> DEFINE g == actor[w].gs
             new == [actor[w] EXCEPT !.pc = "DeAllocate"]
  <2>1. /\ actor[w] \in Busy /\ g \in GameServers /\ w \in Actors
        /\ Becomes(g, "Creating", actor[w].ports, NoNode)
    BY <1>14, UpdateAppliedStep DEF Actors, Busy
  <2>2. /\ actor' = [actor EXCEPT ![w] = new] /\ new.ports = actor[w].ports
        /\ gameServer[g] = Unallocated
        /\ unbooked'[p] = unbooked[p] + Cardinality(Occurrences(actor[w].ports, p))
        /\ UNCHANGED portAllocations
    BY <1>14, <2>1, PcUpdate DEF UpdateAnswerLost
  <2> HIDE DEF new
  <2>3. /\ \A b \in Actors : actor'[b].ports = actor[b].ports
        /\ gameServer[g].ports = <<>>
    BY <1>3, <2>2 DEF TypeOK
  <2>4. /\ \A h \in GameServers \ {g} : gameServer'[h].ports = gameServer[h].ports
        /\ gameServer'[g].ports = actor[w].ports
    BY <2>1 DEF Becomes
  <2> HIDE DEF g
  <2>5. GSCount(p)' + Cardinality(Occurrences(gameServer[g].ports, p))
          = GSCount(p) + Cardinality(Occurrences(gameServer'[g].ports, p))
    BY <1>2, <2>1, <2>4, GSCountChange
  <2>6. ActorCount(p)' + Cardinality(Occurrences(actor[w].ports, p))
          = ActorCount(p) + Cardinality(Occurrences(actor'[w].ports, p))
    BY <1>2, <2>1, <2>3, ActorCountChange
  <2>7. Taken(p)' = Taken(p)
    BY <2>2 DEF Taken, SlotIds
  <2>8. GSCount(p)' = GSCount(p) + Cardinality(Occurrences(actor[w].ports, p))
    BY <1>1, <1>2, <1>3, <1>4, <2>1, <2>3, <2>4, <2>5
  <2>9. ActorCount(p)' = ActorCount(p)
    BY <1>1, <1>2, <1>4, <2>1, <2>3, <2>6
  <2> QED
    BY <1>1, <1>2, <1>4, <2>1, <2>2, <2>7, <2>8, <2>9
<1>15. ASSUME NEW n \in Nodes, Cordon(n)
      PROVE  Cardinality(Taken(p)') + unbooked'[p] >= GSCount(p)' + ActorCount(p)'
  BY <1>5, <1>15 DEF Cordon
<1>16. ASSUME Restart
      PROVE  Cardinality(Taken(p)') + unbooked'[p] >= GSCount(p)' + ActorCount(p)'
  <2>1. Claims(GSPorts, GameServers, p)' = Held(p)
    <3>1. \A g \in GameServers : gameServer'[g].ports =
            IF g \in Holding THEN gameServer[g].ports ELSE <<>>
      BY <1>16, RestartObjects
    <3>2. Occurrences(<<>>, p) = {}
      BY DEF Occurrences
    <3> QED
      BY <3>1, <3>2, HeldProperties DEF Claims, GSPorts, Holding
  <2>2. Claims(ActorPorts, Actors, p)' = {}
    <3>1. \A a \in Actors : actor'[a].ports = <<>>
      BY <1>3, <1>16, RestartObjects
    <3> QED
      BY <3>1 DEF Claims, ActorPorts, Occurrences
  <2>3. Cardinality(Taken(p)') + unbooked'[p] = Cardinality(Held(p))
    BY <1>16, SyncAllIsExact DEF Restart
  <2>4. GSCount(p)' = Cardinality(Held(p)) /\ ActorCount(p)' = 0
    BY <2>1, <2>2, FS_EmptySet DEF GSCount, ActorCount
  <2> QED
    BY <2>3, <2>4, HeldProperties
<1> QED
  BY <1>6, <1>7, <1>8, <1>9, <1>10, <1>11, <1>12, <1>13,
     <1>14, <1>15, <1>16 DEF Next, WorkerStep
-----------------------------------------------------------------------------
(* The theorems.                                                           *)

\* Nothing is held and nothing is claimed when the controller first starts.
LEMMA IInvInit == Init => IInv
<1> SUFFICES ASSUME Init PROVE IInv
  OBVIOUS
<1>1. TypeOK
  BY TypeOKInit
<1>2. /\ \A g \in GameServers : gameServer[g].ports = <<>> /\ gameServer[g].state = "None"
      /\ \A a \in Actors : actor[a].ports = <<>> /\ actor[a].pc = "Idle"
  BY ObjectsType DEF Init, Blank, Idle
<1>3. Shape
  BY <1>2, EmptyFits DEF Shape, Fits
<1>4. Placed
  BY <1>2 DEF Placed, Holding
<1>5. ASSUME NEW p \in Ports
      PROVE  Cardinality(Taken(p)) + unbooked[p] >= GSCount(p) + ActorCount(p)
  <2>0. unbooked[p] = 0
    BY DEF Init
  <2>1. Claims(GSPorts, GameServers, p) = {} /\ Claims(ActorPorts, Actors, p) = {}
    BY <1>2 DEF Claims, GSPorts, ActorPorts, Occurrences
  <2>2. GSCount(p) = 0 /\ ActorCount(p) = 0
    BY <2>1, FS_EmptySet DEF GSCount, ActorCount
  <2> QED
    BY <1>1, <2>0, <2>2, CountsType
<1> QED
  BY <1>1, <1>3, <1>4, <1>5 DEF IInv, Books

\* Every step preserves the invariant: the three parts have lemmas of their own,
\* and a stuttering step changes no variable.
LEMMA IInvInductive ==
  ASSUME TCPUDP = {}
  PROVE  IInv /\ [Next]_vars => IInv'
<1> SUFFICES ASSUME IInv, [Next]_vars PROVE IInv'
  OBVIOUS
<1>1. TypeOK'
  BY TypeOKInductive DEF IInv
<1>2. ASSUME Next PROVE IInv'
  <2>1. Shape'
    BY <1>2, ShapeInductive DEF IInv
  <2>2. Placed'
    BY <1>2, PlacedInductive DEF IInv
  <2>3. \A p \in Ports : Cardinality(Taken(p)') + unbooked'[p] >= GSCount(p)' + ActorCount(p)'
    BY <1>1, <1>2, <2>1, BooksInductive DEF IInv
  <2> QED
    BY <1>1, <2>1, <2>2, <2>3 DEF IInv, Books
<1>3. ASSUME UNCHANGED vars PROVE IInv'
  <2>1. Shape' /\ Placed' /\ Books'
    BY <1>3 DEF vars, IInv, Shape, Fits, Placed, Holding, Books, Taken, SlotIds,
                GSCount, ActorCount, GSPorts, ActorPorts, Claims
  <2> QED
    BY <1>1, <2>1 DEF IInv
<1> QED
  BY <1>2, <1>3

\* The entries that hold a port are among the claims the books cover.
LEMMA BooksCoverNeeds == IInv => HeldPortsAreTaken
<1> SUFFICES ASSUME IInv, NEW p \in Ports
             PROVE  Cardinality(Taken(p)) + unbooked[p] >= Cardinality(Needs(p))
  BY DEF HeldPortsAreTaken
<1>1. Needs(p) \subseteq Claims(GSPorts, GameServers, p)
  BY HeldProperties DEF IInv
<1>2. IsFiniteSet(Claims(GSPorts, GameServers, p))
  BY ClaimsFinite, ConstantsAssumption
<1>3. Cardinality(Needs(p)) <= GSCount(p) /\ Cardinality(Needs(p)) \in Nat
  BY <1>1, <1>2, FS_Subset, FS_CardinalityType DEF GSCount
<1>4. Cardinality(Taken(p)) + unbooked[p] >= GSCount(p) + ActorCount(p)
  BY DEF IInv, Books
<1>5. unbooked[p] \in Nat
  BY DEF IInv, TypeOK
<1> QED
  BY <1>3, <1>4, <1>5, CountsType DEF IInv

\* With no TCPUDP ports every host port that a GameServer object holds has a taken
\* slot of its own, however the workers, the informer, cordoned nodes, failures and
\* restarts interleave, but for the entries of Updates whose answer was lost and
\* those that found no slot at a restart.
THEOREM HeldPortsStayTaken ==
  ASSUME TCPUDP = {}
  PROVE  Spec => []HeldPortsAreTaken
<1>1. Init => IInv
  BY IInvInit
<1>2. IInv /\ [Next]_vars => IInv'
  BY IInvInductive
<1>3. IInv => HeldPortsAreTaken
  BY BooksCoverNeeds
<1> QED
  BY <1>1, <1>2, <1>3, PTL DEF Spec

\* A restart leaves exactly one taken slot per port entry held, or all the slots
\* there are when the entries are more, whatever had been leaked before it.
THEOREM RestartRebuildsTheBooks ==
  ASSUME TCPUDP = {}
  PROVE  Spec => RestartIsExact
<1>1. Init => IInv
  BY IInvInit
<1>2. IInv /\ [Next]_vars => IInv'
  BY IInvInductive
<1> DEFINE Exact == \A p \in Ports :
          Cardinality(Taken(p)') =
             IF Cardinality(Needs(p)') <= Cardinality(Schedulable)
             THEN Cardinality(Needs(p)') ELSE Cardinality(Schedulable)
<1>3. IInv /\ IInv' /\ [Next]_vars => [Restart => Exact]_vars
  <2> SUFFICES ASSUME IInv, IInv', Restart, NEW p \in Ports
               PROVE  Cardinality(Taken(p)') =
                         IF Cardinality(Needs(p)') <= Cardinality(Schedulable)
                         THEN Cardinality(Needs(p)') ELSE Cardinality(Schedulable)
    OBVIOUS
  <2>1. Cardinality(Taken(p)') =
          IF Cardinality(Held(p)) <= Cardinality(Schedulable)
          THEN Cardinality(Held(p)) ELSE Cardinality(Schedulable)
    BY SyncAllIsExact DEF IInv, Restart
  <2>2. Needs(p)' = Held(p)
    <3>1. \A g \in Holding : gameServer'[g].ports = gameServer[g].ports
      BY RestartObjects DEF IInv
    <3>2. \A g \in Holding : DOMAIN gameServer[g].ports = 1..Amount[g] /\ g \in GameServers
      BY DEF IInv, Shape, Holding
    <3>3. Holding' = Holding
      BY RestartObjects DEF IInv
    <3>4. \A g \in Holding : DOMAIN gameServer[g].ports \subseteq Indexes
                             /\ DOMAIN gameServer[g].ports \subseteq Indexes'
      BY <3>1, <3>2 DEF Indexes
    <3>5. \A h : h \in Held(p)' <=> h \in Held(p)
      BY <3>1, <3>3, <3>4 DEF Held, Occurrences
    <3> QED
      BY <3>2, <3>3, <3>5, <3>1, ConstantsAssumption DEF Needs, Held, Occurrences
  <2> QED
    BY <2>1, <2>2
<1> QED
  BY <1>1, <1>2, <1>3, PTL DEF Spec, RestartIsExact
=============================================================================
