------------------------- MODULE GameServerSetProofs -------------------------
(***************************************************************************)
(* TypeOK, NeverTooMany and AllocatedIsKept of GameServerSet, for every    *)
(* size of the set, every limit on a batch and every number of GameServers.*)
(***************************************************************************)
EXTENDS GameServerSet, FiniteSetTheorems, TLAPS

UpStates == {"Starting", "Ready", "Allocated", "Error"}

\* What the list may show of a GameServer that is up, or not created yet.
Earlier(state) ==
    CASE state = "none" -> {"none"}
      [] state = "Starting" -> {"none", "Starting"}
      [] state = "Ready" -> {"none", "Starting", "Ready"}
      [] state = "Allocated" -> {"none", "Starting", "Ready", "Allocated"}
      [] state = "Error" -> {"none", "Starting", "Error"}
      [] OTHER -> States

\* Those that a sync which saw them would count.
Known == Up \ Unknown

\* Those that the overlay does not show either.
NotShown == {n \in lost : n \notin List}

\* The overlay makes up for what the list does not show, unless the answer was lost.
OverlayInv ==
    \A n \in Names :
        /\ listed[n] \in Earlier(gameServers[n])
        /\ gameServers[n] \in UpStates /\ listed[n] = "none" => n \in pendingCreation \cup lost
        /\ n \in pendingDeletion => gameServers[n] \in {"Shutdown", "gone"}

\* There is room for what the worker has yet to create ...
RoomInv ==
    worker.toAdd > 0 => Cardinality(Known) + worker.toAdd <= worker.gsSet.replicas

\* ... and it did not see an Allocated GameServer in what it deletes.
KeepInv == \A n \in worker.toDelete : worker.seen[n] # "Allocated"

IInv == TypeOK /\ OverlayInv /\ RoomInv /\ KeepInv

-----------------------------------------------------------------------------
LEMMA Finite ==
    ASSUME NEW S \in SUBSET Names
    PROVE  /\ IsFiniteSet(S) /\ Cardinality(S) \in 0..MaxCreated
           /\ Cardinality(S) \in Nat
<1>1. MaxCreated \in Nat
  BY GameServerSetAssumption
<1>2. IsFiniteSet(Names) /\ Cardinality(Names) = MaxCreated
  BY <1>1, FS_Interval DEF Names
<1>3. IsFiniteSet(S) /\ Cardinality(S) <= Cardinality(Names)
  BY <1>2, FS_Subset
<1>4. Cardinality(S) \in Nat
  BY <1>3, FS_CardinalityType
<1> QED BY <1>1, <1>2, <1>3, <1>4

LEMMA Smaller ==
    ASSUME NEW S \in SUBSET Names, NEW T \in SUBSET S
    PROVE  Cardinality(T) <= Cardinality(S)
BY Finite, FS_Subset

\* Every GameServer that is up, and shown, is one that the decision counts.
LEMMA UpIsCounted ==
    ASSUME TypeOK, OverlayInv
    PROVE  Up \ NotShown \subseteq In({"Allocated"}) \cup Deletable
<1> SUFFICES ASSUME NEW n \in Names, n \in Up, n \notin NotShown
             PROVE  n \in In({"Allocated"}) \cup Deletable
  BY DEF Up
<1>1. /\ gameServers[n] \in UpStates
      /\ gameServers[n] = "Error" => ~shouldDeleteErroredGameServer(n)
  BY DEF Up, UpStates
<1>2. n \notin pendingDeletion /\ listed[n] \in Earlier(gameServers[n])
      /\ (listed[n] = "none" => n \in pendingCreation \cup lost)
  BY <1>1 DEF OverlayInv, UpStates
<1>3. n \in List
  BY <1>1, <1>2 DEF NotShown, List, Exists, Earlier, UpStates
<1>4. StateInList(n) = IF listed[n] = "none" THEN "Starting" ELSE listed[n]
  BY <1>1, <1>2 DEF StateInList, Exists, Earlier, UpStates
<1>5. StateInList(n) \in {"Starting", "Ready", "Allocated"}
        \/ (StateInList(n) = "Error" /\ ~shouldDeleteErroredGameServer(n))
  BY <1>1, <1>2, <1>4 DEF Earlier, UpStates
<1> QED BY <1>3, <1>5 DEF In, Deletable, Pending

\* What is counted once: a GameServer is in the list in one state.
LEMMA DecisionLeavesRoom ==
    ASSUME TypeOK, OverlayInv, NEW replicas \in Nat
    PROVE  /\ ToAdd(replicas) \in Nat
           /\ ToAdd(replicas) > 0 => Cardinality(Up \ NotShown) + ToAdd(replicas) <= replicas
<1> DEFINE A == In({"Allocated"})
           D == Deletable
           U == Up \ NotShown
<1>1. A \in SUBSET Names /\ D \in SUBSET Names /\ Pending \in SUBSET Names /\ U \in SUBSET Names
  BY DEF In, List, Deletable, Pending, Up, TypeOK
<1>2. /\ IsFiniteSet(A) /\ IsFiniteSet(D) /\ Cardinality(A) \in Nat /\ Cardinality(D) \in Nat
      /\ Cardinality(Pending) \in Nat /\ Cardinality(U) \in Nat
  BY <1>1, Finite
<1>3. Cardinality(A \cup D) <= Cardinality(A) + Cardinality(D)
  <2>1. Cardinality(A \cup D) = Cardinality(A) + Cardinality(D) - Cardinality(A \cap D)
    BY <1>2, FS_Union
  <2>2. Cardinality(A \cap D) \in Nat
    BY <1>1, Finite
  <2>3. Cardinality(A \cup D) \in Nat
    BY <1>1, Finite
  <2> QED BY <1>2, <2>1, <2>2, <2>3
<1>4. Cardinality(U) <= Cardinality(A \cup D) /\ Cardinality(A \cup D) \in Nat
  BY <1>1, UpIsCounted, Smaller, Finite
<1>5. Missing(replicas) = AtLeastZero(replicas - Cardinality(A) - Cardinality(D))
  BY DEF Missing
<1>6. MaxCreations \in Nat /\ MaxPending \in Nat
  BY GameServerSetAssumption
<1> HIDE DEF A, D, U
<1>7. Missing(replicas) \in Nat
      /\ (Missing(replicas) > 0 => Missing(replicas) = replicas - Cardinality(A) - Cardinality(D))
  BY <1>2, <1>5 DEF AtLeastZero
<1>8. ToAdd(replicas) \in Nat /\ ToAdd(replicas) <= Missing(replicas)
  BY <1>2, <1>6, <1>7 DEF ToAdd, AtLeastZero, Least
<1>9. ToAdd(replicas) > 0 => Cardinality(U) + ToAdd(replicas) <= replicas
  BY <1>2, <1>3, <1>4, <1>7, <1>8
<1> QED BY <1>8, <1>9 DEF U

-----------------------------------------------------------------------------
(* What of a step matters to which part of the invariant. *)

LEMMA NatBounds == 0 \in 0..MaxCreated /\ NoStatus \in Statuses
<1>1. 0 \in 0..MaxCreated
  BY GameServerSetAssumption
<1> QED BY <1>1 DEF NoStatus, Statuses

\* GameServers stay where the decision found them, or leave.
LEMMA RoomIsKept ==
    ASSUME TypeOK, RoomInv, Up' \subseteq Up, UNCHANGED lost,
           UNCHANGED worker \/ worker'.toAdd = 0
    PROVE  RoomInv'
<1> SUFFICES ASSUME UNCHANGED worker PROVE RoomInv'
  BY DEF RoomInv
<1>1. Known \in SUBSET Names /\ Known' \in SUBSET Known
  BY DEF Known, Unknown, Up
<1>2. /\ Cardinality(Known') <= Cardinality(Known)
      /\ Cardinality(Known) \in Nat /\ Cardinality(Known') \in Nat
  BY <1>1, Smaller, Finite
<1>3. worker.toAdd \in Nat /\ worker.gsSet.replicas \in Nat
  BY DEF TypeOK, GameServerSets
<1> QED BY <1>2, <1>3 DEF RoomInv

\* The API server, the list and the overlay are as they were.
LEMMA OverlayUnchanged ==
    OverlayInv /\ UNCHANGED <<gameServers, listed, pendingCreation, pendingDeletion, lost>> => OverlayInv'
BY DEF OverlayInv

LEMMA UpUnchanged == UNCHANGED <<gameServers, errorDelayPassed>> => Up' = Up
BY DEF Up, shouldDeleteErroredGameServer

LEMMA IdleWorker ==
    worker' = NoWork => /\ worker'.toAdd = 0 /\ KeepInv'
                        /\ worker' \in [busy : BOOLEAN, gsSet : GameServerSets, seen : [Names -> States],
                                        toAdd : Nat, toDelete : SUBSET Names, partial : BOOLEAN,
                                        failed : BOOLEAN]
BY NatBounds DEF NoWork, KeepInv, GameServerSets, States

WorkerType == [busy : BOOLEAN, gsSet : GameServerSets, seen : [Names -> States], toAdd : Nat,
               toDelete : SUBSET Names, partial : BOOLEAN, failed : BOOLEAN]

LEMMA UseIsCounted ==
    ASSUME TypeOK, NEW what \in {"changes", "faults"}, NEW bound, Use(what, bound)
    PROVE  used' \in [{"changes", "faults"} -> Nat]
<1>1. used \in [{"changes", "faults"} -> Nat] /\ used' = [used EXCEPT ![what] = @ + 1]
  BY DEF TypeOK, Use
<1>2. used[what] + 1 \in Nat
  BY <1>1
<1> QED BY <1>1, <1>2

-----------------------------------------------------------------------------
(* The sync. *)

LEMMA SyncKeeps == IInv /\ syncGameServerSet => IInv'
<1> SUFFICES ASSUME IInv, syncGameServerSet PROVE IInv'
  OBVIOUS
<1> DEFINE replicas == gsSetListed.replicas
<1>1. PICK D \in MayDelete(replicas) :
          worker' = [busy |-> TRUE, gsSet |-> gsSetListed, seen |-> Seen,
                     toAdd |-> ToAdd(replicas), toDelete |-> D,
                     partial |-> \/ ToAdd(replicas) # Missing(replicas)
                                 \/ ToDelete(replicas) > MaxDeletions,
                     failed |-> FALSE]
  BY Zenon DEF syncGameServerSet
<1>2. /\ queued' = FALSE
      /\ pendingCreation' = {n \in pendingCreation : ~Exists(listed[n])}
      /\ pendingDeletion' = {n \in pendingDeletion : Exists(listed[n])}
      /\ overlooked' = FALSE
      /\ UNCHANGED <<gameServers, errorDelayPassed, gsSet, listed, gsSetListed, used, lost>>
  BY DEF syncGameServerSet, api, listers
<1>3. replicas \in Nat /\ gsSetListed \in GameServerSets
  BY DEF IInv, TypeOK, GameServerSets
<1>4. /\ ToAdd(replicas) \in Nat
      /\ ToAdd(replicas) > 0 => Cardinality(Up \ NotShown) + ToAdd(replicas) <= replicas
  BY <1>3, DecisionLeavesRoom DEF IInv
<1>5. D \subseteq Broken \cup Deletable
  BY DEF MayDelete
<1>6. List \subseteq Names /\ D \subseteq List
  BY <1>5 DEF List, Broken, Deletable, Pending, In, IInv, TypeOK
<1>7. \A n \in D : StateInList(n) # "Allocated"
  BY <1>5 DEF Broken, Deletable, Pending, In
<1>8. Seen \in [Names -> States]
  <2>1. \A n \in Names : StateInList(n) \in States
    BY DEF StateInList, Exists, States, IInv, TypeOK
  <2> QED BY <2>1 DEF Seen, States
<1>9. PICK partial \in BOOLEAN :
          worker' = [busy |-> TRUE, gsSet |-> gsSetListed, seen |-> Seen,
                     toAdd |-> ToAdd(replicas), toDelete |-> D, partial |-> partial, failed |-> FALSE]
  BY <1>1, Zenon
<1>10. worker' \in WorkerType
  BY <1>3, <1>4, <1>6, <1>8, <1>9 DEF WorkerType
<1>11. TypeOK'
  BY <1>2, <1>10 DEF IInv, TypeOK, WorkerType
<1>12. OverlayInv'
  BY <1>2 DEF IInv, OverlayInv, Exists
<1>13. RoomInv'
  <2>1. \A n \in Names : Seen[n] = "none" <=> n \notin List
    BY DEF Seen, StateInList, Exists
  <2>2. Unknown' = NotShown
    BY <1>2, <1>9, <2>1 DEF Unknown, NotShown, IInv, TypeOK
  <2>3. Known' = Up \ NotShown
    BY <1>2, <2>2, UpUnchanged DEF Known
  <2> QED BY <1>4, <1>9, <2>3 DEF RoomInv
<1>14. KeepInv'
  BY <1>6, <1>7, <1>9 DEF KeepInv, Seen
<1> QED BY <1>11, <1>12, <1>13, <1>14 DEF IInv

LEMMA CreateKeeps ==
    ASSUME IInv, NEW n \in Names, CreateGameServer(n) \/ CreateAnswerLost(n)
    PROVE  IInv'
<1>1. /\ worker.toAdd > 0 /\ gameServers[n] = "none"
      /\ gameServers' = [gameServers EXCEPT ![n] = "Starting"]
      /\ UNCHANGED <<errorDelayPassed, gsSet, listed, gsSetListed, pendingDeletion, queued, overlooked>>
  BY DEF CreateGameServer, CreateAnswerLost, Create, listers, stateCache, history
<1>2. \/ pendingCreation' = pendingCreation \cup {n} /\ UNCHANGED lost
      \/ lost' = lost \cup {n} /\ UNCHANGED pendingCreation
  BY DEF CreateGameServer, CreateAnswerLost, created, stateCache, history
<1>3. used' \in [{"changes", "faults"} -> Nat]
  <2>1. UNCHANGED used \/ Use("faults", MaxFaults)
    BY DEF CreateGameServer, CreateAnswerLost
  <2> QED BY <2>1, UseIsCounted DEF IInv, TypeOK
<1>4. worker \in WorkerType
  BY DEF IInv, TypeOK, WorkerType
<1>5. /\ worker'.toAdd \in 0..(worker.toAdd - 1) /\ worker'.gsSet = worker.gsSet
      /\ worker'.toDelete \subseteq worker.toDelete /\ worker'.seen = worker.seen
      /\ worker' \in WorkerType
  <2>1. CASE CreateGameServer(n)
    BY <1>1, <1>4, <2>1 DEF CreateGameServer, WorkerType
  <2>2. CASE CreateAnswerLost(n)
    <3>1. PICK left \in 0..(worker.toAdd - 1) :
              worker' = [worker EXCEPT !.toAdd = left, !.toDelete = {}, !.failed = TRUE]
      BY <2>2 DEF CreateAnswerLost, StopsCreating
    <3>2. worker.toAdd \in Nat /\ left \in Nat
      BY <1>4 DEF WorkerType
    <3>3. {} \subseteq worker.toDelete /\ {} \in SUBSET Names
      OBVIOUS
    <3>4. worker' \in WorkerType
      BY <1>4, <3>1, <3>2, <3>3 DEF WorkerType
    <3> QED BY <1>4, <3>1, <3>2, <3>3, <3>4 DEF WorkerType
  <2> QED BY <2>1, <2>2
<1>6. n \notin pendingDeletion
  BY <1>1 DEF IInv, OverlayInv
<1>7. TypeOK'
  BY <1>1, <1>2, <1>3, <1>5, <1>6 DEF IInv, TypeOK, WorkerType, States
<1>8. OverlayInv'
  BY <1>1, <1>2, <1>6 DEF IInv, TypeOK, OverlayInv, Earlier, UpStates
<1>9. RoomInv'
  <2>1. Known \in SUBSET Names /\ Known' \subseteq Known \cup {n}
    BY <1>1, <1>2, <1>5 DEF Known, Unknown, Up, shouldDeleteErroredGameServer, IInv, TypeOK
  <2>2. /\ Cardinality(Known) \in Nat /\ Cardinality(Known \cup {n}) <= Cardinality(Known) + 1
        /\ Cardinality(Known \cup {n}) \in Nat
    BY <2>1, Finite, FS_AddElement
  <2>3. Cardinality(Known') <= Cardinality(Known \cup {n}) /\ Cardinality(Known') \in Nat
    BY <2>1, Smaller, Finite
  <2>4. worker.toAdd \in Nat /\ worker.gsSet.replicas \in Nat
    BY <1>4 DEF WorkerType, GameServerSets
  <2> QED BY <1>1, <1>5, <2>2, <2>3, <2>4 DEF IInv, RoomInv
<1>10. KeepInv'
  BY <1>5 DEF IInv, KeepInv
<1> QED BY <1>7, <1>8, <1>9, <1>10 DEF IInv

LEMMA DeleteKeeps ==
    ASSUME IInv, NEW n \in Names, DeleteGameServer(n) \/ DeleteAnswerLost(n)
    PROVE  IInv'
<1>1. /\ worker.toAdd = 0
      /\ gameServers' = [gameServers EXCEPT ![n] = "Shutdown"]
      /\ UNCHANGED <<errorDelayPassed, gsSet, listed, gsSetListed, queued, lost, overlooked>>
  BY DEF DeleteGameServer, DeleteAnswerLost, Update, listers, history
<1>2. \/ pendingCreation' = pendingCreation \ {n} /\ pendingDeletion' = pendingDeletion \cup {n}
      \/ UNCHANGED <<pendingCreation, pendingDeletion>>
  BY DEF DeleteGameServer, DeleteAnswerLost, deleted, stateCache
<1>3. used' \in [{"changes", "faults"} -> Nat]
  <2>1. UNCHANGED used \/ Use("faults", MaxFaults)
    BY DEF DeleteGameServer, DeleteAnswerLost
  <2> QED BY <2>1, UseIsCounted DEF IInv, TypeOK
<1>4. worker \in WorkerType
  BY DEF IInv, TypeOK, WorkerType
<1>5. /\ worker'.toAdd = 0 /\ worker'.toDelete \subseteq worker.toDelete
      /\ worker'.seen = worker.seen /\ worker' \in WorkerType
  <2>1. CASE DeleteGameServer(n)
    BY <1>1, <1>4, <2>1 DEF DeleteGameServer, WorkerType
  <2>2. CASE DeleteAnswerLost(n)
    <3>1. PICK left \in SUBSET (worker.toDelete \ {n}) :
              worker' = [worker EXCEPT !.toDelete = left, !.failed = TRUE]
      BY <2>2 DEF DeleteAnswerLost, StopsDeleting
    <3> QED BY <1>1, <1>4, <3>1 DEF WorkerType
  <2> QED BY <2>1, <2>2
<1>6. TypeOK'
  BY <1>1, <1>2, <1>3, <1>5 DEF IInv, TypeOK, WorkerType, States
<1>7. OverlayInv'
  BY <1>1, <1>2 DEF IInv, TypeOK, OverlayInv, Earlier, UpStates
<1>8. RoomInv'
  BY <1>5 DEF RoomInv
<1>9. KeepInv'
  BY <1>5 DEF IInv, KeepInv
<1> QED BY <1>6, <1>7, <1>8, <1>9 DEF IInv

\* A request that does not arrive: less is left to be done.
LEMMA FailuresKeep ==
    ASSUME IInv,
           CreateFails \/ \E n \in Names : DeleteFails(n)
    PROVE  IInv'
<1>1. PICK toAdd \in Nat, toDelete \in SUBSET worker.toDelete :
          /\ worker' = [worker EXCEPT !.toAdd = toAdd, !.toDelete = toDelete, !.failed = TRUE]
          /\ toAdd <= worker.toAdd
  <2>1. worker.toAdd \in Nat /\ worker \in WorkerType
    BY DEF IInv, TypeOK, WorkerType
  <2>2. CASE CreateFails
    <3>1. PICK left \in 0..(worker.toAdd - 1) :
              worker' = [worker EXCEPT !.toAdd = left, !.toDelete = {}, !.failed = TRUE]
      BY <2>2 DEF CreateFails, StopsCreating
    <3>2. left \in Nat /\ left <= worker.toAdd /\ {} \in SUBSET worker.toDelete
      BY <2>1
    <3> QED BY <3>1, <3>2
  <2>3. ASSUME NEW n \in Names, DeleteFails(n)
        PROVE  \E toDelete \in SUBSET worker.toDelete :
                  worker' = [worker EXCEPT !.toAdd = worker.toAdd, !.toDelete = toDelete, !.failed = TRUE]
    <3>1. PICK left \in SUBSET (worker.toDelete \ {n}) :
              worker' = [worker EXCEPT !.toDelete = left, !.failed = TRUE]
      BY <2>3 DEF DeleteFails, StopsDeleting
    <3>2. worker' = [worker EXCEPT !.toAdd = worker.toAdd, !.toDelete = left, !.failed = TRUE]
      BY <2>1, <3>1 DEF WorkerType
    <3> QED BY <3>2
  <2>4. worker.toAdd <= worker.toAdd
    BY <2>1
  <2> QED BY <2>1, <2>2, <2>3, <2>4
<1>2. /\ UNCHANGED <<gameServers, errorDelayPassed, gsSet, listed, gsSetListed, pendingCreation,
                     pendingDeletion, queued, lost, overlooked>>
      /\ UNCHANGED used \/ Use("faults", MaxFaults)
  BY DEF CreateFails, DeleteFails, api, listers, stateCache, history
<1>3. worker \in WorkerType
  BY DEF IInv, TypeOK, WorkerType
<1>4. /\ worker'.toAdd = toAdd /\ worker'.toDelete = toDelete /\ worker'.gsSet = worker.gsSet
      /\ worker'.seen = worker.seen /\ worker' \in WorkerType
  BY <1>1, <1>3 DEF WorkerType
<1>5. TypeOK'
  BY <1>2, <1>4, UseIsCounted DEF IInv, TypeOK, WorkerType
<1>6. OverlayInv'
  BY <1>2, OverlayUnchanged DEF IInv
<1>7. RoomInv'
  <2>1. Cardinality(Known) \in Nat /\ worker.toAdd \in Nat /\ worker.gsSet.replicas \in Nat
    BY <1>3, Finite DEF Known, Up, WorkerType, GameServerSets
  <2>2. Known' = Known
    BY <1>2, <1>4, UpUnchanged DEF Known, Unknown
  <2> QED BY <1>1, <1>2, <1>4, <2>1, <2>2 DEF IInv, RoomInv
<1>8. KeepInv'
  BY <1>1, <1>4 DEF IInv, KeepInv
<1> QED BY <1>5, <1>6, <1>7, <1>8 DEF IInv

LEMMA StatusIsCounted ==
    ASSUME NEW states \in [Names -> States]
    PROVE  computeStatus(states) \in Statuses
<1> DEFINE Those(S) == {n \in Names : states[n] \in S}
<1>1. \A S : Those(S) \in SUBSET Names
  OBVIOUS
<1> HIDE DEF Those
<1>2. \A S : Cardinality(Those(S)) \in 0..MaxCreated
  BY <1>1, Finite
<1>3. computeStatus(states)
        = [replicas |-> Cardinality(Those({"Starting", "Ready", "Allocated", "Unhealthy", "Error"})),
           ready |-> Cardinality(Those({"Ready"})), allocated |-> Cardinality(Those({"Allocated"})),
           shutdown |-> Cardinality(Those({"Shutdown"}))]
  BY DEF computeStatus, Those
<1> QED BY <1>2, <1>3 DEF Statuses

\* The sync ends, with the status of the list it saw or without.
LEMMA FinishKeeps == IInv /\ (SyncFails \/ syncGameServerSetStatus) => IInv'
<1> SUFFICES ASSUME IInv, SyncFails \/ syncGameServerSetStatus PROVE IInv'
  OBVIOUS
<1> DEFINE status == computeStatus(worker.seen)
<1>1. /\ worker' = NoWork
      /\ UNCHANGED <<gameServers, errorDelayPassed, listed, gsSetListed, pendingCreation,
                     pendingDeletion, lost, overlooked>>
      /\ UNCHANGED used \/ Use("faults", MaxFaults)
      /\ UNCHANGED gsSet \/ gsSet' = [gsSet EXCEPT !.status = status]
  BY DEF SyncFails, syncGameServerSetStatus, Finish, api, listers, stateCache, history
<1>2. queued' \in BOOLEAN
  <2>1. ASSUME NEW f \in BOOLEAN, Finish(f) PROVE queued' \in BOOLEAN
    BY <2>1 DEF Finish
  <2> QED BY <2>1 DEF SyncFails, syncGameServerSetStatus
<1>3. status \in Statuses
  BY StatusIsCounted DEF IInv, TypeOK
<1> HIDE DEF status
<1>4. gsSet' \in GameServerSets
  BY <1>1, <1>3 DEF IInv, TypeOK, GameServerSets
<1>5. TypeOK'
  BY <1>1, <1>2, <1>4, IdleWorker, UseIsCounted DEF IInv, TypeOK
<1>6. OverlayInv'
  BY <1>1, OverlayUnchanged DEF IInv
<1>7. RoomInv' /\ KeepInv'
  BY <1>1, IdleWorker, RoomIsKept, UpUnchanged DEF IInv
<1> QED BY <1>5, <1>6, <1>7 DEF IInv

LEMMA WorkKeeps == IInv /\ Work => IInv'
BY CreateKeeps, DeleteKeeps, FailuresKeep, FinishKeeps DEF Work

-----------------------------------------------------------------------------
(* Informers, the restart, and what becomes of the GameServers. *)

LEMMA InformersKeep ==
    ASSUME IInv, gameServerEventHandler \/ Relist \/ Resync \/ gameServerSetUpdated
    PROVE  IInv'
<1>1. /\ UNCHANGED <<gameServers, errorDelayPassed, gsSet, pendingCreation, pendingDeletion,
                     worker, lost>>
      /\ listed' \in {listed, gameServers} /\ gsSetListed' \in {gsSetListed, gsSet}
      /\ UNCHANGED used \/ Use("faults", MaxFaults)
  BY DEF gameServerEventHandler, Relist, Resync, gameServerSetUpdated, api, listers, stateCache, history
<1>2. queued' \in BOOLEAN
  BY DEF gameServerEventHandler, Relist, Resync, gameServerSetUpdated, IInv, TypeOK
<1>3. overlooked' \in BOOLEAN
  BY DEF gameServerEventHandler, Relist, Resync, gameServerSetUpdated, history, IInv, TypeOK
<1>4. TypeOK'
  BY <1>1, <1>2, <1>3, UseIsCounted DEF IInv, TypeOK
<1>5. OverlayInv'
  BY <1>1 DEF IInv, TypeOK, OverlayInv, Earlier, UpStates, States
<1>6. RoomInv' /\ KeepInv'
  BY <1>1, UpUnchanged, RoomIsKept DEF IInv, KeepInv
<1> QED BY <1>4, <1>5, <1>6 DEF IInv

LEMMA RestartKeeps == IInv /\ Restart => IInv'
<1> SUFFICES ASSUME IInv, Restart PROVE IInv'
  OBVIOUS
<1>1. /\ UNCHANGED <<gameServers, errorDelayPassed, gsSet>> /\ worker' = NoWork /\ queued' = TRUE
      /\ listed' = gameServers /\ gsSetListed' = gsSet /\ pendingCreation' = {}
      /\ pendingDeletion' = {} /\ Use("faults", MaxFaults)
      /\ overlooked' = FALSE /\ UNCHANGED lost
  BY DEF Restart, api
<1>2. TypeOK'
  BY <1>1, IdleWorker, UseIsCounted DEF IInv, TypeOK
<1>3. OverlayInv'
  BY <1>1 DEF IInv, TypeOK, OverlayInv, Earlier, UpStates, States
<1>4. RoomInv' /\ KeepInv'
  BY <1>1, IdleWorker, RoomIsKept, UpUnchanged DEF IInv
<1> QED BY <1>2, <1>3, <1>4 DEF IInv

\* A GameServer that changes its state does not come up by that.
LEMMA MovesKeep ==
    ASSUME IInv, NEW n \in Names, NEW from, NEW to, Moves(n, from, to),
           \/ from = {"Starting"} /\ to = "Ready"
           \/ from = {"Ready"} /\ to = "Allocated"
           \/ from = {"Starting"} /\ to = "Error"
           \/ from = {"Starting", "Ready", "Allocated"} /\ to = "Unhealthy"
           \/ from = {"Starting", "Ready", "Allocated", "Unhealthy", "Error"} /\ to = "Shutdown"
           \/ from = {"Shutdown"} /\ to = "gone",
           used' \in [{"changes", "faults"} -> Nat]
    PROVE  IInv'
<1>1. /\ gameServers[n] \in from /\ gameServers' = [gameServers EXCEPT ![n] = to]
      /\ UNCHANGED <<errorDelayPassed, gsSet, listed, gsSetListed, pendingCreation, pendingDeletion,
                     queued, worker, lost, overlooked>>
  BY DEF Moves, listers, stateCache, history
<1>2. to \in States
  BY DEF States
<1>3. TypeOK'
  BY <1>1, <1>2 DEF IInv, TypeOK
<1>4. OverlayInv'
  <2>1. \A m \in Names \ {n} : gameServers'[m] = gameServers[m]
    BY <1>1 DEF IInv, TypeOK
  <2>2. gameServers'[n] = to
    BY <1>1 DEF IInv, TypeOK
  <2>3. listed[n] \in Earlier(to)
    BY <1>1 DEF IInv, TypeOK, OverlayInv, Earlier, States
  <2>4. to \in UpStates /\ listed[n] = "none" => n \in pendingCreation \cup lost
    BY <1>1 DEF IInv, OverlayInv, UpStates
  <2>5. n \in pendingDeletion => to \in {"Shutdown", "gone"}
    BY <1>1 DEF IInv, OverlayInv
  <2> QED BY <1>1, <2>1, <2>2, <2>3, <2>4, <2>5 DEF IInv, OverlayInv
<1>5. Up' \subseteq Up
  BY <1>1 DEF Up, shouldDeleteErroredGameServer, IInv, TypeOK
<1>6. RoomInv' /\ KeepInv'
  BY <1>1, <1>5, RoomIsKept DEF IInv, KeepInv
<1> QED BY <1>3, <1>4, <1>6 DEF IInv

LEMMA WorldKeeps ==
    ASSUME IInv, NEW n \in Names, Starts(n) \/ IsRemoved(n) \/ GameServerChanges(n)
    PROVE  IInv'
<1>1. used' \in [{"changes", "faults"} -> Nat]
  BY UseIsCounted DEF Starts, IsRemoved, GameServerChanges, IInv, TypeOK
<1> QED BY <1>1, MovesKeep DEF Starts, IsRemoved, GameServerChanges

LEMMA DelayKeeps == ASSUME IInv, NEW n \in Names, ErrorDelayPasses(n) PROVE IInv'
<1>1. /\ errorDelayPassed' = errorDelayPassed \cup {n}
      /\ UNCHANGED <<gameServers, gsSet, listed, gsSetListed, pendingCreation, pendingDeletion,
                     queued, worker, used, lost, overlooked>>
  BY DEF ErrorDelayPasses, listers, stateCache, history
<1>2. TypeOK' /\ OverlayInv' /\ KeepInv'
  BY <1>1, OverlayUnchanged DEF IInv, TypeOK, KeepInv
<1>3. Up' \subseteq Up
  BY <1>1 DEF Up, shouldDeleteErroredGameServer
<1>4. RoomInv'
  BY <1>1, <1>3, RoomIsKept DEF IInv
<1> QED BY <1>2, <1>4 DEF IInv

LEMMA ScaleKeeps == ASSUME IInv, NEW r \in Replicas, Scale(r) PROVE IInv'
<1>1. /\ gsSet' = [gsSet EXCEPT !.replicas = r] /\ Use("changes", MaxChanges)
      /\ UNCHANGED <<gameServers, errorDelayPassed, listed, gsSetListed, pendingCreation,
                     pendingDeletion, queued, worker, lost, overlooked>>
  BY DEF Scale, listers, stateCache, history
<1>2. gsSet' \in GameServerSets
  BY <1>1, GameServerSetAssumption DEF IInv, TypeOK, GameServerSets
<1>3. TypeOK'
  BY <1>1, <1>2, UseIsCounted DEF IInv, TypeOK
<1>4. OverlayInv' /\ KeepInv' /\ RoomInv'
  BY <1>1, OverlayUnchanged, UpUnchanged, RoomIsKept DEF IInv, KeepInv
<1> QED BY <1>3, <1>4 DEF IInv

-----------------------------------------------------------------------------
LEMMA InitHolds == Init => IInv
<1> SUFFICES ASSUME Init PROVE IInv
  OBVIOUS
<1>1. /\ gameServers = [n \in Names |-> "none"] /\ listed = gameServers
      /\ pendingCreation = {} /\ pendingDeletion = {} /\ worker = NoWork
      /\ gsSet = [replicas |-> InitialReplicas, status |-> NoStatus] /\ gsSetListed = gsSet
      /\ errorDelayPassed = {} /\ queued = TRUE /\ used = [changes |-> 0, faults |-> 0]
      /\ lost = {} /\ overlooked = FALSE
  BY DEF Init
<1>2. /\ worker \in WorkerType /\ worker.toAdd = 0 /\ worker.toDelete = {}
  BY <1>1, NatBounds DEF NoWork, WorkerType, GameServerSets, States
<1>3. TypeOK
  <2>1. gsSet \in GameServerSets /\ gsSetListed \in GameServerSets
    BY <1>1, NatBounds, GameServerSetAssumption DEF GameServerSets
  <2>2. /\ gameServers \in [Names -> States] /\ listed \in [Names -> States]
        /\ used \in [{"changes", "faults"} -> Nat]
    BY <1>1 DEF States
  <2> QED BY <1>1, <1>2, <2>1, <2>2 DEF TypeOK, WorkerType
<1>4. OverlayInv
  BY <1>1 DEF OverlayInv, Earlier, UpStates
<1> QED BY <1>2, <1>3, <1>4 DEF IInv, RoomInv, KeepInv

LEMMA NextKeeps == IInv /\ [Next]_vars => IInv'
<1> SUFFICES ASSUME IInv, [Next]_vars PROVE IInv'
  OBVIOUS
<1>1. CASE UNCHANGED vars
  <2>1. UNCHANGED <<gameServers, errorDelayPassed, gsSet, listed, gsSetListed, pendingCreation,
                    pendingDeletion, queued, worker, used, lost, overlooked>>
    BY <1>1 DEF vars, api, listers, stateCache, history
  <2>2. TypeOK' /\ OverlayInv' /\ KeepInv'
    BY <2>1, OverlayUnchanged DEF IInv, TypeOK, KeepInv
  <2>3. RoomInv'
    BY <2>1, UpUnchanged, RoomIsKept DEF IInv
  <2> QED BY <2>2, <2>3 DEF IInv
<1> QED BY <1>1, SyncKeeps, WorkKeeps, InformersKeep, RestartKeeps, WorldKeeps, DelayKeeps, ScaleKeeps
        DEF Next

LEMMA Invariance == Spec => []IInv
BY InitHolds, NextKeeps, PTL DEF Spec

\* Every variable stays in its range, and nothing is pending creation and deletion at once.
THEOREM TypeCorrect == Spec => []TypeOK
<1>1. IInv => TypeOK
  BY DEF IInv
<1> QED BY <1>1, Invariance, PTL

\* However far the list is behind and whatever fails, a GameServer is created only while
\* there are fewer than the set asked for when the sync looked, but for those whose
\* creation the controller was never told of.
THEOREM NeverTooManyCreated == Spec => NeverTooMany
<1>1. IInv /\ [Next]_vars =>
        [\A n \in Names : CreateGameServer(n) \/ CreateAnswerLost(n) =>
            Cardinality(Up \ Unknown) < worker.gsSet.replicas]_vars
  <2> SUFFICES ASSUME IInv, NEW n \in Names, CreateGameServer(n) \/ CreateAnswerLost(n)
               PROVE  Cardinality(Known) < worker.gsSet.replicas
    BY DEF Known
  <2>1. Cardinality(Known) \in Nat
    BY Finite DEF Known, Up
  <2>2. worker.toAdd > 0 /\ worker.toAdd \in Nat /\ worker.gsSet.replicas \in Nat
    BY DEF CreateGameServer, CreateAnswerLost, Create, IInv, TypeOK, GameServerSets
  <2> QED BY <2>1, <2>2 DEF IInv, RoomInv
<1> QED BY <1>1, Invariance, PTL DEF Spec, NeverTooMany

\* However old the list that it chose from, the controller deletes no GameServer that
\* players were sent to.
THEOREM AllocatedKept == Spec => AllocatedIsKept
<1>1. IInv /\ [Next]_vars =>
        [Work => \A n \in Names : gameServers[n] = "Allocated" => gameServers'[n] = "Allocated"]_vars
  <2> SUFFICES ASSUME IInv, Work, NEW n \in Names, gameServers[n] = "Allocated"
               PROVE  gameServers'[n] = "Allocated"
    OBVIOUS
  <2>1. ASSUME NEW m \in Names, CreateGameServer(m) \/ CreateAnswerLost(m)
        PROVE  gameServers'[n] = "Allocated"
    BY <2>1 DEF CreateGameServer, CreateAnswerLost, Create, IInv, TypeOK
  <2>2. ASSUME NEW m \in Names, DeleteGameServer(m) \/ DeleteAnswerLost(m)
        PROVE  gameServers'[n] = "Allocated"
    <3>1. m # n
      BY <2>2 DEF DeleteGameServer, DeleteAnswerLost, Update, UpdateTests, IInv, KeepInv
    <3> QED BY <2>2, <3>1 DEF DeleteGameServer, DeleteAnswerLost, Update, IInv, TypeOK
  <2>3. (\E m \in Names : DeleteFails(m)) \/ CreateFails \/ SyncFails \/ syncGameServerSetStatus
            => UNCHANGED gameServers
    BY DEF DeleteFails, CreateFails, SyncFails, syncGameServerSetStatus, api
  <2> QED BY <2>1, <2>2, <2>3 DEF Work
<1> QED BY <1>1, Invariance, PTL DEF Spec, AllocatedIsKept
=============================================================================
