---------------------- MODULE GameServerLifecycleProofs ----------------------
(***************************************************************************)
(* GameServerLifecycle implements GameServerStates, its types are right    *)
(* and a Ready GameServer has an address: for every set of nodes, any      *)
(* number of events and of workers between two requests.                   *)
(***************************************************************************)
EXTENDS GameServerLifecycle, TLAPS

Queues == MainQueues \cup Watchers
WorkerObjects == [pc : {"Idle", "Sync", "Created", "Rejected", "Update"}, gs : GameServerObjects]

\* What a watcher is about to write instead of old.
Marked(old, new) ==
    /\ old.state \notin {"Absent", "Shutdown", "Unhealthy"} /\ ~old.deleting /\ ~new.deleting
    /\ \/ new.state \in {"Unhealthy", "Shutdown"}
       \/ new.state = old.state /\ old.state \in BeforeReady

\* Who holds a copy that is not outdated, holds the GameServer: the optimistic
\* concurrency control refuses everything else.
FreshInv ==
    /\ Lister \notin outdated => gameServerLister = gameServer
    /\ \A q \in MainQueues : worker[q].pc # "Idle" /\ q \notin outdated => worker[q].gs = gameServer
    /\ \A q \in Watchers :
          worker[q].pc # "Idle" /\ q \notin outdated => Marked(gameServer, worker[q].gs)

\* What a worker may be at.
PcInv ==
    /\ \A q \in MainQueues :
          /\ worker[q].pc # "Update"
          /\ worker[q].pc \in {"Created", "Rejected"} =>
                worker[q].gs.state = "Creating" /\ ~worker[q].gs.deleting
    /\ \A q \in Watchers : worker[q].pc \in {"Idle", "Update"}

\* A development GameServer has no SDK server that could ask for Ready.
ObjectInv ==
    /\ gameServer.state = "Absent" => gameServer = Absent
    /\ ReadyHasAddress
    /\ dev => gameServer.state # "RequestReady"

\* Nobody creates a Pod before the ports are allocated.
PodInv ==
    /\ dev => pod = NoPod /\ podLister = NoPod
    /\ gameServer.state = "PortAllocation" =>
          /\ pod = NoPod
          /\ gameServerLister.state \in {"PortAllocation", "Absent"}
          /\ \A q \in MainQueues : worker[q].gs.state \in {"PortAllocation", "Absent"}

IInv == TypeOK /\ FreshInv /\ PcInv /\ ObjectInv /\ PodInv

\* A step of the abstract specification.
Step == States!Next \/ UNCHANGED States!vars

\* A write that may follow the GameServer as it is.
GoodWrite ==
    /\ gameServer' \in GameServerObjects
    /\ gameServer'.state = "Absent" => gameServer' = Absent
    /\ gameServer'.state = "Ready" => gameServer'.node # NoNode
    /\ dev => gameServer'.state # "RequestReady"
    /\ gameServer'.state = "PortAllocation" => gameServer.state = "PortAllocation"
    /\ Step

-----------------------------------------------------------------------------
LEMMA AbsentIsAnObject ==
    /\ Absent \in GameServerObjects /\ Idle \in WorkerObjects /\ NoPod \in PodObjects
    /\ Absent.state = "Absent" /\ ~Absent.deleting /\ Idle.pc = "Idle" /\ Idle.gs = Absent
BY DEF Absent, Idle, GameServerObjects, WorkerObjects, NoPod, PodObjects

LEMMA SameObject == UNCHANGED gameServer => Step
BY DEF Step, States!vars

LEMMA QueueNames ==
    /\ Lister \notin Queues /\ \A q \in MainQueues : q \notin Watchers
    /\ MainQueues \subseteq Queues /\ Watchers \subseteq Queues
BY DEF Lister, Queues, MainQueues, Watchers

\* After a write only the writer has the object that was written.
LEMMA WriteKeepsFresh ==
    ASSUME IInv, NEW new, NEW q, Write(new, q), UNCHANGED gameServerLister,
           \/ q \notin {Lister} \cup Queues /\ UNCHANGED worker
           \/ q \in Queues /\ worker' = [worker EXCEPT ![q] = Idle]
           \/ q \in MainQueues /\ worker' = [worker EXCEPT ![q] = [pc |-> "Sync", gs |-> new]]
    PROVE  FreshInv' /\ PcInv'
<1>1. /\ gameServer' = new /\ outdated' = ({Lister} \cup Busy) \ {q}
      /\ worker \in [Queues -> WorkerObjects]
  BY DEF Write, IInv, TypeOK, Queues, WorkerObjects
<1>2. \A p \in Queues : p \notin outdated' /\ p # q => worker[p].pc = "Idle"
  BY <1>1 DEF Busy
<1>3. Lister \in outdated'
  BY <1>1, QueueNames
<1>4. CASE q \notin {Lister} \cup Queues /\ UNCHANGED worker
  BY <1>2, <1>3, <1>4, QueueNames DEF FreshInv, PcInv, IInv
<1>5. CASE q \in Queues /\ worker' = [worker EXCEPT ![q] = Idle]
  <2>1. \A p \in Queues : worker'[p] = IF p = q THEN Idle ELSE worker[p]
    BY <1>1, <1>5
  <2> QED BY <1>2, <1>3, <2>1, QueueNames, AbsentIsAnObject DEF FreshInv, PcInv, IInv
<1>6. CASE q \in MainQueues /\ worker' = [worker EXCEPT ![q] = [pc |-> "Sync", gs |-> new]]
  <2>1. \A p \in Queues : worker'[p] = IF p = q THEN [pc |-> "Sync", gs |-> new] ELSE worker[p]
    BY <1>1, <1>6
  <2> QED BY <1>1, <1>2, <1>3, <1>6, <2>1, QueueNames DEF FreshInv, PcInv, IInv
<1> QED BY <1>4, <1>5, <1>6

\* What has to be known of an action that writes.
LEMMA WriteKeeps ==
    ASSUME IInv, NEW new, NEW q, Write(new, q), GoodWrite,
           UNCHANGED <<dev, gameServerLister, pod, podLister>>,
           queued' \in [MainQueues \cup {"health"} -> BOOLEAN], events' \in 0..MaxEvents,
           \/ q \notin {Lister} \cup Queues /\ UNCHANGED worker
           \/ q \in Queues /\ worker' = [worker EXCEPT ![q] = Idle]
           \/ q \in MainQueues /\ worker' = [worker EXCEPT ![q] = [pc |-> "Sync", gs |-> new]]
    PROVE  IInv' /\ Step
<1>1. /\ gameServer' = new /\ new \in GameServerObjects
      /\ outdated' \subseteq {Lister} \cup Queues
      /\ worker \in [Queues -> WorkerObjects]
  BY DEF Write, GoodWrite, Busy, IInv, TypeOK, Queues, WorkerObjects
<1>2. /\ worker' \in [Queues -> WorkerObjects]
      /\ \A p \in Queues : worker'[p].gs \in {worker[p].gs, new, Absent}
  <2>1. CASE UNCHANGED worker
    BY <1>1, <2>1
  <2>2. ASSUME NEW w \in WorkerObjects, q \in Queues, w.gs \in {new, Absent},
               worker' = [worker EXCEPT ![q] = w]
        PROVE  /\ worker' \in [Queues -> WorkerObjects]
               /\ \A p \in Queues : worker'[p].gs \in {worker[p].gs, new, Absent}
    BY <1>1, <2>2
  <2>3. [pc |-> "Sync", gs |-> new] \in WorkerObjects
    BY <1>1 DEF WorkerObjects
  <2> QED BY <2>1, <2>2, <2>3, AbsentIsAnObject, QueueNames
<1>3. TypeOK'
  BY <1>1, <1>2 DEF IInv, TypeOK, Queues, WorkerObjects
<1>4. ObjectInv'
  BY DEF GoodWrite, ObjectInv, ReadyHasAddress
<1>5. PodInv'
  <2>1. \A p \in MainQueues : worker'[p].gs \in {worker[p].gs, new, Absent}
    BY <1>2, QueueNames
  <2> QED BY <1>1, <2>1, AbsentIsAnObject DEF IInv, PodInv, GoodWrite
<1>6. FreshInv' /\ PcInv'
  BY WriteKeepsFresh
<1> QED BY <1>3, <1>4, <1>5, <1>6 DEF IInv, GoodWrite

\* A worker that is done, and an update that was refused.
LEMMA IdleKeeps ==
    ASSUME IInv, NEW q \in Queues, worker' = [worker EXCEPT ![q] = Idle],
           outdated' = outdated \ {q}, UNCHANGED <<dev, gameServer, gameServerLister, podLister>>,
           queued' \in [MainQueues \cup {"health"} -> BOOLEAN], events' \in 0..MaxEvents,
           pod' \in PodObjects, pod = NoPod => pod' = NoPod
    PROVE  IInv' /\ Step
<1>1. worker \in [Queues -> WorkerObjects]
  BY DEF IInv, TypeOK, Queues, WorkerObjects
<1>2. /\ worker' \in [Queues -> WorkerObjects]
      /\ \A p \in Queues : worker'[p] = IF p = q THEN Idle ELSE worker[p]
  BY <1>1, AbsentIsAnObject
<1>3. TypeOK'
  BY <1>2 DEF IInv, TypeOK, Queues, WorkerObjects
<1>4. FreshInv' /\ PcInv'
  BY <1>2, AbsentIsAnObject, QueueNames DEF IInv, FreshInv, PcInv
<1>5. ObjectInv' /\ PodInv'
  BY <1>2, AbsentIsAnObject, QueueNames DEF IInv, ObjectInv, PodInv, ReadyHasAddress
<1> QED BY <1>3, <1>4, <1>5, SameObject DEF IInv

\* A worker that starts does so with what the lister has.
LEMMA BeginKeeps ==
    ASSUME IInv, NEW q \in Queues, NEW pc, NEW gs \in GameServerObjects, Begin(q, pc, gs),
           UNCHANGED <<dev, objects, events>>,
           queued' \in [MainQueues \cup {"health"} -> BOOLEAN],
           \/ q \in MainQueues /\ pc = "Sync" /\ gs = gameServerLister
           \/ /\ q \in Watchers /\ pc = "Update"
              /\ Lister \notin outdated => Marked(gameServerLister, gs)
    PROVE  IInv' /\ Step
<1>1. /\ worker \in [Queues -> WorkerObjects] /\ [pc |-> pc, gs |-> gs] \in WorkerObjects
      /\ UNCHANGED <<gameServer, gameServerLister, pod, podLister>>
  BY DEF IInv, TypeOK, Queues, WorkerObjects, objects
<1>2. /\ worker' \in [Queues -> WorkerObjects]
      /\ \A p \in Queues : worker'[p] = IF p = q THEN [pc |-> pc, gs |-> gs] ELSE worker[p]
      /\ outdated' = IF Lister \in outdated THEN outdated \cup {q} ELSE outdated
  BY <1>1 DEF Begin
<1>3. TypeOK'
  BY <1>1, <1>2 DEF IInv, TypeOK, Queues, WorkerObjects
<1>4. FreshInv' /\ PcInv'
  BY <1>1, <1>2, QueueNames DEF IInv, FreshInv, PcInv
<1>5. ObjectInv' /\ PodInv'
  BY <1>1, <1>2, QueueNames DEF IInv, ObjectInv, PodInv, ReadyHasAddress
<1> QED BY <1>1, <1>3, <1>4, <1>5, SameObject DEF IInv

\* An Update of a stage, which is refused or made to the GameServer as the worker has it.
LEMMA UpdateKeeps ==
    ASSUME IInv, NEW q \in MainQueues, NEW new, worker[q].pc # "Idle", Update(q, new),
           UNCHANGED <<dev, gameServerLister, pod, podLister, events>>,
           q \notin outdated /\ gameServer = worker[q].gs /\ gameServer' = new => GoodWrite
    PROVE  IInv' /\ Step
<1>1. CASE q \in outdated
  <2>1. queued' \in [MainQueues \cup {"health"} -> BOOLEAN]
    BY <1>1 DEF Update, Requeue, IInv, TypeOK
  <2> QED BY <1>1, <2>1, IdleKeeps, QueueNames DEF Update, Requeue, IInv, TypeOK
<1>2. CASE q \notin outdated
  <2>1. /\ Write(new, q) /\ UNCHANGED queued
        /\ worker' = [worker EXCEPT ![q] = [pc |-> "Sync", gs |-> new]]
    BY <1>2 DEF Update
  <2>2. GoodWrite
    BY <1>2, <2>1 DEF Write, IInv, FreshInv
  <2> QED BY <2>1, <2>2, WriteKeeps DEF IInv, TypeOK
<1> QED BY <1>1, <1>2

LEMMA FinishKeeps ==
    ASSUME IInv, NEW q \in MainQueues, Finish(q) \/ Requeue(q),
           UNCHANGED <<dev, gameServerLister, podLister>>, events' \in 0..MaxEvents,
           pod' \in PodObjects, pod = NoPod => pod' = NoPod
    PROVE  IInv' /\ Step
<1>1. queued' \in [MainQueues \cup {"health"} -> BOOLEAN]
  BY DEF Finish, Requeue, IInv, TypeOK
<1> QED BY <1>1, IdleKeeps, QueueNames DEF Finish, Requeue

\* The state of a GameServer that moves up one state.
LEMMA BringUpIsAStep ==
    ASSUME IInv, ~gameServer.deleting, gameServer' \in GameServerObjects,
           gameServer'.deleting = gameServer.deleting,
           <<gameServer.state, gameServer'.state>> \in
             {<<"PortAllocation", "Creating">>, <<"Creating", "Starting">>,
              <<"Starting", "Scheduled">>, <<"RequestReady", "Ready">>, <<"Creating", "Ready">>},
           gameServer'.state = "Ready" => gameServer'.node # NoNode
    PROVE  GoodWrite
<1>1. Step
  BY DEF Step, States!Next, States!BringUp
<1> QED BY <1>1 DEF GoodWrite

-----------------------------------------------------------------------------
(* The stages of syncGameServer.                                           *)

LEMMA DeletionKeeps ==
    ASSUME IInv, NEW q \in MainQueues, syncGameServerDeletionTimestamp(q)
    PROVE  IInv' /\ Step
<1>1. CASE Update(q, Absent) /\ UNCHANGED pod
  <2>1. ASSUME gameServer = worker[q].gs, gameServer' = Absent PROVE GoodWrite
    <3>1. Step
      BY <2>1, AbsentIsAnObject
         DEF syncGameServerDeletionTimestamp, Step, States!Next, States!Remove
    <3> QED BY <2>1, <3>1, AbsentIsAnObject DEF GoodWrite
  <2> QED BY <1>1, <2>1, UpdateKeeps DEF syncGameServerDeletionTimestamp
<1>2. CASE (Finish(q) \/ Requeue(q)) /\ UNCHANGED pod
  BY <1>2, FinishKeeps DEF syncGameServerDeletionTimestamp, IInv, TypeOK
<1>3. CASE Finish(q) /\ pod # NoPod /\ pod' = [pod EXCEPT !.deleting = TRUE]
  <2>1. pod' \in PodObjects
    BY <1>3 DEF IInv, TypeOK, PodObjects
  <2> QED BY <1>3, <2>1, FinishKeeps DEF syncGameServerDeletionTimestamp, IInv, TypeOK
<1> QED BY <1>1, <1>2, <1>3 DEF syncGameServerDeletionTimestamp

LEMMA PortAllocationKeeps ==
    ASSUME IInv, NEW q \in MainQueues, syncGameServerPortAllocationState(q)
    PROVE  IInv' /\ Step
<1> DEFINE new == [worker[q].gs EXCEPT !.state = "Creating"]
<1>1. ASSUME gameServer = worker[q].gs, gameServer' = new PROVE GoodWrite
  <2>1. /\ gameServer' \in GameServerObjects /\ ~gameServer.deleting
        /\ gameServer.state = "PortAllocation" /\ gameServer'.state = "Creating"
        /\ gameServer'.deleting = gameServer.deleting
    BY <1>1 DEF IInv, TypeOK, GameServerObjects, BeforeReady,
                syncGameServerPortAllocationState, InStage
  <2> QED BY <2>1, BringUpIsAStep
<1> QED BY <1>1, UpdateKeeps DEF syncGameServerPortAllocationState, InStage

\* The only action that makes a Pod: whoever has a GameServer in Creating knows that
\* it is not waiting for its ports any more.
LEMMA CreatingKeeps ==
    ASSUME IInv, NEW q \in MainQueues,
           syncGameServerCreatingState(q) \/ createGameServerPodRejected(q)
    PROVE  IInv' /\ Step
<1>1. PICK pc \in {"Created", "Rejected"} : worker' = [worker EXCEPT ![q].pc = pc]
  BY DEF syncGameServerCreatingState, createGameServerPodRejected
<1>2. /\ UNCHANGED <<dev, gameServer, gameServerLister, podLister, queued, outdated>>
      /\ pod' \in {NewPod, pod} /\ events' \in 0..MaxEvents /\ ~dev
      /\ worker[q].gs.state = "Creating" /\ ~worker[q].gs.deleting /\ worker[q].pc = "Sync"
  BY LifecycleAssumption DEF syncGameServerCreatingState, createGameServerPodRejected, InStage,
                             Event, objects, IInv, TypeOK
<1>3. worker \in [Queues -> WorkerObjects]
  BY DEF IInv, TypeOK, Queues, WorkerObjects
<1>4. /\ worker' \in [Queues -> WorkerObjects]
      /\ worker'[q].pc = pc /\ worker'[q].gs = worker[q].gs
      /\ \A p \in Queues : p # q => worker'[p] = worker[p]
  BY <1>1, <1>3, QueueNames DEF WorkerObjects
<1>5. TypeOK'
  BY <1>2, <1>4 DEF IInv, TypeOK, Queues, WorkerObjects, NewPod, NoPod, PodObjects
<1>6. FreshInv' /\ PcInv'
  BY <1>1, <1>2, <1>4, QueueNames DEF IInv, FreshInv, PcInv
<1>7. ObjectInv'
  BY <1>2 DEF IInv, ObjectInv, ReadyHasAddress
<1>8. PodInv'
  <2>1. gameServer.state # "PortAllocation"
    BY <1>2 DEF IInv, PodInv
  <2> QED BY <1>2, <2>1 DEF IInv, PodInv
<1> QED BY <1>2, <1>5, <1>6, <1>7, <1>8, SameObject DEF IInv

LEMMA CreatedKeeps ==
    ASSUME IInv, NEW q \in MainQueues, moveToStartingState(q) \/ moveToErrorState(q)
    PROVE  IInv' /\ Step
<1>1. /\ worker[q].gs.state = "Creating" /\ ~worker[q].gs.deleting /\ worker[q].pc # "Idle"
      /\ UNCHANGED <<dev, gameServerLister, pod, podLister, events>>
  BY DEF moveToStartingState, moveToErrorState, IInv, PcInv
<1>2. CASE Update(q, [worker[q].gs EXCEPT !.state = "Starting"])
  <2> DEFINE new == [worker[q].gs EXCEPT !.state = "Starting"]
  <2>1. ASSUME gameServer = worker[q].gs, gameServer' = new PROVE GoodWrite
    <3>1. /\ gameServer' \in GameServerObjects /\ gameServer'.state = "Starting"
          /\ gameServer'.deleting = gameServer.deleting
      BY <2>1 DEF IInv, TypeOK, GameServerObjects, BeforeReady
    <3> QED BY <1>1, <2>1, <3>1, BringUpIsAStep
  <2> QED BY <1>1, <1>2, <2>1, UpdateKeeps
<1>3. CASE Update(q, [worker[q].gs EXCEPT !.state = "Error"])
  <2> DEFINE new == [worker[q].gs EXCEPT !.state = "Error"]
  <2>1. ASSUME gameServer = worker[q].gs, gameServer' = new PROVE GoodWrite
    <3>1. /\ gameServer' \in GameServerObjects /\ gameServer'.state = "Error"
          /\ gameServer'.deleting = gameServer.deleting
      BY <2>1 DEF IInv, TypeOK, GameServerObjects, TerminalGameServerStates
    <3>2. Step
      BY <1>1, <2>1, <3>1 DEF Step, States!Next, States!Fail
    <3> QED BY <3>1, <3>2 DEF GoodWrite
  <2> QED BY <1>1, <1>3, <2>1, UpdateKeeps
<1> QED BY <1>2, <1>3 DEF moveToStartingState, moveToErrorState

LEMMA StartingKeeps ==
    ASSUME IInv, NEW q \in MainQueues, syncGameServerStartingState(q)
    PROVE  IInv' /\ Step
<1> DEFINE new == [worker[q].gs EXCEPT !.state = "Scheduled", !.node = podLister.node,
                                       !.ips = HasIPs(podLister)]
<1>1. ASSUME gameServer = worker[q].gs, gameServer' = new PROVE GoodWrite
  <2>1. HasIPs(podLister) \in BOOLEAN /\ podLister.node \in Nodes \cup {NoNode}
    BY DEF HasIPs, IInv, TypeOK, PodObjects
  <2>2. /\ gameServer' \in GameServerObjects /\ ~gameServer.deleting
        /\ gameServer.state = "Starting" /\ gameServer'.state = "Scheduled"
        /\ gameServer'.deleting = gameServer.deleting
    BY <1>1, <2>1 DEF IInv, TypeOK, GameServerObjects, BeforeReady,
                      syncGameServerStartingState, InStage
  <2> QED BY <2>2, BringUpIsAStep
<1>2. CASE Requeue(q)
  BY <1>2, FinishKeeps DEF syncGameServerStartingState, IInv, TypeOK
<1> QED BY <1>1, <1>2, UpdateKeeps DEF syncGameServerStartingState, InStage

LEMMA RequestReadyKeeps ==
    ASSUME IInv, NEW q \in MainQueues, syncGameServerRequestReadyState(q)
    PROVE  IInv' /\ Step
<1> DEFINE old == worker[q].gs
           new == [old EXCEPT !.state = "Ready", !.ips = @ \/ HasIPs(podLister),
                              !.node = IF @ = NoNode THEN podLister.node ELSE @]
<1>1. CASE ~(podLister = NoPod \/ (old.node = NoNode /\ podLister.node = NoNode))
  <2>1. ASSUME gameServer = old, gameServer' = new PROVE GoodWrite
    <3>1. /\ old \in GameServerObjects /\ podLister.node \in Nodes \cup {NoNode}
          /\ ~old.deleting /\ old.state = "RequestReady"
      BY DEF IInv, TypeOK, PodObjects, GameServerObjects, syncGameServerRequestReadyState, InStage
    <3>2. gameServer' \in GameServerObjects
      <4>1. (old.ips \/ HasIPs(podLister)) \in BOOLEAN
        OBVIOUS
      <4> QED BY <2>1, <3>1, <4>1 DEF GameServerObjects, Active
    <3>3. /\ gameServer'.state = "Ready" /\ gameServer'.deleting = gameServer.deleting
          /\ gameServer'.node # NoNode
      BY <1>1, <2>1, <3>1 DEF GameServerObjects
    <3> QED BY <2>1, <3>1, <3>2, <3>3, BringUpIsAStep
  <2> QED BY <1>1, <2>1, UpdateKeeps DEF syncGameServerRequestReadyState, InStage
<1>2. CASE Requeue(q)
  BY <1>2, FinishKeeps DEF syncGameServerRequestReadyState, IInv, TypeOK
<1> QED BY <1>1, <1>2 DEF syncGameServerRequestReadyState

LEMMA PodIPsKeeps ==
    ASSUME IInv, NEW q \in MainQueues, syncGameServerPodIPs(q)
    PROVE  IInv' /\ Step
<1> DEFINE new == [worker[q].gs EXCEPT !.ips = TRUE]
<1>1. ASSUME gameServer = worker[q].gs, gameServer' = new PROVE GoodWrite
  <2>1. /\ gameServer' \in GameServerObjects
        /\ gameServer'.state = gameServer.state /\ gameServer'.node = gameServer.node
        /\ gameServer'.deleting = gameServer.deleting
        /\ gameServer.state \in {"Scheduled"} \cup Active
    BY <1>1 DEF IInv, TypeOK, GameServerObjects, syncGameServerPodIPs, InStage
  <2>2. Step
    BY <2>1 DEF Step, States!vars
  <2>3. dev' => gameServer'.state # "RequestReady"
    BY <2>1 DEF Active
  <2> QED BY <2>1, <2>2, <2>3 DEF GoodWrite, IInv, ObjectInv, ReadyHasAddress, Active
<1> QED BY <1>1, UpdateKeeps DEF syncGameServerPodIPs, InStage

LEMMA DevelopmentKeeps ==
    ASSUME IInv, NEW q \in MainQueues, syncDevelopmentGameServer(q)
    PROVE  IInv' /\ Step
<1> DEFINE old == worker[q].gs
           new(n) == [old EXCEPT !.state = "Ready",
                                 !.node = IF old.state = "Creating" THEN n ELSE @]
<1>1. PICK n \in Nodes : Update(q, new(n))
  BY DEF syncDevelopmentGameServer
<1>2. ASSUME gameServer = old, gameServer' = new(n) PROVE GoodWrite
  <2>1. /\ old \in GameServerObjects /\ ~old.deleting
        /\ old.state \in {"Creating", "RequestReady"} /\ dev
    BY DEF IInv, TypeOK, GameServerObjects, syncDevelopmentGameServer, InStage
  <2>2. old.state = "Creating"
    BY <1>2, <2>1 DEF IInv, ObjectInv
  <2>3. /\ gameServer' \in GameServerObjects /\ gameServer'.state = "Ready"
        /\ gameServer'.deleting = gameServer.deleting /\ gameServer'.node = n
    BY <1>2, <2>1, <2>2 DEF GameServerObjects, Active
  <2> QED BY <1>2, <2>1, <2>2, <2>3, BringUpIsAStep, LifecycleAssumption
<1> QED BY <1>1, <1>2, UpdateKeeps DEF syncDevelopmentGameServer, InStage

\* What sets the deletion timestamp, of a GameServer that may have it already.
LEMMA DeletingIsGood ==
    ASSUME IInv, gameServer # Absent, gameServer' = [gameServer EXCEPT !.deleting = TRUE]
    PROVE  GoodWrite
<1>1. /\ gameServer' \in GameServerObjects /\ gameServer'.deleting = TRUE
      /\ gameServer'.state = gameServer.state /\ gameServer'.node = gameServer.node
      /\ gameServer.state # "Absent"
  BY DEF IInv, TypeOK, GameServerObjects, ObjectInv
<1>2. Step
  <2>1. CASE ~gameServer.deleting
    BY <1>1, <2>1 DEF Step, States!Next, States!Delete
  <2>2. CASE gameServer.deleting
    <3>1. gameServer.deleting = TRUE
      BY <2>2 DEF IInv, TypeOK, GameServerObjects
    <3> QED BY <1>1, <3>1 DEF Step, States!vars
  <2> QED BY <2>1, <2>2
<1> QED BY <1>1, <1>2 DEF GoodWrite, IInv, ObjectInv, ReadyHasAddress

LEMMA ShutdownKeeps ==
    ASSUME IInv, NEW q \in MainQueues, syncGameServerShutdownState(q)
    PROVE  IInv' /\ Step
<1>1. CASE Requeue(q)
  BY <1>1, FinishKeeps DEF syncGameServerShutdownState, IInv, TypeOK
<1>2. CASE /\ gameServer # Absent /\ Write([gameServer EXCEPT !.deleting = TRUE], q)
           /\ worker' = [worker EXCEPT ![q] = Idle] /\ UNCHANGED queued
  <2>1. GoodWrite
    BY <1>2, DeletingIsGood DEF Write
  <2> QED BY <1>2, <2>1, WriteKeeps, QueueNames DEF syncGameServerShutdownState, IInv, TypeOK
<1> QED BY <1>1, <1>2 DEF syncGameServerShutdownState

LEMMA DoneKeeps ==
    ASSUME IInv, NEW q \in MainQueues, syncGameServerDone(q) \/ RequestFails(q)
    PROVE  IInv' /\ Step
<1>1. /\ Finish(q) \/ Requeue(q)
      /\ UNCHANGED <<dev, gameServerLister, pod, podLister>> /\ events' \in 0..MaxEvents
  BY LifecycleAssumption DEF syncGameServerDone, RequestFails, Event, IInv, TypeOK
<1> QED BY <1>1, FinishKeeps DEF IInv, TypeOK

LEMMA SyncKeeps ==
    ASSUME IInv, NEW q \in MainQueues, syncGameServer(q)
    PROVE  IInv' /\ Step
<1>1. queued' \in [MainQueues \cup {"health"} -> BOOLEAN]
  BY DEF syncGameServer, IInv, TypeOK
<1>2. CASE UNCHANGED <<worker, outdated>>
  BY <1>1, <1>2, SameObject
     DEF syncGameServer, objects, IInv, TypeOK, FreshInv, PcInv, ObjectInv, PodInv, ReadyHasAddress
<1>3. CASE Begin(q, "Sync", gameServerLister)
  <2>1. UNCHANGED <<dev, objects, events>> /\ gameServerLister \in GameServerObjects
    BY DEF syncGameServer, IInv, TypeOK
  <2> QED BY <1>1, <1>3, <2>1, BeginKeeps, QueueNames
<1> QED BY <1>2, <1>3 DEF syncGameServer

LEMMA StageKeeps ==
    ASSUME IInv, NEW q \in MainQueues, Stage(q)
    PROVE  IInv' /\ Step
BY DeletionKeeps, PortAllocationKeeps, CreatingKeeps, CreatedKeeps, StartingKeeps,
   RequestReadyKeeps, PodIPsKeeps, DevelopmentKeeps, ShutdownKeeps, DoneKeeps DEF Stage

-----------------------------------------------------------------------------
(* The watchers.                                                           *)

\* What a watcher decided on is still something that may follow what the lister has.
LEMMA WatcherBeginKeeps ==
    ASSUME IInv, NEW q \in Watchers, NEW gs, Begin(q, "Update", gs),
           UNCHANGED <<dev, objects, events>>,
           queued' \in [MainQueues \cup {"health"} -> BOOLEAN],
           Gs # Absent, ~IsBeingDeleted(Gs), Gs.state # "Unhealthy",
           \/ gs = MarkUnhealthy
           \/ gs = [Gs EXCEPT !.state = "Shutdown"]
           \/ Gs.state \in BeforeReady /\ gs = [Gs EXCEPT !.node = podLister.node,
                                                          !.ips = HasIPs(podLister)]
    PROVE  IInv' /\ Step
<1>1. gs \in GameServerObjects /\ ~gs.deleting
  <2>1. Gs \in GameServerObjects /\ ~Gs.deleting /\ podLister.node \in Nodes \cup {NoNode}
    BY DEF Gs, IInv, TypeOK, PodObjects, IsBeingDeleted
  <2>2. HasIPs(podLister) \in BOOLEAN
    BY DEF HasIPs
  <2>3. CASE gs = MarkUnhealthy
    BY <2>1, <2>3 DEF MarkUnhealthy, Gs, GameServerObjects, TerminalGameServerStates
  <2>4. CASE gs = [Gs EXCEPT !.state = "Shutdown"]
    BY <2>1, <2>4 DEF GameServerObjects, TerminalGameServerStates
  <2>5. CASE gs = [Gs EXCEPT !.node = podLister.node, !.ips = HasIPs(podLister)]
    BY <2>1, <2>2, <2>5 DEF GameServerObjects
  <2> QED BY <2>3, <2>4, <2>5
<1>2. \/ gs.state \in {"Unhealthy", "Shutdown"}
      \/ gs.state = Gs.state /\ Gs.state \in BeforeReady
  <2>1. Gs \in GameServerObjects
    BY DEF Gs, IInv, TypeOK
  <2> QED BY <2>1 DEF MarkUnhealthy, Gs, GameServerObjects
<1>3. ASSUME Lister \notin outdated PROVE Marked(gameServerLister, gs)
  <2>1. Gs = gameServer /\ Gs.state # "Absent"
    BY <1>3 DEF Gs, IInv, FreshInv, ObjectInv
  <2> QED BY <1>1, <1>2, <2>1 DEF Marked, Gs, IsBeingDeleted
<1> QED BY <1>1, <1>3, BeginKeeps, QueueNames

LEMMA WatchersKeep ==
    ASSUME IInv, HealthController \/ MissingPodController \/ MigrationController
                   \/ SucceededController
    PROVE  IInv' /\ Step
<1>1. CASE HealthController
  <2>1. queued' \in [MainQueues \cup {"health"} -> BOOLEAN]
    BY <1>1 DEF HealthController, IInv, TypeOK
  <2>2. CASE UNCHANGED <<worker, outdated>>
    BY <1>1, <2>1, <2>2, SameObject
       DEF HealthController, objects, IInv, TypeOK, FreshInv, PcInv, ObjectInv, PodInv,
           ReadyHasAddress
  <2>3. CASE HealthNeeded /\ Begin("health", "Update", MarkUnhealthy)
    <3>1. "health" \in Watchers
      BY DEF Watchers
    <3> QED BY <1>1, <2>1, <2>3, <3>1, WatcherBeginKeeps DEF HealthController, HealthNeeded
  <2> QED BY <1>1, <2>2, <2>3 DEF HealthController
<1>2. CASE MissingPodController \/ MigrationController \/ SucceededController
  <2>1. /\ Gs # Absent /\ ~IsBeingDeleted(Gs) /\ Gs.state # "Unhealthy"
        /\ UNCHANGED <<dev, objects, queued, events>>
    BY <1>2 DEF MissingPodController, MigrationController, SucceededController,
                TerminalGameServerStates
  <2>2. PICK q \in Watchers :
          \E gs : /\ Begin(q, "Update", gs)
                 /\ \/ gs = MarkUnhealthy
                    \/ gs = [Gs EXCEPT !.state = "Shutdown"]
                    \/ Gs.state \in BeforeReady /\ gs = [Gs EXCEPT !.node = podLister.node,
                                                                   !.ips = HasIPs(podLister)]
    <3>1. CASE MissingPodController
      BY <3>1 DEF MissingPodController, Watchers
    <3>2. CASE MigrationController
      BY <3>2 DEF MigrationController, Watchers
    <3>3. CASE SucceededController
      BY <3>3 DEF SucceededController, Watchers
    <3> QED BY <1>2, <3>1, <3>2, <3>3
  <2>3. PICK gs : /\ Begin(q, "Update", gs)
                  /\ \/ gs = MarkUnhealthy
                     \/ gs = [Gs EXCEPT !.state = "Shutdown"]
                     \/ Gs.state \in BeforeReady /\ gs = [Gs EXCEPT !.node = podLister.node,
                                                                    !.ips = HasIPs(podLister)]
    BY <2>2
  <2> QED BY <2>1, <2>3, WatcherBeginKeeps DEF IInv, TypeOK
<1> QED BY <1>1, <1>2

LEMMA WatcherUpdateKeeps ==
    ASSUME IInv, NEW q \in Watchers, WatcherUpdate(q)
    PROVE  IInv' /\ Step
<1>1. CASE q \in outdated
  <2>1. queued' \in [MainQueues \cup {"health"} -> BOOLEAN]
    BY <1>1 DEF WatcherUpdate, IInv, TypeOK
  <2> QED BY <1>1, <2>1, IdleKeeps, QueueNames DEF WatcherUpdate, IInv, TypeOK
<1>2. CASE q \notin outdated
  <2>1. /\ Write(worker[q].gs, q) /\ UNCHANGED queued
        /\ Marked(gameServer, worker[q].gs) /\ worker[q].gs \in GameServerObjects
    BY <1>2 DEF WatcherUpdate, IInv, FreshInv, TypeOK
  <2>2. GoodWrite
    <3> DEFINE new == worker[q].gs
    <3>1. /\ gameServer' = new /\ gameServer.deleting = FALSE /\ new.deleting = FALSE
          /\ gameServer.state \notin {"Absent", "Shutdown", "Unhealthy"}
      BY <2>1 DEF Write, Marked, IInv, TypeOK, GameServerObjects
    <3>2. CASE new.state \in {"Unhealthy", "Shutdown"}
      <4>1. Step
        BY <3>1, <3>2 DEF Step, States!Next, States!GiveUp, States!ShutDown, States!IsBeingDeleted
      <4> QED BY <2>1, <3>1, <3>2, <4>1 DEF GoodWrite
    <3>3. CASE new.state = gameServer.state /\ gameServer.state \in BeforeReady
      <4>1. Step
        BY <3>1, <3>3 DEF Step, States!vars
      <4> QED BY <2>1, <3>1, <3>3, <4>1 DEF GoodWrite, IInv, ObjectInv, BeforeReady
    <3> QED BY <2>1, <3>2, <3>3 DEF Marked
  <2> QED BY <2>1, <2>2, WriteKeeps, QueueNames DEF WatcherUpdate, IInv, TypeOK
<1> QED BY <1>1, <1>2

-----------------------------------------------------------------------------
(* The informers and a restart.                                            *)

LEMMA InformersKeep ==
    ASSUME IInv, DeliverGameServer \/ DeliverPod \/ DeliverPodTombstone
    PROVE  IInv' /\ Step
<1>1. /\ queued' \in [MainQueues \cup {"health"} -> BOOLEAN]
      /\ UNCHANGED <<dev, gameServer, pod, worker>> /\ events' \in 0..MaxEvents
  <2>1. ASSUME NEW qs, Enqueue(qs) PROVE queued' \in [MainQueues \cup {"health"} -> BOOLEAN]
    BY <2>1, Zenon DEF Enqueue, IInv, TypeOK
  <2>2. \/ \E qs : Enqueue(qs)
        \/ UNCHANGED queued
    BY Zenon DEF DeliverGameServer, DeliverPod, DeliverPodTombstone
  <2>3. UNCHANGED <<dev, gameServer, pod, worker>> /\ events' \in 0..MaxEvents
    BY LifecycleAssumption
       DEF DeliverGameServer, DeliverPod, DeliverPodTombstone, Event, IInv, TypeOK
  <2> QED BY <2>1, <2>2, <2>3 DEF IInv, TypeOK
<1>2. CASE DeliverGameServer
  BY <1>1, <1>2, SameObject, QueueNames
     DEF DeliverGameServer, IInv, TypeOK, FreshInv, PcInv, ObjectInv, PodInv, ReadyHasAddress
<1>3. CASE DeliverPod \/ DeliverPodTombstone
  <2>1. UNCHANGED <<gameServerLister, outdated>> /\ podLister' = pod
    BY <1>3 DEF DeliverPod, DeliverPodTombstone
  <2> QED BY <1>1, <2>1, SameObject
          DEF IInv, TypeOK, FreshInv, PcInv, ObjectInv, PodInv, ReadyHasAddress
<1> QED BY <1>2, <1>3

LEMMA RestartKeeps ==
    ASSUME IInv, Restart
    PROVE  IInv' /\ Step
<1>1. worker' = [q \in Queues |-> Idle] /\ DOMAIN queued = MainQueues \cup {"health"}
  BY DEF Restart, IInv, TypeOK, Queues
<1>2. /\ queued' \in [MainQueues \cup {"health"} -> BOOLEAN] /\ events' \in 0..MaxEvents
      /\ outdated' = {} /\ gameServerLister' = gameServer /\ podLister' = pod
      /\ UNCHANGED <<dev, gameServer, pod>>
  BY <1>1, LifecycleAssumption DEF Restart, Event, IInv, TypeOK
<1>3. worker' \in [Queues -> WorkerObjects] /\ \A q \in Queues : worker'[q] = Idle
  BY <1>1, AbsentIsAnObject
<1>4. TypeOK'
  BY <1>2, <1>3 DEF IInv, TypeOK, Queues, WorkerObjects
<1>5. FreshInv' /\ PcInv'
  BY <1>2, <1>3, AbsentIsAnObject, QueueNames DEF FreshInv, PcInv
<1>6. ObjectInv' /\ PodInv'
  BY <1>2, <1>3, AbsentIsAnObject, QueueNames DEF IInv, ObjectInv, PodInv, ReadyHasAddress
<1> QED BY <1>2, <1>4, <1>5, <1>6, SameObject DEF IInv

-----------------------------------------------------------------------------
(* The rest of the cluster.                                                *)

\* Somebody outside of the controllers writes.
LEMMA OthersKeep ==
    ASSUME IInv, NEW who \in {"sdk", "allocator", "gameserverset", "user"}, NEW new,
           Write(new, who), GoodWrite, events' \in 0..MaxEvents,
           UNCHANGED <<dev, gameServerLister, pod, podLister, queued, worker>>
    PROVE  IInv' /\ Step
<1>1. who \notin {Lister} \cup Queues
  BY DEF Lister, Queues, MainQueues, Watchers
<1> QED BY <1>1, WriteKeeps DEF IInv, TypeOK

\* They change the state and nothing else.
LEMMA StateWriteKeeps ==
    ASSUME IInv, NEW who \in {"sdk", "allocator", "gameserverset", "user"},
           NEW s \in {"RequestReady", "Reserved", "Allocated", "Shutdown", "Unhealthy"},
           Write([gameServer EXCEPT !.state = s], who), events' \in 0..MaxEvents,
           UNCHANGED <<dev, gameServerLister, pod, podLister, queued, worker>>,
           s = "RequestReady" => ~dev, gameServer # Absent, ~gameServer.deleting,
           \/ s = "Allocated" /\ gameServer.state = "Ready"
           \/ s = "Shutdown"
           \/ gameServer.state \notin {"PortAllocation", "Shutdown", "Unhealthy"}
    PROVE  IInv' /\ Step
<1>1. /\ gameServer' \in GameServerObjects /\ gameServer'.state = s
      /\ gameServer'.deleting = gameServer.deleting /\ gameServer.state # "Absent"
  BY DEF Write, IInv, TypeOK, GameServerObjects, BeforeReady, Active, TerminalGameServerStates,
         ObjectInv
<1>2. Step
  <2>1. CASE s = "Allocated" /\ gameServer.state = "Ready"
    BY <1>1, <2>1 DEF Step, States!Next, States!Allocate
  <2>2. CASE s = "Shutdown"
    BY <1>1, <2>2 DEF Step, States!Next, States!ShutDown
  <2>3. CASE gameServer.state \notin {"PortAllocation", "Shutdown", "Unhealthy"}
    BY <1>1, <2>3 DEF Step, States!Next, States!GameServerAsks, States!GiveUp, States!ShutDown,
                      States!IsBeingDeleted
  <2> QED BY <2>1, <2>2, <2>3
<1>3. GoodWrite
  BY <1>1, <1>2 DEF GoodWrite
<1> QED BY <1>3, OthersKeep

LEMMA SDKKeeps ==
    ASSUME IInv, NEW s \in {"RequestReady", "Reserved", "Allocated", "Shutdown", "Unhealthy"},
           SDKUpdateState(s)
    PROVE  IInv' /\ Step
<1>1. events' \in 0..MaxEvents
  BY LifecycleAssumption DEF SDKUpdateState, Event, IInv, TypeOK
<1>2. /\ UNCHANGED <<dev, gameServerLister, pod, podLister, queued, worker>>
      /\ Write([gameServer EXCEPT !.state = s], "sdk")
      /\ gameServer # Absent /\ ~gameServer.deleting
      /\ gameServer.state \notin {"Shutdown", "Unhealthy"}
  BY DEF SDKUpdateState, IsBeingDeleted
<1>3. ~dev /\ gameServer.state # "PortAllocation"
  BY DEF SDKUpdateState, IInv, PodInv, NoPod
<1> QED BY <1>1, <1>2, <1>3, StateWriteKeeps

LEMMA UsersKeep ==
    ASSUME IInv, Allocate \/ ScaleDown \/ UserDelete \/ UserEdit
    PROVE  IInv' /\ Step
<1>1. /\ UNCHANGED <<dev, gameServerLister, pod, podLister, queued, worker>>
      /\ events' \in 0..MaxEvents
  BY LifecycleAssumption DEF Allocate, ScaleDown, UserDelete, UserEdit, Event, IInv, TypeOK
<1>2. CASE Allocate
  <2>1. gameServer # Absent
    BY <1>2, AbsentIsAnObject DEF Allocate
  <2> QED BY <1>1, <1>2, <2>1, StateWriteKeeps DEF Allocate
<1>3. CASE ScaleDown
  BY <1>1, <1>3, StateWriteKeeps DEF ScaleDown, IsBeingDeleted
<1>4. CASE UserDelete
  <2>1. GoodWrite
    BY <1>4, DeletingIsGood DEF UserDelete, Write
  <2> QED BY <1>1, <1>4, <2>1, OthersKeep DEF UserDelete
<1>5. CASE UserEdit
  <2>1. GoodWrite
    BY <1>5, SameObject DEF UserEdit, Write, GoodWrite, IInv, TypeOK, ObjectInv, ReadyHasAddress
  <2> QED BY <1>1, <1>5, <2>1, OthersKeep DEF UserEdit
<1> QED BY <1>2, <1>3, <1>4, <1>5

LEMMA PodKeeps ==
    ASSUME IInv, Cluster \/ PodFails \/ PodSucceeds \/ PodDeleted \/ \E n \in Nodes : PodMigrates(n)
    PROVE  IInv' /\ Step
<1>1. /\ UNCHANGED <<dev, gameServer, gameServerLister, podLister, queued, worker, outdated>>
      /\ events' \in 0..MaxEvents
  BY LifecycleAssumption
     DEF Cluster, PodScheduled, PodStarts, PodTerminated, GarbageCollect, PodFails, PodSucceeds,
         PodDeleted, PodMigrates, PodChanges, Event, IInv, TypeOK
<1>2. pod' \in PodObjects
  <2>1. pod \in PodObjects
    BY DEF IInv, TypeOK
  <2>2. CASE Cluster
    BY <2>1, <2>2, AbsentIsAnObject
       DEF Cluster, PodScheduled, PodStarts, PodTerminated, GarbageCollect, PodChanges, PodObjects
  <2>3. CASE PodFails \/ PodSucceeds \/ PodDeleted \/ \E n \in Nodes : PodMigrates(n)
    BY <2>1, <2>3 DEF PodFails, PodSucceeds, PodDeleted, PodMigrates, PodChanges, PodObjects
  <2> QED BY <2>2, <2>3
<1>3. pod = NoPod => pod' = NoPod
  BY DEF Cluster, PodScheduled, PodStarts, PodTerminated, GarbageCollect, PodFails, PodSucceeds,
         PodDeleted, PodMigrates, PodChanges, NoPod
<1> QED BY <1>1, <1>2, <1>3, SameObject
        DEF IInv, TypeOK, FreshInv, PcInv, ObjectInv, PodInv, ReadyHasAddress

-----------------------------------------------------------------------------
LEMMA InitHolds == Init => IInv /\ States!Init
<1> SUFFICES ASSUME Init PROVE IInv /\ States!Init
  OBVIOUS
<1>1. PICK s \in {"PortAllocation", "Creating"} : gameServer = [Absent EXCEPT !.state = s]
  BY DEF Init
<1>2. /\ gameServer \in GameServerObjects /\ gameServer.state = s
      /\ gameServer.deleting = FALSE
  BY <1>1 DEF Absent, GameServerObjects, BeforeReady
<1>3. worker \in [Queues -> WorkerObjects] /\ \A q \in Queues : worker[q] = Idle
  BY AbsentIsAnObject DEF Init, Queues
<1>4. TypeOK
  BY <1>2, <1>3, AbsentIsAnObject, LifecycleAssumption DEF Init, TypeOK, Queues, WorkerObjects
<1>5. FreshInv /\ PcInv
  BY <1>3, AbsentIsAnObject, QueueNames DEF Init, FreshInv, PcInv
<1>6. ObjectInv /\ PodInv
  BY <1>2, <1>3, AbsentIsAnObject, QueueNames DEF Init, ObjectInv, PodInv, ReadyHasAddress
<1> QED BY <1>2, <1>4, <1>5, <1>6 DEF IInv, States!Init

LEMMA NextKeeps == IInv /\ [Next]_vars => IInv' /\ Step
<1> SUFFICES ASSUME IInv, [Next]_vars PROVE IInv' /\ Step
  OBVIOUS
<1>1. CASE UNCHANGED vars
  BY <1>1, SameObject
     DEF vars, IInv, TypeOK, FreshInv, PcInv, ObjectInv, PodInv, ReadyHasAddress
<1>2. CASE Disturbance
  BY <1>2, CreatingKeeps, DoneKeeps, InformersKeep, RestartKeeps, SDKKeeps, UsersKeep, PodKeeps
     DEF Disturbance
<1> QED BY <1>1, <1>2, SyncKeeps, StageKeeps, WatchersKeep, WatcherUpdateKeeps, InformersKeep,
           PodKeeps DEF Next

LEMMA Invariance == Spec => []IInv
<1>1. IInv /\ [Next]_vars => IInv'
  BY NextKeeps
<1>2. Init => IInv
  BY InitHolds
<1> QED BY <1>1, <1>2, PTL DEF Spec

\* Every variable stays in its range.
THEOREM TypeCorrect == Spec => []TypeOK
<1>1. IInv => TypeOK
  BY DEF IInv
<1> QED BY <1>1, Invariance, PTL

\* A Ready GameServer has an address, whichever of the three ways up it took and however
\* old the copies were that it was written from.
THEOREM ReadyGameServersHaveAnAddress == Spec => []ReadyHasAddress
<1>1. IInv => ReadyHasAddress
  BY DEF IInv, ObjectInv
<1> QED BY <1>1, Invariance, PTL

\* The controllers, the SDK server and the allocator, with all their stale copies,
\* implement the state machine of a GameServer.
THEOREM ImplementsTheStates == Spec => FollowsTheStates
<1>1. Init => States!Init
  BY InitHolds
<1>2. IInv /\ [Next]_vars => [States!Next]_States!vars
  BY NextKeeps DEF Step
<1> QED BY <1>1, <1>2, Invariance, PTL DEF Spec, FollowsTheStates, States!Spec
=============================================================================
