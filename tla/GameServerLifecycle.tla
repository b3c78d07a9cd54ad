------------------------ MODULE GameServerLifecycle ------------------------
(***************************************************************************)
(* One GameServer and its Pod, and the five controllers of                 *)
(* pkg/gameservers that share them: the GameServer controller with its     *)
(* three work queues, and the health, missing Pod, migration and succeeded *)
(* controllers.  All of them read from informer caches that lag behind the *)
(* API server, and write with optimistic concurrency control.  The feature *)
(* gates have their defaults (SidecarContainers is on).                    *)
(***************************************************************************)
EXTENDS Naturals, FiniteSets

CONSTANTS
    Nodes,          \* the nodes a Pod can be placed on
    Kinds,          \* the kinds of events that happen: see Event
    MaxEvents,      \* bound on how many of them
    MaxBusy         \* bound on the workers between two requests at any time

NoNode == "no node"

ASSUME LifecycleAssumption == NoNode \notin Nodes /\ MaxEvents \in Nat /\ MaxBusy \in Nat

MainQueues == {"creation", "deletion", "default"}
Watchers == {"health", "missing", "migration", "succeeded"}
Lister == "lister"

VARIABLES
    dev,                \* has the development address annotation
    gameServer,         \* the GameServer in the API server
    gameServerLister,   \* the informer cache of it
    pod,                \* its Pod in the API server
    podLister,          \* the informer cache of that
    queued,             \* is the key in the work queue
    worker,             \* the worker that processes the key of each queue
    outdated,           \* who holds a GameServer with an old resourceVersion
    events              \* how many of MaxEvents have happened

vars == <<dev, gameServer, gameServerLister, pod, podLister, queued, worker, outdated, events>>
objects == <<gameServer, gameServerLister, pod, podLister>>

BeforeReady == {"PortAllocation", "Creating", "Starting", "Scheduled", "RequestReady"}
Active == {"Ready", "Reserved", "Allocated"}
TerminalGameServerStates == {"Shutdown", "Error", "Unhealthy"}
BeforePodCreated == {"PortAllocation", "Creating", "Starting"}

\* ips: the addresses include the Pod's.
GameServerObjects ==
    [state : BeforeReady \cup Active \cup TerminalGameServerStates \cup {"Absent"},
     deleting : BOOLEAN, node : Nodes \cup {NoNode}, ips : BOOLEAN]
PodObjects ==
    [phase : {"Absent", "Pending", "Running", "Failed", "Succeeded"},
     node : Nodes \cup {NoNode}, deleting : BOOLEAN]

Absent == [state |-> "Absent", deleting |-> FALSE, node |-> NoNode, ips |-> FALSE]
NoPod == [phase |-> "Absent", node |-> NoNode, deleting |-> FALSE]
NewPod == [NoPod EXCEPT !.phase = "Pending"]

\* pc "Sync": between two stages of syncGameServer.  "Created" and "Rejected":
\* the Pod is there, or was refused, and the state is about to be updated.
\* "Update": a watcher is about to send its update.
Idle == [pc |-> "Idle", gs |-> Absent]

TypeOK ==
    /\ dev \in BOOLEAN
    /\ gameServer \in GameServerObjects /\ gameServerLister \in GameServerObjects
    /\ pod \in PodObjects /\ podLister \in PodObjects
    /\ queued \in [MainQueues \cup {"health"} -> BOOLEAN]
    /\ worker \in [MainQueues \cup Watchers ->
          [pc : {"Idle", "Sync", "Created", "Rejected", "Update"}, gs : GameServerObjects]]
    /\ outdated \subseteq {Lister} \cup MainQueues \cup Watchers
    /\ events \in 0..MaxEvents

IsBeingDeleted(gs) == gs.deleting \/ gs.state = "Shutdown"
HasIPs(p) == p.phase = "Running"
Busy == {q \in DOMAIN worker : worker[q].pc # "Idle"}

\* Something that nobody has to do: a "fault" of a controller or a request, or a
\* move of the "pod", the "sdk" (the game server) or a "user".
Event(kind) == kind \in Kinds /\ events < MaxEvents /\ events' = events + 1

Init ==
    /\ dev \in BOOLEAN
    /\ gameServer \in {[Absent EXCEPT !.state = s] : s \in {"PortAllocation", "Creating"}}
    /\ gameServerLister = Absent
    /\ pod = NoPod /\ podLister = NoPod
    /\ queued = [q \in MainQueues \cup {"health"} |-> FALSE]
    /\ worker = [q \in MainQueues \cup Watchers |-> Idle]
    /\ outdated = {Lister}
    /\ events = 0

-----------------------------------------------------------------------------
(* Requests to the API server.                                             *)

\* Every change of the object gives it a new resourceVersion: the copies that
\* others hold are outdated from then on.
Write(new, writer) ==
    /\ gameServer' = new
    /\ outdated' = ({Lister} \cup Busy) \ {writer}

\* A worker starts with a copy of the cached object, old or not.
Begin(q, pc, gs) ==
    /\ worker[q] = Idle /\ Cardinality(Busy) < MaxBusy
    /\ worker' = [worker EXCEPT ![q] = [pc |-> pc, gs |-> gs]]
    /\ outdated' = IF Lister \in outdated THEN outdated \cup {q} ELSE outdated

\* The worker is done with the key, or an error puts it back in the queue.
Finish(q) ==
    /\ worker' = [worker EXCEPT ![q] = Idle]
    /\ outdated' = outdated \ {q}
    /\ UNCHANGED <<queued, gameServer>>

Requeue(q) ==
    /\ worker' = [worker EXCEPT ![q] = Idle]
    /\ outdated' = outdated \ {q}
    /\ queued' = [queued EXCEPT ![q] = TRUE]
    /\ UNCHANGED gameServer

\* An Update of the worker's copy is refused when the copy is outdated.  The
\* next stage continues with the object that was returned.
Update(q, new) ==
    IF q \in outdated THEN Requeue(q)
    ELSE /\ Write(new, q)
         /\ worker' = [worker EXCEPT ![q] = [pc |-> "Sync", gs |-> new]]
         /\ UNCHANGED queued

-----------------------------------------------------------------------------
(* syncGameServer of the GameServer controller.  The Pod cache is read in   *)
(* the step of the request that depends on it.                             *)

InStage(q, states) ==
    worker[q].pc = "Sync" /\ ~worker[q].gs.deleting /\ worker[q].gs.state \in states

NewIPs(gs) == HasIPs(podLister) /\ ~gs.ips

\* No stage applies to the object (any more).
NothingToDoEvenDeleted(gs) ==
    \/ gs.state \in {"Absent", "Error", "Unhealthy"}
    \/ ~dev /\ gs.state \in {"Scheduled"} \cup Active /\ ~NewIPs(gs)
    \/ dev /\ gs.state \in {"Starting", "Scheduled"} \cup Active

NothingToDo(gs) ==
    \/ gs = Absent
    \/ /\ ~gs.deleting
       /\ \/ gs.state \in {"Error", "Unhealthy"}
          \/ ~dev /\ gs.state \in {"Scheduled"} \cup Active /\ ~NewIPs(gs)
          \/ dev /\ gs.state \in {"Starting", "Scheduled"} \cup Active

enqueueGameServerBasedOnState(gs) ==
    CASE gs.state \in {"PortAllocation", "Creating"} -> {"creation"}
      [] gs.state = "Shutdown" -> {"deletion"}
      [] OTHER -> {"default"}

OnlyStateChanges(q) == FALSE

\* The resync, every 30 seconds, queues what is being deleted once more.
Resynced(q) ==
    gameServerLister.deleting /\ q \in enqueueGameServerBasedOnState(gameServerLister)

syncGameServer(q) ==
    /\ queued[q] \/ Resynced(q)
    /\ worker[q] = Idle
    /\ queued' = [queued EXCEPT ![q] = FALSE]
    /\ IF NothingToDo(gameServerLister) THEN UNCHANGED <<worker, outdated>>
       ELSE Begin(q, "Sync", gameServerLister)
    /\ UNCHANGED <<dev, objects, events>>

\* Delete the Pod, or remove the finalizer, after which the object is gone.
syncGameServerDeletionTimestamp(q) ==
    /\ worker[q].pc = "Sync" /\ worker[q].gs.deleting
    /\ IF podLister # NoPod /\ ~dev
       THEN IF podLister.deleting THEN Finish(q) /\ UNCHANGED pod
            ELSE IF pod = NoPod THEN Requeue(q) /\ UNCHANGED pod
            ELSE pod' = [pod EXCEPT !.deleting = TRUE] /\ Finish(q)
       ELSE Update(q, Absent) /\ UNCHANGED pod
    /\ UNCHANGED <<dev, gameServerLister, podLister, events>>

\* The ports themselves are the subject of PortAllocator.
syncGameServerPortAllocationState(q) ==
    /\ InStage(q, {"PortAllocation"})
    /\ Update(q, [worker[q].gs EXCEPT !.state = "Creating"])
    /\ UNCHANGED <<dev, gameServerLister, pod, podLister, events>>

\* createGameServerPod: a Pod that already exists is reused.
syncGameServerCreatingState(q) ==
    /\ InStage(q, {"Creating"}) /\ ~dev
    /\ pod' = IF podLister = NoPod /\ pod = NoPod THEN NewPod ELSE pod
    /\ worker' = [worker EXCEPT ![q].pc = "Created"]
    /\ UNCHANGED <<dev, gameServer, gameServerLister, podLister, queued, outdated, events>>

\* The Pod is invalid or forbidden (a quota, an admission webhook).
createGameServerPodRejected(q) ==
    /\ Event("fault")
    /\ InStage(q, {"Creating"}) /\ ~dev /\ podLister = NoPod
    /\ worker' = [worker EXCEPT ![q].pc = "Rejected"]
    /\ UNCHANGED <<dev, objects, queued, outdated>>

moveToStartingState(q) ==
    /\ worker[q].pc = "Created"
    /\ Update(q, [worker[q].gs EXCEPT !.state = "Starting"])
    /\ UNCHANGED <<dev, gameServerLister, pod, podLister, events>>

moveToErrorState(q) ==
    /\ worker[q].pc = "Rejected"
    /\ Update(q, [worker[q].gs EXCEPT !.state = "Error"])
    /\ UNCHANGED <<dev, gameServerLister, pod, podLister, events>>

StartingWaitsForAnEvent(q) ==
    /\ InStage(q, {"Starting"}) /\ ~dev
    /\ IF podLister.node = NoNode THEN Finish(q)
       ELSE Update(q, [worker[q].gs EXCEPT !.state = "Scheduled", !.node = podLister.node,
                                           !.ips = HasIPs(podLister)])
    /\ UNCHANGED <<dev, gameServerLister, pod, podLister, events>>

syncGameServerStartingState(q) ==
    /\ InStage(q, {"Starting"}) /\ ~dev
    /\ IF podLister.node = NoNode THEN Requeue(q)
       ELSE Update(q, [worker[q].gs EXCEPT !.state = "Scheduled", !.node = podLister.node,
                                           !.ips = HasIPs(podLister)])
    /\ UNCHANGED <<dev, gameServerLister, pod, podLister, events>>

ReadyTrustsTheAddress(q) ==
    /\ InStage(q, {"RequestReady"}) /\ ~dev
    /\ IF podLister = NoPod THEN Requeue(q)
       ELSE Update(q, [worker[q].gs EXCEPT !.state = "Ready", !.ips = @ \/ HasIPs(podLister)])
    /\ UNCHANGED <<dev, gameServerLister, pod, podLister, events>>

\* The address is applied here too when the SDK was faster than the controller.
syncGameServerRequestReadyState(q) ==
    LET gs == worker[q].gs IN
    /\ InStage(q, {"RequestReady"}) /\ ~dev
    /\ IF podLister = NoPod \/ (gs.node = NoNode /\ podLister.node = NoNode) THEN Requeue(q)
       ELSE Update(q, [gs EXCEPT !.state = "Ready", !.ips = @ \/ HasIPs(podLister),
                                 !.node = IF @ = NoNode THEN podLister.node ELSE @])
    /\ UNCHANGED <<dev, gameServerLister, pod, podLister, events>>

syncGameServerPodIPs(q) ==
    /\ InStage(q, {"Scheduled"} \cup Active) /\ ~dev
    /\ NewIPs(worker[q].gs)
    /\ Update(q, [worker[q].gs EXCEPT !.ips = TRUE])
    /\ UNCHANGED <<dev, gameServerLister, pod, podLister, events>>

\* Its node is the address of the annotation: any node will do.
syncDevelopmentGameServer(q) ==
    /\ InStage(q, {"Creating", "RequestReady"}) /\ dev
    /\ \E n \in Nodes :
         Update(q, [worker[q].gs EXCEPT !.state = "Ready",
                        !.node = IF worker[q].gs.state = "Creating" THEN n ELSE @])
    /\ UNCHANGED <<dev, gameServerLister, pod, podLister, events>>

\* A Delete has no precondition on the version: it acts on whatever is there.
syncGameServerShutdownState(q) ==
    /\ InStage(q, {"Shutdown"})
    /\ IF gameServer = Absent THEN Requeue(q)
       ELSE /\ Write([gameServer EXCEPT !.deleting = TRUE], q)
            /\ worker' = [worker EXCEPT ![q] = Idle]
            /\ UNCHANGED queued
    /\ UNCHANGED <<dev, gameServerLister, pod, podLister, events>>

syncGameServerDone(q) ==
    /\ worker[q].pc = "Sync" /\ NothingToDo(worker[q].gs)
    /\ Finish(q)
    /\ UNCHANGED <<dev, gameServerLister, pod, podLister, events>>

\* A request fails for another reason: an error, and the key is queued again.
RequestFails(q) ==
    /\ Event("fault")
    /\ worker[q].pc # "Idle"
    /\ Requeue(q)
    /\ UNCHANGED <<dev, gameServerLister, pod, podLister>>

-----------------------------------------------------------------------------
(* The watchers.  Their handlers run on every event and every 30 seconds    *)
(* (the resync), and check what sync checks again: a watcher reads when     *)
(* its handler's condition holds.  Only the health controller's sync looks  *)
(* at less than its handler, and no resync repeats a deletion: it has a     *)
(* queue.                                                                   *)

MarkWithThePhase == [gameServerLister EXCEPT !.state = podLister.phase]
MarkUnhealthy == [gameServerLister EXCEPT !.state = "Unhealthy"]
Gs == gameServerLister

HealthNeeded ==
    /\ Gs # Absent /\ ~IsBeingDeleted(Gs) /\ Gs.state \notin {"Unhealthy", "Error"}
    /\ podLister.phase \in {"Absent", "Failed"}

HealthController ==
    /\ queued["health"] \/ (podLister.phase = "Failed" /\ ~podLister.deleting /\ HealthNeeded)
    /\ queued' = [queued EXCEPT !["health"] = FALSE]
    /\ IF HealthNeeded THEN Begin("health", "Update", MarkUnhealthy)
       ELSE worker["health"] = Idle /\ UNCHANGED <<worker, outdated>>
    /\ UNCHANGED <<dev, objects, events>>

MissingOnceReady ==
    /\ ~dev /\ Gs # Absent /\ ~IsBeingDeleted(Gs)
    /\ Gs.state \notin BeforeReady \cup {"Unhealthy", "Error"}
    /\ podLister.phase \in {"Absent", "Failed"}
    /\ Begin("missing", "Update", MarkUnhealthy)
    /\ UNCHANGED <<dev, objects, queued, events>>

MissingPodController ==
    /\ ~dev /\ Gs # Absent /\ ~IsBeingDeleted(Gs)
    /\ Gs.state \notin BeforePodCreated \cup {"Unhealthy", "Error"}
    /\ podLister.phase \in {"Absent", "Failed"}
    /\ Begin("missing", "Update", MarkUnhealthy)
    /\ UNCHANGED <<dev, objects, queued, events>>

MigrationBeforeReady ==
    /\ podLister.node # NoNode /\ ~podLister.deleting
    /\ Gs # Absent /\ Gs.node # NoNode /\ ~IsBeingDeleted(Gs) /\ Gs.state \in BeforeReady
    /\ podLister.node # Gs.node
    /\ Begin("migration", "Update",
             [Gs EXCEPT !.node = podLister.node, !.ips = HasIPs(podLister)])
    /\ UNCHANGED <<dev, objects, queued, events>>

\* Before Ready the new address is applied; later it is too late for that.
MigrationController ==
    /\ podLister.node # NoNode /\ ~podLister.deleting
    /\ Gs # Absent /\ Gs.node # NoNode /\ ~IsBeingDeleted(Gs) /\ Gs.state # "Unhealthy"
    /\ podLister.node # Gs.node
    /\ Begin("migration", "Update",
             IF Gs.state \in BeforeReady
             THEN [Gs EXCEPT !.node = podLister.node, !.ips = HasIPs(podLister)]
             ELSE MarkUnhealthy)
    /\ UNCHANGED <<dev, objects, queued, events>>

SucceededController ==
    /\ podLister.phase = "Succeeded" /\ ~podLister.deleting
    /\ Gs # Absent /\ ~IsBeingDeleted(Gs) /\ Gs.state \notin TerminalGameServerStates
    /\ Begin("succeeded", "Update", [Gs EXCEPT !.state = "Shutdown"])
    /\ UNCHANGED <<dev, objects, queued, events>>

\* A refused update is an error: the key is queued again.
WatcherUpdate(q) ==
    /\ worker[q].pc = "Update"
    /\ IF q \in outdated THEN /\ outdated' = outdated \ {q}
                              /\ queued' = [h \in DOMAIN queued |-> queued[h] \/ h = q]
                              /\ UNCHANGED gameServer
       ELSE Write(worker[q].gs, q) /\ UNCHANGED queued
    /\ worker' = [worker EXCEPT ![q] = Idle]
    /\ UNCHANGED <<dev, gameServerLister, pod, podLister, events>>

-----------------------------------------------------------------------------
(* The informers.                                                          *)

Enqueue(qs) == queued' = [q \in DOMAIN queued |-> queued[q] \/ q \in qs]

\* Several changes may arrive as one event (a relist).
DeliverGameServer ==
    /\ Lister \in outdated
    /\ gameServerLister' = gameServer
    /\ outdated' = outdated \ {Lister}
    /\ Enqueue(IF gameServer # Absent
                  /\ (gameServer.state # gameServerLister.state \/ gameServer.deleting)
               THEN enqueueGameServerBasedOnState(gameServer) ELSE {})
    /\ UNCHANGED <<dev, gameServer, pod, podLister, worker, events>>

DeliverPod ==
    /\ podLister # pod
    /\ podLister' = pod
    /\ Enqueue({q \in {"default", "health"} :
          \/ pod = NoPod
          \/ q = "default" /\ podLister # NoPod
                /\ (pod.node # podLister.node \/ HasIPs(pod) # HasIPs(podLister))
          \/ q = "health" /\ pod.phase = "Failed" /\ ~pod.deleting})
    /\ UNCHANGED <<dev, gameServer, gameServerLister, pod, worker, outdated, events>>

\* A deletion found by a relist (DeletedFinalStateUnknown) is ignored.
DeliverPodTombstone ==
    /\ Event("fault")
    /\ pod = NoPod /\ podLister # NoPod
    /\ podLister' = NoPod
    /\ UNCHANGED <<dev, gameServer, gameServerLister, pod, queued, worker, outdated>>

\* The controller loses its lease or crashes: everything but the API server
\* starts afresh, with an Add event for the GameServer.
Restart ==
    /\ Event("fault")
    /\ gameServerLister' = gameServer /\ podLister' = pod
    /\ worker' = [q \in DOMAIN worker |-> Idle]
    /\ outdated' = {}
    /\ queued' = [q \in DOMAIN queued |->
          gameServer # Absent /\ q \in enqueueGameServerBasedOnState(gameServer)]
    /\ UNCHANGED <<dev, gameServer, pod>>

-----------------------------------------------------------------------------
(* The rest of the cluster.                                                *)

SDKUpdatesWhatIsShutDown(s) ==
    /\ Event("sdk")
    /\ pod.phase = "Running"
    /\ gameServer # Absent /\ gameServer.state # "Unhealthy"
    /\ Write([gameServer EXCEPT !.state = s], "sdk")
    /\ UNCHANGED <<dev, gameServerLister, pod, podLister, queued, worker>>

\* The SDK server's updateState: a patch that tests the resourceVersion, sent
\* again until it is accepted.  The first Ready is what a game server does anyway.
SDKUpdateState(s) ==
    /\ IF s = "RequestReady" /\ gameServer.state \in {"Creating", "Starting", "Scheduled"}
       THEN UNCHANGED events ELSE Event("sdk")
    /\ pod.phase = "Running"
    /\ gameServer # Absent /\ ~IsBeingDeleted(gameServer) /\ gameServer.state # "Unhealthy"
    /\ Write([gameServer EXCEPT !.state = s], "sdk")
    /\ UNCHANGED <<dev, gameServerLister, pod, podLister, queued, worker>>

Allocate ==
    /\ Event("user")
    /\ gameServer.state = "Ready" /\ ~gameServer.deleting
    /\ Write([gameServer EXCEPT !.state = "Allocated"], "allocator")
    /\ UNCHANGED <<dev, gameServerLister, pod, podLister, queued, worker>>

\* A GameServerSet scales down, which it does by the state of what is deletable;
\* a user deletes the GameServer, or changes its metadata.
ScaleDown ==
    /\ Event("user")
    /\ gameServer # Absent /\ ~IsBeingDeleted(gameServer)
    /\ gameServer.state \notin {"Allocated", "Reserved"}
    /\ Write([gameServer EXCEPT !.state = "Shutdown"], "gameserverset")
    /\ UNCHANGED <<dev, gameServerLister, pod, podLister, queued, worker>>

UserDelete ==
    /\ Event("user")
    /\ gameServer # Absent /\ ~gameServer.deleting
    /\ Write([gameServer EXCEPT !.deleting = TRUE], "user")
    /\ UNCHANGED <<dev, gameServerLister, pod, podLister, queued, worker>>

UserEdit ==
    /\ Event("user")
    /\ gameServer # Absent
    /\ Write(gameServer, "user")
    /\ UNCHANGED <<dev, gameServerLister, pod, podLister, queued, worker>>

PodChanges(new) ==
    /\ pod' = new
    /\ UNCHANGED <<dev, gameServer, gameServerLister, podLister, queued, worker, outdated>>

\* The scheduler and the kubelet.
PodScheduled(n) ==
    /\ pod.phase = "Pending" /\ pod.node = NoNode /\ ~pod.deleting
    /\ PodChanges([pod EXCEPT !.node = n]) /\ UNCHANGED events

PodStarts ==
    /\ pod.phase = "Pending" /\ pod.node # NoNode /\ ~pod.deleting
    /\ PodChanges([pod EXCEPT !.phase = "Running"]) /\ UNCHANGED events

\* Once deleted it terminates; without its owner it is garbage.
PodTerminated == pod.deleting /\ PodChanges(NoPod) /\ UNCHANGED events

GarbageCollect ==
    /\ gameServer = Absent /\ pod # NoPod /\ ~pod.deleting
    /\ PodChanges([pod EXCEPT !.deleting = TRUE]) /\ UNCHANGED events

\* Crashes and evictions, the exit of the game server, a live migration, and the
\* deletion of the Pod with its node.
PodFails ==
    /\ Event("pod")
    /\ pod.phase \in {"Pending", "Running"}
    /\ PodChanges([pod EXCEPT !.phase = "Failed"])

PodSucceeds ==
    /\ Event("pod")
    /\ pod.phase = "Running"
    /\ PodChanges([pod EXCEPT !.phase = "Succeeded"])

PodMigrates(n) ==
    /\ Event("pod")
    /\ pod.phase = "Running" /\ n # pod.node
    /\ PodChanges([pod EXCEPT !.node = n])

PodDeleted ==
    /\ Event("pod")
    /\ pod # NoPod /\ ~pod.deleting
    /\ PodChanges([pod EXCEPT !.deleting = TRUE])

-----------------------------------------------------------------------------
Stage(q) ==
    \/ syncGameServerDeletionTimestamp(q)
    \/ syncGameServerPortAllocationState(q)
    \/ syncGameServerCreatingState(q) \/ moveToStartingState(q) \/ moveToErrorState(q)
    \/ syncGameServerStartingState(q)
    \/ syncGameServerRequestReadyState(q)
    \/ syncGameServerPodIPs(q)
    \/ syncDevelopmentGameServer(q)
    \/ syncGameServerShutdownState(q)
    \/ syncGameServerDone(q)

Disturbance ==
    \/ \E q \in MainQueues : createGameServerPodRejected(q) \/ RequestFails(q)
    \/ DeliverPodTombstone \/ Restart
    \/ \E s \in {"RequestReady", "Reserved", "Allocated", "Shutdown", "Unhealthy"} :
         SDKUpdateState(s)
    \/ Allocate \/ ScaleDown \/ UserDelete \/ UserEdit
    \/ PodFails \/ PodSucceeds \/ PodDeleted
    \/ \E n \in Nodes : PodMigrates(n)

Cluster == (\E n \in Nodes : PodScheduled(n)) \/ PodStarts \/ PodTerminated \/ GarbageCollect

Next ==
    \/ \E q \in MainQueues : syncGameServer(q) \/ Stage(q)
    \/ HealthController \/ MissingPodController \/ MigrationController \/ SucceededController
    \/ \E q \in Watchers : WatcherUpdate(q)
    \/ DeliverGameServer \/ DeliverPod
    \/ Cluster
    \/ Disturbance

\* Work queues, informers and Kubernetes get on with their work; nobody has to
\* cause an event.  A worker starts under strong fairness because it may have to
\* wait for one of the MaxBusy slots, of which the code has one per worker.
Fairness ==
    /\ \A q \in MainQueues : SF_vars(syncGameServer(q)) /\ WF_vars(Stage(q))
    /\ SF_vars(HealthController) /\ SF_vars(MissingPodController)
    /\ SF_vars(MigrationController) /\ SF_vars(SucceededController)
    /\ \A q \in Watchers : WF_vars(WatcherUpdate(q))
    /\ WF_vars(DeliverGameServer) /\ WF_vars(DeliverPod)
    /\ WF_vars(Cluster)

Spec == Init /\ [][Next]_vars
FairSpec == Spec /\ Fairness

-----------------------------------------------------------------------------
(* Properties.                                                             *)

Leaving(gs) == gs.deleting \/ gs.state \in {"Shutdown", "Unhealthy", "Absent"}

\* Clients are only sent to a GameServer with an address: Ready is never reached
\* without a node, not even when the SDK asks to be Ready before the controller
\* has seen where the Pod is, or a migration comes in between.
ReadyHasAddress == gameServer.state = "Ready" => gameServer.node # NoNode

\* The controllers, the SDK server and the allocator together move a GameServer
\* only along the abstract state machine: with all their stale copies nobody
\* skips a state, takes back an Allocated GameServer that did not ask for it, or
\* revives what has been given up.
States == INSTANCE GameServerStates WITH state <- gameServer.state, deleting <- gameServer.deleting
FollowsTheStates == States!Spec

\* Whatever is deleted or shut down is eventually gone, and so is its Pod.
DeletionCompletes ==
    IsBeingDeleted(gameServer) ~> gameServer = Absent /\ pod = NoPod

\* A GameServer past Starting whose Pod failed or is gone does not stay as it
\* is, even if every event about it was lost in a restart.  (A worker with an
\* old copy may make it a second Pod.)
LostPodIsNoticed ==
    (gameServer.state \in {"Scheduled", "RequestReady"} \cup Active
        /\ ~dev /\ pod.phase \in {"Absent", "Failed"})
      ~> (Leaving(gameServer) \/ pod.phase \notin {"Absent", "Failed"})

\* A running Pod's GameServer does not stay in the wrong place: it is told of
\* its new address, or it is given up.
MigrationIsNoticed ==
    (gameServer.node # NoNode /\ ~dev /\ pod.phase = "Running" /\ pod.node # gameServer.node)
      ~> (Leaving(gameServer) \/ gameServer.node = pod.node \/ pod.phase # "Running"
            \/ pod.deleting)

\* A GameServer does not hang on its way up: it is scheduled, or fails, unless
\* its Pod is lost.
StartupProgresses ==
    (gameServer.state \in BeforePodCreated /\ ~dev)
      ~> (gameServer.state \notin BeforePodCreated \/ gameServer.deleting
            \/ (gameServer.state = "Starting" /\ pod = NoPod))

\* "any GameServer that ... is ... missing a Pod ... is moved to Unhealthy",
\* after "unexpected controller downtime" too (missing.go).
MissingPodIsNoticed ==
    (gameServer.state = "Starting" /\ pod = NoPod)
      ~> (pod # NoPod \/ Leaving(gameServer))

\* "but no removing finalizers until it's truly gone" (controller.go).
FinalizerOutlivesPod ==
    [][gameServer # Absent /\ gameServer' = Absent => pod = NoPod]_vars
=============================================================================
