# Agones, specified in TLA+

Agones runs dedicated game servers on Kubernetes. Its state lives in objects of
the API server; controllers, one sidecar per game server and an allocation
service read these objects through caches that lag behind, and write them with
optimistic locking. What is hard to get right is what happens in between: two
workers with copies of different age, an event that comes late or never, a
request whose answer is lost, a restart between two steps, a batch computed from
a version that is no longer there. The modules here are about that.

## The system

| Component | State it keeps | Operations | Modelled by |
|---|---|---|---|
| Port allocator (`pkg/portallocator`) | slots with taken ports, registry of UIDs, in memory | `Allocate`, `DeAllocate`, `syncDeleteGameServer`, `syncAll` at start | `PortAllocator` |
| GameServer controller (`pkg/gameservers/controller.go`) | none but its three work queues | `syncGameServer`, in stages | `GameServerLifecycle` |
| Health, missing pod, migration and succeeded controllers (`pkg/gameservers`) | their queues | mark a GameServer Unhealthy or Shutdown, or update its address | `GameServerLifecycle` |
| SDK server (`pkg/sdkserver`) | the state the game server asked for, the reserve timer, labels, the health check, batches for Counters and Lists, players, a copy of the GameServer, connected streams | the SDK calls, a worker that patches the GameServer, and a handler that sends it to watchers | `SDKSession`, `SDKBatches`, `SDKWatch` |
| Node.js SDK (`sdks/nodejs`) | a health stream, the streams of watchers | one request per call; `watchGameServer`, `close` | `SDKSession`, `SDKBatches`, `SDKWatch`, `SDKMessages` |
| GameServerSet controller (`pkg/gameserversets`) | overlay of pending creations and deletions | `syncGameServerSet` | `GameServerSet` |
| Fleet controller (`pkg/fleets`) | none | `syncFleet`: rolling updates and recreations over GameServerSets | `Fleet` |
| Allocator (`pkg/gameserverallocations/allocator.go`, `find.go`) | a channel of requests, the list of a batch | `Allocate`, `ListenAndAllocate`, update workers | `Allocation` |
| Allocation cache (`allocation_cache.go`, `cache.go`) | GameServers that may be allocated | informer events, `RemoveGameServer`, `AddGameServer`, `Resync` | `Allocation` |
| Allocation processor (`pkg/gameserverallocations/processor`) | batches, streams | forward requests, match answers | planned |
| Fleet autoscaler, per node counter, multi-cluster allocation, webhooks, cloud products, metrics, binaries, generated code | | | not modelled, see below |

How they interact: a Fleet has GameServerSets, a GameServerSet has GameServers,
and each controller writes the objects of the next level and reads the statuses
that come back. The GameServer controller takes ports from the port allocator in
memory and writes them into the object; the informer tells the port allocator of
deletions. The game server process talks to the SDK server next to it, which
patches the GameServer, as do the allocator and the controllers. The allocator
reads a cache that is fed by the same informer. Everything else goes through the
API server.

What makes each part correct:

- Port allocator: no port is promised more often than there is room for; nothing
  is lost for good; a restart recovers the truth.
- GameServer controllers: the documented states in the documented order, whoever
  writes; an address before Ready; every deletion completes; nothing is stuck
  when a Pod is lost, moved or refused.
- SDK server: what the game server asked for arrives, and nothing it does brings
  back what was given up; only silence makes it Unhealthy; a batch never undoes
  what somebody else wrote; what it says of the GameServer never gets older, and
  who watches learns of changes.
- GameServerSet: never more GameServers created than asked for, in the end exactly
  as many, none of them taken from its players.
- Fleet: a rollout stays within its surge, only ever takes from the old sets, leaves
  somebody Ready, and ends.
- Allocator: one GameServer for one client, in a state it asked for; no
  GameServer allocated for nobody; every client gets an answer; what is Ready can
  be found.

## The modules

`PortAllocator` has one action per operation of the allocator, with the two lock
sections of `DeAllocate` apart (`DeAllocateFind`, `DeAllocateRelease`), the
Update by which the controller stores the ports (`UpdateAccepted`,
`UpdateRefused`; `UpdateLost`, which never arrived, and `UpdateAnswerLost`, which was
applied: the worker takes both for failed and releases the ports), the informer and
a `Restart` that runs `syncAll` over the nodes that are not `cordoned`. The history
variable `unbooked` counts the entries that the code gives up knowingly: those of an
Update with a lost answer, and those `syncAll` has no slot for.
`portAllocations` is the code's list of maps as a sequence of sets. The model
keeps no copy of the object a worker read: a worker only starts with one that has
no ports, and its Update succeeds exactly when the object still is that. The
scheduler places a GameServer where its ports are free (`Schedule`), which is
what Kubernetes does with host ports.

`GameServerLifecycle` is one GameServer and its Pod. A stage of `syncGameServer`
is an action, from the read of the Pod cache to the request it makes; between two
stages everybody else may move. `worker[q]` is the worker of a queue with its copy
of the GameServer, `outdated` the holders of a copy whose resourceVersion is no
longer the current one (all that optimistic locking needs to know of versions).
The four watchers have two actions: read, then update. They have no queue in the
model, because the 30 second resync of the informers repeats their handlers; the
health controller has one, because no resync repeats a deletion. `dev` chooses a
development GameServer, which has no Pod. The feature gates have their defaults
(a Pod is unhealthy when it failed or was evicted; sidecar containers are on).
Addresses are the node of the Pod and whether its IPs are known.

`GameServerStates` is what the rest of Agones may rely on: the state machine.
`GameServerLifecycle` implements it (`FollowsTheStates`), with `state` and
`deleting` read off the object in the API server. The SDK server is one actor
there, `SDKUpdateState`; `SDKSession`, `SDKBatches` and `SDKWatch` are its inside.

`SDKMessages` has the messages of the Node.js SDK, as their blank values, and what
the wire does to them: a field with its default is left out, and comes back as the
default. A field that holds a message is a set with at most one element.

`SDKSession` is the life of a game server: the calls of the `AgonesSDK` class
(`ready`, `reserve`, `setLabel`, ...), the handlers of the SDK server, `gsState`,
the reserve timer, the health check in its three steps (`CountFailure`, `healthy`,
`TurnUnhealthy`; each takes a lock of its own, and pings and calls come in between),
and the worker with `updateState`, `updateLabels` and `updateAnnotations`. With
`HealthDisabled` there are no checks. A handler that takes the lock twice is
two actions. A patch reads the lister, tests the `resourceVersion` and may be
refused, lost, or applied with its answer lost; an operation that fails comes
back (`TryAgain`). Others allocate, fail or delete the GameServer, and the
sidecar may restart, after which `Run` arms the timer of a GameServer it finds
Reserved. Time is whether the timer runs and how many checks were silent.

`SDKBatches` is the other half of the SDK server: Counters, Lists and players. A
call fetches the GameServer (`Fetch`), then works under the lock on the batch; the
worker applies a batch to a copy and patches it, and keeps the result as `gsCopy`
until the lister has it (`LatestGameServer` is `gameServer()` of the code). The
allocator changes the same Counter and List with the functions it has for that
(`UpdateCount`, `AppendListValues`, ...). A crash forgets the batches. The ids of the
players are a slice that `Run` takes from the object of the lister, and that
`updateConnectedPlayers` puts into the copy it patches: `aliased` says who shares it,
`PlayerDisconnect` moves its elements in place (`WriteInPlace`), and `PlayerConnect`
writes behind its end while there is room, or leaves it for a new one.
`Misled` are the moments at which the worker compares the players with an object
that is behind, or that was changed under it.

`SDKWatch` is what a game server gets to see. The SDK server answers from two
caches, the lister and `gsCopy` (`LatestGameServer`), while others change the
GameServer and its own batches do (`updateCounter` stands for all that keep a
`gsCopy`). `WatchGameServer` sends a first message and then, in a step of its own,
appends the stream (`Connect`); `sendGameServerUpdate` is the handler of the
informer, which sees what the lister has shown already (`events`), drops the
streams that are closed and sends to the others. There are no resyncs
(`sdkserver.go:155`). A message is the GameServer through `convert`, the wire and
`toObject`; its time on the way is left out, since a stream keeps the order, and
`Send` is taken not to block, since clients read. `resourceVersion` is a number
here, larger with every change, and `generation` grows with every change of more
than metadata. The field is a string without an order in Kubernetes; only
properties compare it, the code compares generations.

`GameServerSet` is one set and its GameServers. `syncGameServerSet` computes the
numbers of a sync in one action, from `List`, that is, the lister's list with the
overlay on it; every creation and every shutdown is an action of its own, since
they run in parallel and may fail in part (`partial`, `failed`), or be carried out
while their answer is lost (`CreateAnswerLost`, `DeleteAnswerLost`): then the overlay
knows nothing of them. `Relist` is an informer that lists again after its watch
broke, and hands deletions to the handler in a form that the handler drops
(`controller.go:270`). `Moves` is what GameServers do meanwhile; one may be created,
shut down and gone before any list shows it, and is in the overlay for good then
(`Ghosts`). `lost` and `overlooked` are history: the names whose Create lost its answer,
and whether a deletion went by that no sync has looked for since. A name is never used again, and a state never comes
back, so that the state stands for the resourceVersion.

`Fleet` is one Fleet with up to `MaxSets` GameServerSets. `syncFleet` computes the
requests of a sync from the lister (clean up, scale the old sets, scale or create
the active one, delete empty ones, update the status) and `Work` sends them one by
one, each of which may fail and end the sync. `gameServers` has the numbers by
state of each set; the GameServerSet controller is reduced to `Grows`, `Shrinks`,
`Starts`, `IsRemoved` and `Reports`, that is, what `GameServerSet` promises in
`SetGetsToItsSize` and `StatusTellsTheTruth`, with `AllocatedIsKept`, as long as there
are no ghosts and no deletion is overlooked.

`Allocation` has a goroutine per client (`CheckContext`, `Send`, `Receive`,
`GiveUp`), the loop of `ListenAndAllocate` (`TakeRequest`, `FindGameServer`,
`NoGameServer`, `EndBatch`) and an update worker per request. The informer has
two steps, because listers see a new version before the handlers do, and
`syncCache` lists first and compares key by key. Objects carry `generation` and
`resourceVersion`, since the cache compares both. `"Reserved"` stands for every
state in which a GameServer is not allocated, `"Shutdown"` for all that is being
deleted. Which of the candidates comes first (Packed, Distributed, priorities) is
left open; so is what a request changes besides the state.

`MC...` modules give constants that a `.cfg` cannot write. Definitions above a
definition they resemble, described as a mutant, are the definition with a
plausible bug; no specification uses them.

## The runs

| Run | Question | Bounds |
|---|---|---|
| `PortAllocator.cfg` | `HeldPortsAreTaken`: is every host port held by a GameServer backed by a taken slot of its own? `RestartIsExact`: are the books exact after a restart? | 2 GameServers with 2 ports each, 2 ports, 2 slots, 2 workers, 2 nodes that are cordoned and uncordoned, 2 faults |
| `GameServerLifecycle.cfg` | `FollowsTheStates`, `ReadyHasAddress` | 2 nodes, 2 disturbances of any kind, 2 workers at a time |
| `GameServerLiveness.cfg` | `DeletionCompletes`, `LostPodIsNoticed`, `MigrationIsNoticed`, `StartupProgresses` | 2 nodes, 1 disturbance, 1 worker at a time |
| `SDKSession.cfg` | `ThereIsNoEscaping`, `OnlySilenceIsUnhealthy`, `RequestsArrive`, `ReservationEnds`, `HangIsNoticed` | any one call (a reservation is followed by that of its timer), 2 disturbances, a health threshold of 2 |
| `SDKBatches.cfg` | `WithinCapacity`, `BatchesApplyToTheLatest`, `WritingIsInvisible`, `BatchesAreWritten`, `PlayersAreReported` | any 2 of 14 calls, at the same time, 1 change by the allocator, 1 fault |
| `SDKWatch.cfg` | `AnswersHaveWhatWasWritten`, `AnswersNeverGoBack`, `AnswersCatchUp`, `ConnectedWatchersLearn` | 2 watchers, each of which may close, 2 changes by others or by batches, 1 restart of the sidecar |
| `GameServerSet.cfg` | `NeverTooMany`, `SetGetsToItsSize`, `StatusTellsTheTruth` | 3 GameServers, a set of 1 that may be scaled to 2, batches of one, 1 change, 1 request or answer lost, relist or restart |
| `Fleet.cfg` | `SizesWithinSurge`, `OldSetsOnlyShrink`, `RolloutCompletes`, `StatusTellsTheTruth` | a Fleet of 2, 2 templates, surge and unavailable 1, 1 allocation, fault or restart |
| `FleetNoneReady.cfg` | finding | a Fleet of 2, 3 templates, 2 edits, no fault |
| `FleetAllocated.cfg` | finding | a new Fleet of 2 that is updated at once, 1 allocation |
| `Allocation.cfg` | `TakenAsAsked`, `NothingAllocatedInVain`, `RequestsAreAnswered` | 1 GameServer, 2 clients (one prefers Allocated ones), 2 tries, queue of 1, lists refreshed after 2 requests, 1 change by others, 1 fault |
| `AllocationLost.cfg` | finding | 1 GameServer, 1 client |

Why the bounds are enough to be interesting. Two GameServers and two ports are
what it takes for one to lose a slot to the other, two workers for two copies of
one GameServer, and two slots for a port to be held twice; with one of two nodes
cordoned a restart has one slot for both. A disturbance is any
event from outside: a refused Pod, a failed request, a missed event, a restart, a
call of the SDK after the first Ready, an allocation, a deletion, a scale down, a
failed, finished, moved or deleted Pod; two of them race with each other and with
two workers. In the liveness run only one worker is busy at a time, since the
races are the subject of the safety run and the graph has to stay small. A batch
needs two calls to be shared, and one change of the allocator between reading and
patching to be refused. Two watchers are needed for one that closes to harm the
other; two changes for a copy that hides a newer version, and for a label, which
changes no generation, in between. A set of one that
fails or is scaled to two, while a creation fails, loses its answer or is forgotten
in a restart, has all the cases of the overlay, and three GameServers are one more than
it is ever to have. A Fleet of two with a surge of one has a
first and a last step of a rollout, and an allocation, conflict or restart between
them. For the allocator two clients compete for one GameServer, while a queue of
one makes one of them wait; two tries are the smallest number with a retry. `CHECK_DEADLOCK` is off since the system may stop: everything deleted,
answered or in place, and nothing left to do.

Fairness. Work queues serve what is queued, handlers see what the informers got,
the scheduler and the kubelet do their work, timers fire, and goroutines that can
run do run: weak fairness. In `GameServerLifecycle` a worker starts under strong
fairness, for it waits for one of the `MaxBusy` slots that only the model has; in
`SDKSession` an operation does, since the queue serves its keys in order while one
worker is there for all; a sender on a full channel stands in line, which the Go
runtime keeps in order. A failed sync is queued again with a delay, which is why
a stage that fails and succeeds by turns is not excluded by fairness: faults are
bounded by a constant. Nobody has to call the SDK, end a game or cause an event.

## Findings

- `FleetAllocated`: an old GameServerSet is deleted because its status, in the
  cache of the Fleet controller, counts no GameServers; the status is older than
  an allocation, and the Allocated GameServer goes with the set.
- `AllocationLost`: `RemoveGameServer` deletes whatever version the cache has. When
  the list of the batch was older than the cache, the Update meets a conflict and
  the fresh version, already delivered, is gone from the cache.
- `FleetNoneReady`: a Fleet is edited again while its rolling update runs. How many
  have to stay Ready is computed from how many are Ready at the moment; the set of the
  newest template does not exist yet, the one before it has nothing Ready yet, and the
  oldest set loses the last Ready GameServer. With one edit `NeverNoneReady` holds in
  the instance of `Fleet.cfg`.

Further instances, each for TLC on its own with the module its constants belong
to, show other behaviour that the code, its tests or its docs do not expect:

| Configuration | Module | What TLC finds |
|---|---|---|
| `PortLeak.cfg` | `MCPortAllocator` | the handler of a deletion runs before a worker learns that its Update was refused; the worker finds the registry entry gone and its port stays taken until a restart |
| `PortTCPUDP.cfg` | `MCPortAllocator` | releasing a TCPUDP port frees two slots where one was taken, the second one of another GameServer (`portallocator.go:304`) |
| `PortLost.cfg` | `MCPortAllocator` | an Update is applied and its answer lost: the worker puts the port back in the pool that the GameServer holds (`controller.go:577`) |
| `PortTwice.cfg` | `MCPortAllocator` | a GameServer with two ports gets one number twice, from two slots |
| `GameServerStuck.cfg` | `MCGameServerLifecycle` | a Pod lost in Starting with its Delete event missed is not noticed: the missing pod controller passes over Starting |
| `GameServerFinalizer.cfg` | `MCGameServerLifecycle` | with a Pod cache that lags behind, the finalizer is removed while the Pod runs; the garbage collector still deletes the Pod |
| `GameServerRecovery.cfg` | `MCGameServerLifecycle` | holds: with any two failures a deletion completes and a lost Pod is noticed |
| `SDKListCapacity.cfg` | `MCSDKBatches` | `setListCapacity` of the Node.js SDK sends an empty field mask (`beta.js:154`), so that nothing is set |
| `SDKReads.cfg` | `MCSDKBatches` | `GetCounter` fetches the GameServer before it takes the lock: a batch written in between is in neither of the two it adds up |
| `SDKPlayers.cfg` | `MCSDKBatches` | a player leaves and comes back before the lister shows the first update: the worker compares with what the lister has and skips the second one, and the status stays without the player, although count and ids "are then set to update ... a second from now" (`Client SDKs/_index.md:380`) |
| `SDKPlayersSlice.cfg` | `MCSDKBatches` | after a start one player leaves and another comes: both change the slice of the lister's object in place, and the worker finds nothing to patch |
| `SDKReserveTimer.cfg` | `MCSDKSession` | a timer whose callback has begun is not stopped: Allocate is overwritten by the Ready of the reservation |
| `SDKWatchMissed.cfg` | `MCSDKWatch` | a change between the first message of a watcher and the append of its stream is never sent to it, although "whenever the underlying `GameServer` configuration is updated" a watcher is to learn of it (`Client SDKs/_index.md:190`); with no later change it never does |
| `SDKWatchBack.cfg` | `MCSDKWatch` | the handler of the informer lags behind the lister and `gsCopy`: a new watcher gets an older version after a newer one |
| `GameServerSetGhost.cfg` | `MCGameServerSet` | a GameServer created and deleted before a list shows it counts as up for good, and the set stays too small, although `syncGameServerSet` is to make sure "there are aways as many GameServers as requested" (`controller.go:293`) |
| `AllocationLiveness.cfg` | `MCAllocation` | holds: `RequestsAreAnswered` when the clients sort differently, so that every request gets a new list |
| `FleetSurge.cfg` | `MCFleet` | with a second edit during a rollout the sets ask for more than the size and `maxSurge` together, although the code is to "make sure we don't end up with more than the configured max surge" (`controller.go:499`): a set that is still growing reports less than it will have |
| `FleetLag.cfg` | `MCFleet` | while the lister does not show the set that was just created (`controller.go:733`) another sync creates a second one, and all sets together ask for more than the size and `maxSurge` |
| `FleetDuplicates.cfg` | `MCFleet` | holds: the five properties of `Fleet.cfg` with such a duplicate, a Fleet of 1 and no other disturbance |
| `FleetUnavailable.cfg` | `MCFleet` | `minAvailable` is taken from the status of the Fleet, one sync behind, and old sets shrink by more than `maxUnavailable` |

Their properties are stated next to the others of the module.

What the properties of the runs leave open is stated in them. `HeldPortsAreTaken`
allows for the entries in `unbooked`. `NeverTooMany` does not count a GameServer whose Create lost its answer
until a list shows it: the next sync creates one too many, which a later one shuts
down. `SetGetsToItsSize` lets ghosts take the place of GameServers, and lets the set wait
for the next event while a deletion is overlooked; `StatusTellsTheTruth` says nothing of
a set with a ghost, or of one with no GameServer left that a resync could show: what
brings the key back then is a change of the set, and a write of the status that a
stale copy of the set made look unnecessary is not made up for. `PlayersAreReported` holds
of behaviours without a `Misled` worker. `SizesWithinSurge` counts one set of the new
template at a time, and bounds the number of these sets.

## What is proved

All of these hold for every value of the constants that the named assumptions
allow.

`PortAllocatorProofs`: `TypeCorrect`; `HeldPortsStayTaken` and
`RestartRebuildsTheBooks`, when no port is TCPUDP (with them they do not hold, see
`PortTCPUDP`), for any number of nodes, cordoned or not. `HeldPortsAreTaken` speaks of
the objects in the API server only, and is not inductive: a worker with a copy that
was refused is about to release slots that no object accounts for. The invariant
`IInv` counts claims. `Books`: for every port the slots that are taken and the entries
given up (`unbooked`) are at least as many as the claims on it, where a claim is an
entry of an object that still is to be released, or of the copy a goroutine
carries. An Update that is applied while its answer is lost leaves its claims twice,
with the object and with the worker who releases them: that many are given up. `Shape`:
how many ports an object or a copy has, which is what makes the number of claims that
a step moves from a copy to an object the same on both sides. `Placed`: no two claims
on one node for the same port, so that `syncAll`, which has one slot per schedulable
node, loses none but those for which there is no slot left. Counting is done with
bijections and disjoint unions.

`GameServerLifecycleProofs`: `TypeCorrect`; `ReadyGameServersHaveAnAddress`; and
`ImplementsTheStates`, the refinement of `GameServerStates`. `IInv` is inductive
because of parts that no property mentions. `FreshInv`: a worker that is not in
`outdated` carries the GameServer itself, or, in a watcher, what it is about to
write instead of it (`Marked`). `PcInv`: what the stage a worker has reached says of
its copy (only a copy in Creating that is not being deleted gets as far as a Pod).
`ObjectInv`: `ReadyHasAddress`, and that a development GameServer is never
RequestReady. `PodInv`: a development GameServer has no Pod, and no other has one
before its ports are allocated. With them every write either meets a conflict or
is a step of the state machine (`GoodWrite`), and there is one lemma per stage or
actor.

`SDKSessionProofs`: `NoEscape` (`ThereIsNoEscaping`) from `VersionInv`: a copy
with the current version is the object itself, so a patch that the API server
accepts was checked against what it changes. `SilenceIsUnhealthy`
(`OnlySilenceIsUnhealthy`) from `HealthInv`: unless the stream was broken, the
checks without a ping are at least as many as the failures counted, between any two of
the three steps of a check; and `CallsInv`: only the four calls that change the state get past
`stopReserveTimer`, so that none asks for Unhealthy.
`TypeCorrect` adds `StateInv`: the worker writes a state only when one was asked for,
and that is never Ready or Scheduled, which are left to the controllers. It needs the
keys and values of the requests to be those of the constants `Keys` and `Values`
(`RequestsAssumption`).

`SDKBatchesProofs`: `TypeCorrect`, `StaysWithinCapacity` (`WithinCapacity`),
`AppliedToTheLatest` (`BatchesApplyToTheLatest`) and `WriteIsInvisible`
(`WritingIsInvisible`). The assumption is that the fields of a message have the types
of the `.proto` files (`RequestsAssumption`). `TypeInv` says of every GameServer there
is (the object, the lister's, `gsCopy`, those of the worker and of the calls) that it
is within its capacities: the one in the API server alone is not inductive, for a
batch is applied to a copy, and the copy replaces the object. `GenerationInv`: the
lister's copy, `gsCopy` and the worker's copies with the current generation are the
object, or the object with the batch on it. `WorkerIsBehind`: what the worker read is
no newer than what a read answers from, which is why replacing `gsCopy` by the patched
copy takes nothing away. The values of a List are a fold of the code's loops
(`deleteValues`, `MergeRemoveDuplicates`).

`SDKWatchProofs`: `TypeCorrect`, with a stream that is connected at most once and
only after its first message (`StreamsInv`), and no event newer than the lister
(`EventsInv`); `OwnWritesAreRead` (`AnswersHaveWhatWasWritten`) and `NoGoingBack`
(`AnswersNeverGoBack`) from `VersionInv`: each of the two caches has the GameServer
or an earlier version of it, and a lister that has reached the generation of
`gsCopy` has reached its version too, which is why comparing generations is
enough although labels do not change them; and `RoundTrip`, what is decoded is what
was encoded, for every message class of `SDKMessages`.

`GameServerSetProofs`: `TypeCorrect`; `NeverTooManyCreated` (`NeverTooMany`) and
`AllocatedKept` (`AllocatedIsKept`). `OverlayInv`: the list shows every GameServer as
it is or was, one that is up and not listed is in `pendingCreation` or the answer to its
Create was lost, and `pendingDeletion` has only GameServers in Shutdown or gone.
`RoomInv`: the GameServers that are up, without those neither the list nor the overlay
has (`Known`), and those a sync has still to create are together at most the size it
looked at. `KeepInv`: none of those it is about to shut down was Allocated when it was
listed, so that the Update is refused if it is now.

`AllocationProofs`: `TypeCorrect`; `TakenAsTheyAsked` (`TakenAsAsked`) from
`CopiesInv`, a version of a GameServer in the informer, the cache, a resync, the list
of a batch or a worker is older than the GameServer or is the GameServer, and
`AskedInv`, what a worker is about to allocate was found in a state that was asked
for; `NothingInVain` (`NothingAllocatedInVain`) from `PlaceInv`: while nothing fails
and nobody goes away a waiting request is in one place at a time, the queue, the
listener, a worker or its response channel, so that no answer overtakes another.
With a fault it does not hold: a client that gives up leaves a GameServer allocated
for nobody. `GameServers` and the errors of an attempt are assumed to be different
(`ErrorsAssumption`).

`FleetProofs`: `TypeCorrect` and `OldSetsShrink` (`OldSetsOnlyShrink`) for every Fleet,
strategy and number of edits, and `SurgeHolds` (`SizesWithinSurge`) for one rollout.

- `TypeInv` has to say what the requests that a sync has still to send will do. All of
  them are in `Plans`: a request of one of the two loops is for a set that the sync saw,
  and asks for less than it saw (`GoesDown`). For the second loop (`scaleDown`), which
  starts from the sizes the first one (`cleanupUnhealthyReplicas`) leaves, this is an
  induction over the fold: the sizes only go down on the way. An Update that the API
  server accepts finds the set as it was seen, and so makes it smaller.
- `SurgeHolds` assumes `OneRollout`: a rolling update, of a Fleet that has come up, to
  another template and not to another size. Without the first it is another strategy
  or a Fleet whose sets report less than they will have; a change of the size is
  another limit. A second edit is excluded by the property itself, since it is false
  then (`FleetSurge.cfg`). Listers may lag as they like: a sync that begins before the
  lister shows a created set creates a duplicate, and `SizesPart` says that there are
  at most as many sets of the new template as one and such syncs (`Made`), and that
  each of them is within the limit together with the old set. What
  `rollingUpdateActive` counts are the reported numbers of GameServers of the old set,
  what is to be bounded is its size; the inductive part that relates them is
  `OldSetIsCounted`: the size of the old set is at most what it has, what it reports,
  and what the lister shows of either. With it a size computed from any of these views
  is within the limit, and stays so, since the old set only shrinks. `QueuePart` says
  the same of the requests on the way.

The controller sums and loops over its sets; the model has folds for that. What a fold
computes is an induction over data, which the provers cannot do from the library's
theorems, since these take an operator; but an induction over a set of numbers, by its
least element (`NatSetInduction`, from `WFMin`), is a first-order step. `SumIsRecursive`
and the lemmas on `FoldLeft` at the head of `FleetProofs` and `SDKBatchesProofs` rest on
it.

What stays with TLC: all liveness, which is out of reach of the prover (fairness
and ENABLED); `NeverNoneReady`, `AllocatedAreKept` and `ReadyIsAllocatable`, which the
code violates; and `NeverNoneReady` for one rollout, for which the sum of what is Ready
would have to be related to three views of it.

## Not modelled

In the modelled parts: rate limits and delays, the content of Pods, the metadata
an allocation patches, the order of candidates and priorities, the status fields
for Counters, Lists and players of sets and Fleets, the labels of allocation
overflow, percentages in the strategy of a Fleet (they are numbers here). In
`Fleet` no game ends and no GameServer fails, so that a size below zero, which the
code asks for when more are Allocated than the Fleet is to have, does not
recover there; and a sync that begins before the lister shows a created set is in
`FleetDuplicates.cfg`, `FleetLag.cfg` and the proofs, not in `Fleet.cfg`. The slice of
the players is read and written without a lock by the lister's other readers and by
the patch; the model has each read and each write whole, and a read that sees half
of a write is left out.

`SDKBatches` and `SDKSession` split the SDK server in two: they share the work
queue and the GameServer, but no field is written by both; each treats what the
other writes as no change to its own part. `SDKWatch` takes all such writes as
changes by others, except for batches. `gsStateChannel`, which
keeps a sidecar that is told to stop waiting for Shutdown, is used only when
sidecar containers are off (`cmd/sdk-server/main.go:165`), and is left out.

Whole parts: the Fleet autoscaler applies policies that are pure functions of a
status; the per node counter only orders candidates; multi-cluster allocation
tries endpoints one after the other and keeps no state; webhooks validate one
object; metrics, binaries and cloud products observe, wire or adapt.

By lines, most of the JavaScript in the repository is generated: three copies of
the classes for `protoc-gen-openapiv2`, two of those for `google/api`, which
describe annotations of the interface and are not used at run time, and a
third-party player for terminal recordings on the site. They have no behaviour of
Agones in them and are left out; what the Node.js SDK itself does, and the
messages it sends and gets, are modelled. That is about a tenth of the lines of
JavaScript, and these modules are mostly about the other language of the
repository: the controllers and the SDK server are written in Go.

## The plan

1. The allocation processor: batches over a stream, reconnects, late answers.
2. Proofs of the further instances that hold: `NeverNoneReady` for one rollout.
