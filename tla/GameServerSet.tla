---------------------------- MODULE GameServerSet ----------------------------
(***************************************************************************)
(* The GameServerSet controller (pkg/gameserversets): it keeps as many     *)
(* GameServers as the set asks for, working from a list that is behind the *)
(* API server and an overlay of what it has created and shut down itself   *)
(* (gameServerStateCache), while GameServers start, are allocated, fail    *)
(* and end.  There is one set; its key is handled by one worker at a time. *)
(***************************************************************************)
EXTENDS Integers, FiniteSets

CONSTANTS
    MaxCreated,         \* how many GameServers are ever created
    InitialReplicas, Replicas,      \* the size of the set, and those it is scaled to
    MaxCreations, MaxDeletions,     \* maxGameServerCreationsPerBatch, ...DeletionsPerBatch
    MaxPending,         \* maxPodPendingCount
    MaxChanges,         \* what users, allocations and failures do
    MaxFaults           \* requests that fail or whose answer is lost, relists and restarts

ASSUME GameServerSetAssumption ==
    /\ MaxCreated \in Nat /\ InitialReplicas \in Nat /\ Replicas \subseteq Nat
    /\ MaxCreations \in Nat \ {0} /\ MaxDeletions \in Nat \ {0} /\ MaxPending \in Nat \ {0}
    /\ MaxChanges \in Nat /\ MaxFaults \in Nat

Names == 1..MaxCreated

\* Starting is every state before Ready.  A GameServer never comes back to a state it
\* has left, so that its state stands for its resourceVersion.
States == {"none", "Starting", "Ready", "Allocated", "Unhealthy", "Error", "Shutdown", "gone"}

VARIABLES
    gameServers,        \* [Names -> States] in the API server
    listed,             \* the lister's copy
    errorDelayPassed,   \* the names whose Error is gameServerErrorDeletionDelay old
    gsSet,              \* the GameServerSet in the API server
    gsSetListed,        \* the lister's copy
    pendingCreation, pendingDeletion,       \* gameServerSetCacheEntry
    queued,             \* whether the key is in the work queue
    worker,             \* the sync that is under way
    used,               \* how many changes and faults there have been
    lost,               \* history: the names whose Create was carried out and never answered
    overlooked          \* history: whether a deletion went by that no sync has looked for

api == <<gameServers, errorDelayPassed, gsSet>>
listers == <<listed, gsSetListed>>
stateCache == <<pendingCreation, pendingDeletion>>
history == <<lost, overlooked>>
vars == <<api, listers, stateCache, queued, worker, used, history>>

Use(what, bound) == used[what] < bound /\ used' = [used EXCEPT ![what] = @ + 1]
Least(m, n) == IF m < n THEN m ELSE n
AtLeastZero(n) == IF n < 0 THEN 0 ELSE n

NoStatus == [replicas |-> 0, ready |-> 0, allocated |-> 0, shutdown |-> 0]
NoWork == [busy |-> FALSE, gsSet |-> [replicas |-> 0, status |-> NoStatus],
           seen |-> [n \in Names |-> "none"], toAdd |-> 0, toDelete |-> {}, partial |-> FALSE,
           failed |-> FALSE]

-----------------------------------------------------------------------------
(* reconcileWithUpdatedServerList: the list with the overlay on it. *)

Exists(state) == state \notin {"none", "gone"}

\* A mutant: the list is trusted to show what was created.
OnlyTheList == {n \in Names : Exists(listed[n])}

List == {n \in Names : Exists(listed[n])} \cup pendingCreation

StateInList(n) ==
    CASE ~Exists(listed[n]) -> "Starting"
      [] Exists(listed[n]) /\ n \in pendingDeletion -> "Shutdown"
      [] OTHER -> listed[n]

In(states) == {n \in List : StateInList(n) \in states}

-----------------------------------------------------------------------------
(* computeReconciliationAction *)

shouldDeleteErroredGameServer(n) == n \in errorDelayPassed

Broken == In({"Unhealthy"}) \cup {n \in In({"Error"}) : shouldDeleteErroredGameServer(n)}
Pending == In({"Starting"}) \cup {n \in In({"Error"}) : ~shouldDeleteErroredGameServer(n)}
Deletable == Pending \cup In({"Ready"})

\* How many of those that are up, and may be deleted, are too many.
Surplus(replicas) ==
    Least(Cardinality(Deletable),
          AtLeastZero(Cardinality(In({"Allocated"})) + Cardinality(Deletable) - replicas))
Missing(replicas) ==
    AtLeastZero(replicas - Cardinality(In({"Allocated"})) - Cardinality(Deletable))

ToAdd(replicas) ==
    AtLeastZero(Least(Least(Missing(replicas), MaxCreations), MaxPending - Cardinality(Pending)))

\* A broken GameServer counts as one of those that are to be deleted.
ToDelete(replicas) == Cardinality(Broken) + AtLeastZero(Surplus(replicas) - Cardinality(Broken))

\* The broken ones come first; which of the others go is up to SortGameServersByStrategy.
MayDelete(replicas) ==
    {D \in SUBSET (Broken \cup Deletable) :
        /\ Cardinality(D) = Least(ToDelete(replicas), MaxDeletions)
        /\ D \cap Deletable # {} => Broken \subseteq D}

computeStatus(states) ==
    LET count(s) == Cardinality({n \in Names : states[n] \in s})
    IN  [replicas |-> count({"Starting", "Ready", "Allocated", "Unhealthy", "Error"}),
         ready |-> count({"Ready"}), allocated |-> count({"Allocated"}),
         shutdown |-> count({"Shutdown"})]

-----------------------------------------------------------------------------
(* syncGameServerSet: the decision is taken at once, what it asks for is    *)
(* done one request at a time.                                              *)

Seen == [n \in Names |-> IF n \in List THEN StateInList(n) ELSE "none"]

syncGameServerSet ==
    LET replicas == gsSetListed.replicas
    IN  /\ queued /\ ~worker.busy
        /\ queued' = FALSE
        /\ \E D \in MayDelete(replicas) :
              worker' = [busy |-> TRUE, gsSet |-> gsSetListed, seen |-> Seen,
                         toAdd |-> ToAdd(replicas), toDelete |-> D,
                         partial |-> \/ ToAdd(replicas) # Missing(replicas)
                                     \/ ToDelete(replicas) > MaxDeletions,
                         failed |-> FALSE]
        /\ pendingCreation' = {n \in pendingCreation : ~Exists(listed[n])}
        /\ pendingDeletion' = {n \in pendingDeletion : Exists(listed[n])}
        /\ overlooked' = FALSE
        /\ UNCHANGED <<api, listers, used, lost>>

created(n) == pendingCreation' = pendingCreation \cup {n}

\* The API server makes up a name that nobody has had.
Create(n) ==
    /\ worker.toAdd > 0
    /\ gameServers[n] = "none" /\ \A m \in Names : m < n => gameServers[m] # "none"
    /\ gameServers' = [gameServers EXCEPT ![n] = "Starting"]

\* addMoreGameServers
CreateGameServer(n) ==
    /\ Create(n)
    /\ created(n)
    /\ worker' = [worker EXCEPT !.toAdd = @ - 1]
    /\ UNCHANGED <<errorDelayPassed, gsSet, listers, pendingDeletion, queued, used, history>>

\* One of the goroutines of parallelize stops; the others may go on or stop as well.
StopsCreating ==
    \E left \in 0..(worker.toAdd - 1) :
        worker' = [worker EXCEPT !.toAdd = left, !.toDelete = {}, !.failed = TRUE]

CreateFails ==
    /\ worker.toAdd > 0
    /\ Use("faults", MaxFaults)
    /\ StopsCreating
    /\ UNCHANGED <<api, listers, stateCache, queued, history>>

\* The GameServer is there, but the controller does not know its name.
CreateAnswerLost(n) ==
    /\ Create(n)
    /\ Use("faults", MaxFaults)
    /\ StopsCreating
    /\ lost' = lost \cup {n}
    /\ UNCHANGED <<errorDelayPassed, gsSet, listers, stateCache, queued, overlooked>>

UpdateTests(n) == gameServers[n] = worker.seen[n]

\* A mutant: what is deleted stays pending creation.
DeletedOnly(n) == pendingDeletion' = pendingDeletion \cup {n} /\ UNCHANGED pendingCreation

deleted(n) ==
    /\ pendingCreation' = pendingCreation \ {n}
    /\ pendingDeletion' = pendingDeletion \cup {n}

\* The controller of the GameServer does the rest.
Update(n) ==
    /\ worker.toAdd = 0 /\ n \in worker.toDelete
    /\ UpdateTests(n)
    /\ gameServers' = [gameServers EXCEPT ![n] = "Shutdown"]

\* deleteGameServers
DeleteGameServer(n) ==
    /\ Update(n)
    /\ deleted(n)
    /\ worker' = [worker EXCEPT !.toDelete = @ \ {n}]
    /\ UNCHANGED <<errorDelayPassed, gsSet, listers, queued, used, history>>

StopsDeleting(n) ==
    \E left \in SUBSET (worker.toDelete \ {n}) :
        worker' = [worker EXCEPT !.toDelete = left, !.failed = TRUE]

DeleteFails(n) ==
    /\ worker.toAdd = 0 /\ n \in worker.toDelete
    /\ (~UpdateTests(n) /\ UNCHANGED used) \/ Use("faults", MaxFaults)
    /\ StopsDeleting(n)
    /\ UNCHANGED <<api, listers, stateCache, queued, history>>

DeleteAnswerLost(n) ==
    /\ Update(n)
    /\ Use("faults", MaxFaults)
    /\ StopsDeleting(n)
    /\ UNCHANGED <<errorDelayPassed, gsSet, listers, stateCache, queued, history>>

\* A mutant: the error is logged, and the key does not come back.
GiveUp(failed) == worker' = NoWork /\ queued' = (queued \/ worker.partial)

\* An error brings the key back, and so does a partial reconciliation.
Finish(failed) == worker' = NoWork /\ queued' = (queued \/ failed \/ worker.partial)

Done == worker.busy /\ worker.toAdd = 0 /\ worker.toDelete = {}

SyncFails ==
    /\ Done /\ worker.failed
    /\ Finish(TRUE)
    /\ UNCHANGED <<api, listers, stateCache, used, history>>

\* A mutant: only the size of the set is compared.
OtherSize(old, new) == old.replicas # new.replicas

Differs(old, new) == old # new

\* The status is that of the list before anything was created or deleted.
syncGameServerSetStatus ==
    LET status == computeStatus(worker.seen)
        changed == Differs(worker.gsSet.status, status)
    IN  /\ Done /\ ~worker.failed
        /\ \/ ~changed /\ UNCHANGED <<gsSet, used>> /\ Finish(FALSE)
           \/ /\ changed /\ gsSet = worker.gsSet
              /\ gsSet' = [gsSet EXCEPT !.status = status]
              /\ \/ Finish(FALSE) /\ UNCHANGED used
                 \/ Finish(TRUE) /\ Use("faults", MaxFaults)
           \/ /\ changed /\ gsSet # worker.gsSet
              /\ UNCHANGED <<gsSet, used>> /\ Finish(TRUE)
           \/ changed /\ Use("faults", MaxFaults) /\ UNCHANGED gsSet /\ Finish(TRUE)
        /\ UNCHANGED <<gameServers, errorDelayPassed, listers, stateCache, history>>

Work ==
    \/ \E n \in Names : \/ CreateGameServer(n) \/ CreateAnswerLost(n)
                       \/ DeleteGameServer(n) \/ DeleteFails(n) \/ DeleteAnswerLost(n)
    \/ CreateFails \/ SyncFails \/ syncGameServerSetStatus

-----------------------------------------------------------------------------
(* The informers and their handlers, the restart of the controller.  States *)
(* that were overtaken are not shown one by one.                            *)

Changed == {n \in Names : listed[n] # gameServers[n]}

\* What has a deletionTimestamp is passed over until it is deleted.
gameServerEventHandler ==
    /\ Changed # {}
    /\ listed' = gameServers
    /\ queued' \in IF \A n \in Changed : gameServers[n] = "Shutdown" THEN {queued, TRUE} ELSE {TRUE}
    /\ UNCHANGED <<api, gsSetListed, stateCache, worker, used, history>>

\* The watch breaks and the informer lists again.  What it does not find any more it hands
\* to the handler as a DeletedFinalStateUnknown, which is no GameServer: no key is queued.
Relist ==
    /\ \E n \in Changed : gameServers[n] = "gone"
    /\ Use("faults", MaxFaults)
    /\ listed' = gameServers
    /\ queued' \in IF \A n \in Changed : gameServers[n] \in {"Shutdown", "gone"}
                   THEN {queued, TRUE} ELSE {TRUE}
    /\ overlooked' = (overlooked \/ ~queued')
    /\ UNCHANGED <<api, gsSetListed, stateCache, worker, lost>>

\* The informer shows every GameServer again from time to time, when there is one.
Resync ==
    /\ \E n \in Names : Exists(listed[n])
    /\ ~queued /\ queued' = TRUE
    /\ UNCHANGED <<api, listers, stateCache, worker, used, history>>

gameServerSetUpdated ==
    /\ gsSetListed # gsSet
    /\ gsSetListed' = gsSet
    /\ queued' = (queued \/ gsSetListed.replicas # gsSet.replicas)
    /\ UNCHANGED <<api, listed, stateCache, worker, used, history>>

Restart ==
    /\ Use("faults", MaxFaults)
    /\ listed' = gameServers /\ gsSetListed' = gsSet
    /\ pendingCreation' = {} /\ pendingDeletion' = {}
    /\ queued' = TRUE /\ worker' = NoWork
    /\ overlooked' = FALSE
    /\ UNCHANGED <<api, lost>>

-----------------------------------------------------------------------------
(* GameServers, their controller, users and allocations.                    *)

Moves(n, from, to) ==
    /\ gameServers[n] \in from
    /\ gameServers' = [gameServers EXCEPT ![n] = to]
    /\ UNCHANGED <<errorDelayPassed, gsSet, listers, stateCache, queued, worker, history>>

Starts(n) == Moves(n, {"Starting"}, "Ready") /\ UNCHANGED used

IsRemoved(n) == Moves(n, {"Shutdown"}, "gone") /\ UNCHANGED used

GameServerChanges(n) ==
    /\ Use("changes", MaxChanges)
    /\ \/ Moves(n, {"Ready"}, "Allocated")
       \/ Moves(n, {"Starting"}, "Error")
       \/ Moves(n, {"Starting", "Ready", "Allocated"}, "Unhealthy")
       \/ Moves(n, {"Starting", "Ready", "Allocated", "Unhealthy", "Error"}, "Shutdown")

ErrorDelayPasses(n) ==
    /\ gameServers[n] = "Error" /\ n \notin errorDelayPassed
    /\ errorDelayPassed' = errorDelayPassed \cup {n}
    /\ UNCHANGED <<gameServers, gsSet, listers, stateCache, queued, worker, used, history>>

Scale(replicas) ==
    /\ gsSet.replicas # replicas
    /\ Use("changes", MaxChanges)
    /\ gsSet' = [gsSet EXCEPT !.replicas = replicas]
    /\ UNCHANGED <<gameServers, errorDelayPassed, listers, stateCache, queued, worker, history>>

-----------------------------------------------------------------------------
Init ==
    /\ gameServers = [n \in Names |-> "none"] /\ listed = gameServers
    /\ errorDelayPassed = {}
    /\ gsSet = [replicas |-> InitialReplicas, status |-> NoStatus] /\ gsSetListed = gsSet
    /\ pendingCreation = {} /\ pendingDeletion = {}
    /\ queued = TRUE
    /\ worker = NoWork
    /\ used = [changes |-> 0, faults |-> 0]
    /\ lost = {} /\ overlooked = FALSE

Next ==
    \/ syncGameServerSet
    \/ Work
    \/ gameServerEventHandler \/ Relist \/ Resync \/ gameServerSetUpdated
    \/ Restart
    \/ \E n \in Names : Starts(n) \/ IsRemoved(n) \/ GameServerChanges(n) \/ ErrorDelayPasses(n)
    \/ \E replicas \in Replicas : Scale(replicas)

\* The worker and the informers go on, Pods start, and what is shut down goes away.
Spec ==
    /\ Init /\ [][Next]_vars
    /\ WF_vars(syncGameServerSet \/ Work)
    /\ WF_vars(gameServerEventHandler) /\ WF_vars(Resync) /\ WF_vars(gameServerSetUpdated)
    /\ WF_vars(\E n \in Names : Starts(n) \/ IsRemoved(n) \/ ErrorDelayPasses(n))

-----------------------------------------------------------------------------
Statuses == [replicas : 0..MaxCreated, ready : 0..MaxCreated, allocated : 0..MaxCreated,
             shutdown : 0..MaxCreated]
GameServerSets == [replicas : Nat, status : Statuses]

\* The GameServers that the set counts on.
Up == {n \in Names :
          \/ gameServers[n] \in {"Starting", "Ready", "Allocated"}
          \/ gameServers[n] = "Error" /\ ~shouldDeleteErroredGameServer(n)}

\* Every variable stays in its range; no GameServer is pending creation and deletion at once.
TypeOK ==
    /\ gameServers \in [Names -> States] /\ listed \in [Names -> States]
    /\ errorDelayPassed \subseteq Names
    /\ gsSet \in GameServerSets /\ gsSetListed \in GameServerSets
    /\ pendingCreation \subseteq Names /\ pendingDeletion \subseteq Names
    /\ pendingCreation \cap pendingDeletion = {}
    /\ queued \in BOOLEAN
    /\ worker \in [busy : BOOLEAN, gsSet : GameServerSets, seen : [Names -> States], toAdd : Nat,
                   toDelete : SUBSET Names, partial : BOOLEAN, failed : BOOLEAN]
    /\ used \in [{"changes", "faults"} -> Nat]
    /\ lost \subseteq Names /\ overlooked \in BOOLEAN

\* Those that the worker cannot know of: the answer to their Create was lost, and the list
\* that the worker goes by did not show them.
Unknown == {n \in lost : worker.seen[n] = "none"}

\* However far the list is behind and whatever fails, a GameServer is created only while
\* there are fewer than the controller was asked for, but for those whose creation it was
\* never told of (the overlay of pendingCreation, gameserver_state_cache.go:97-100).
NeverTooMany ==
    [][\A n \in Names : CreateGameServer(n) \/ CreateAnswerLost(n) =>
          Cardinality(Up \ Unknown) < worker.gsSet.replicas]_vars

\* The controller never shuts down a GameServer that players were sent to, however old
\* the list that it chose it from (IsDeletable, and the resourceVersion of the Update).
AllocatedIsKept ==
    [][Work => \A n \in Names : gameServers[n] = "Allocated" => gameServers'[n] = "Allocated"]_vars

\* What the overlay adds to every list: it was created and is gone, and no list showed it.
Ghosts == {n \in pendingCreation : gameServers[n] = "gone"}

\* As many as are asked for, or those that are Allocated when they are more.
Size ==
    LET allocated == Cardinality({n \in Names : gameServers[n] = "Allocated"})
    IN  IF allocated > gsSet.replicas THEN allocated ELSE gsSet.replicas

\* What controller.go:293 promises.
AlwaysAsManyAsRequested == <>[](Cardinality(Up) = Size)

\* A set that is left alone gets to its size whatever failed before, but for two things: a
\* ghost takes the place of a GameServer, and after a relist that found GameServers gone the
\* controller waits for the next event.
SetGetsToItsSize ==
    <>[](\/ overlooked
         \/ /\ Ghosts = {} => Cardinality(Up) = Size
            /\ Cardinality(Up \cup Ghosts) >= Size)

\* In the end the status tells the truth, though it is computed from the list and compared
\* with the lister's copy of the set (updateStatusIfChanged, controller.go:629): as long as
\* the informer shows the controller some GameServer again, and there is no ghost.
StatusTellsTheTruth ==
    <>[]((\E n \in Names : Exists(listed[n])) /\ Ghosts = {} =>
            gsSet.status = computeStatus(gameServers))
=============================================================================
