----------------------------- MODULE Allocation -----------------------------
(***************************************************************************)
(* GameServer allocation within one cluster (pkg/gameserverallocations):   *)
(* clients call Allocate, which queues a request and waits for the answer; *)
(* ListenAndAllocate serves the queue in batches from a list of candidates *)
(* it took from the allocation cache; workers update the chosen GameServer *)
(* and put it back.  Informer events and a resync change the cache under   *)
(* them, and other actors change the GameServers.                          *)
(***************************************************************************)
EXTENDS Integers, Sequences, FiniteSets

CONSTANTS
    GameServers,
    Requests,           \* one per client
    Selectors,          \* [Requests -> sequence of the states that are asked for]
    Key,                \* [Requests -> SortKey of the request]
    Steps,              \* allocationRetry.Steps
    MaxBatchQueue,      \* capacity of pendingRequests
    MaxBatchBeforeRefresh,
    MaxChanges,         \* bound on what others do to the GameServers
    MaxFaults           \* bound on failed requests and missed events

ASSUME AllocationAssumption ==
    /\ Selectors \in [Requests -> Seq({"Ready", "Allocated"})] /\ Key \in [Requests -> Nat]
    /\ Steps \in Nat \ {0} /\ MaxBatchQueue \in Nat \ {0} /\ MaxBatchBeforeRefresh \in Nat \ {0}
    /\ MaxChanges \in Nat /\ MaxFaults \in Nat

None == "none"
Others == "others"

ASSUME NamesAssumption ==
    None \notin Requests \cup GameServers /\ Others \notin Requests

VARIABLES
    gameServer,         \* the GameServers in the API server
    informer,           \* versions the lister has seen and the handlers are yet to see
    cache,              \* the AllocationCache
    resync,             \* is a Resync queued
    syncing,            \* what syncCache has listed and not yet compared
    pendingRequests,    \* the channel to ListenAndAllocate
    listener,           \* its local variables (~batch: list is nil)
    task,               \* what an update worker does for a request
    response,           \* the response channel of a request
    client,             \* the goroutine in allocateFromLocalCluster
    cancelled,          \* the requests whose context is done
    changes, faults     \* how many of MaxChanges and MaxFaults have happened

server == <<gameServer, changes>>
caches == <<cache, resync, syncing>>
queue == <<pendingRequests, listener>>
clients == <<client, response, cancelled>>
vars == <<gameServer, informer, cache, resync, syncing, pendingRequests, listener, task,
          response, client, cancelled, changes, faults>>

\* Status is no subresource: the generation counts the changes of the state, the
\* resourceVersion counts all.  by: whose metadata patch was applied last.
\* "Shutdown" stands for everything that is being deleted, "Reserved" for every
\* other state in which a GameServer is not allocated.
States == {"Reserved", "Ready", "Allocated", "Shutdown", "Gone"}
Objects == [state : States, generation : Nat, resourceVersion : Nat,
            by : Requests \cup {None, Others}]

\* The results of an attempt, and those a client is left with.
Errors == {"NoGameServer", "Conflict", "UpdateConflict", "Timeout"}
Answers == {None, "UnAllocated", "Contention", "Error"} \cup GameServers

ASSUME ErrorsAssumption == GameServers \cap Errors = {}

NewObject(s) == [state |-> s, generation |-> 1, resourceVersion |-> 1, by |-> None]
NoObject == [state |-> "None", generation |-> 0, resourceVersion |-> 0, by |-> None]
NothingCached == [g \in GameServers |-> NoObject]

Lister(g) == informer[g][Len(informer[g])]
Allocatable(gs) == gs.state \in {"Ready", "Allocated"}
NoTask == [pc |-> "idle", name |-> None, gs |-> NoObject]

TypeOK ==
    /\ gameServer \in [GameServers -> Objects]
    /\ informer \in [GameServers -> Seq(Objects) \ {<<>>}]
    /\ cache \in [GameServers -> Objects \cup {NoObject}]
    /\ resync \in BOOLEAN
    /\ syncing \in [GameServers -> Objects \cup {NoObject}]
    /\ pendingRequests \in Seq(Requests) /\ Len(pendingRequests) <= MaxBatchQueue
    /\ listener \in [req : Requests \cup {None}, batch : BOOLEAN,
                     list : [GameServers -> Objects \cup {NoObject}],
                     requestCount : 0..MaxBatchBeforeRefresh, sortKey : Nat]
    /\ task \in [Requests -> {NoTask} \cup [pc : {"update", "add"}, name : GameServers, gs : Objects]]
    /\ response \in [Requests -> {None} \cup Errors \cup GameServers]
    /\ client \in [Requests -> [pc : {"start", "send", "wait", "done"}, tries : 0..Steps,
                               answer : Answers]]
    /\ cancelled \subseteq Requests
    /\ changes \in 0..MaxChanges /\ faults \in 0..MaxFaults

Init ==
    /\ gameServer \in [GameServers -> {NewObject(s) : s \in States \ {"Gone"}}]
    /\ informer = [g \in GameServers |-> <<gameServer[g]>>]
    /\ cache = [g \in GameServers |-> IF Allocatable(gameServer[g]) THEN gameServer[g] ELSE NoObject]
    /\ resync = FALSE
    /\ syncing = NothingCached
    /\ pendingRequests = <<>>
    /\ listener = [req |-> None, batch |-> FALSE, list |-> NothingCached, requestCount |-> 0,
                   sortKey |-> 0]
    /\ task = [r \in Requests |-> NoTask]
    /\ response = [r \in Requests |-> None]
    /\ client = [r \in Requests |-> [pc |-> "start", tries |-> 0, answer |-> None]]
    /\ cancelled = {}
    /\ changes = 0 /\ faults = 0

Fault == faults < MaxFaults /\ faults' = faults + 1

-----------------------------------------------------------------------------
(* gameServerCache.                                                        *)

\* A value is not replaced by one of an older generation, or by itself.
Stored(c, g, gs) ==
    IF c[g] # NoObject /\ (gs.generation < c[g].generation
                         \/ gs.resourceVersion = c[g].resourceVersion)
    THEN c ELSE [c EXCEPT ![g] = gs]

Deleted(c, g) == [c EXCEPT ![g] = NoObject]

-----------------------------------------------------------------------------
(* The clients: allocateFromLocalCluster, Retry and allocate.              *)

\* The switch on the last error of Retry.
Answer(r, a, again) ==
    /\ client' = [client EXCEPT ![r].pc = "done", ![r].answer = a]
    /\ resync' = (resync \/ again)

\* allocate looks at the context only before it sends.
CheckContext(r) ==
    /\ client[r].pc = "start"
    /\ IF r \in cancelled THEN Answer(r, "Error", TRUE)
       ELSE client' = [client EXCEPT ![r].pc = "send"] /\ UNCHANGED resync
    /\ UNCHANGED <<server, informer, cache, syncing, queue, task, response, cancelled, faults>>

Send(r) ==
    /\ client[r].pc = "send" /\ Len(pendingRequests) < MaxBatchQueue
    /\ pendingRequests' = Append(pendingRequests, r)
    /\ client' = [client EXCEPT ![r].pc = "wait"]
    /\ UNCHANGED <<server, informer, caches, listener, task, response, cancelled, faults>>

\* Retry goes on after a conflict, while there are steps left.
Receive(r) ==
    LET res == response[r]
        tries == client[r].tries + 1
    IN
    /\ client[r].pc = "wait" /\ res # None
    /\ response' = [response EXCEPT ![r] = None]
    /\ \/ res \in GameServers /\ Answer(r, res, FALSE)
       \/ res = "NoGameServer" /\ Answer(r, "UnAllocated", FALSE)
       \/ res = "Timeout" /\ Answer(r, "Error", TRUE)
       \/ /\ res \in {"Conflict", "UpdateConflict"} /\ tries < Steps
          /\ client' = [client EXCEPT ![r].pc = "start", ![r].tries = tries]
          /\ UNCHANGED resync
       \/ res = "Conflict" /\ tries = Steps /\ Answer(r, "Contention", FALSE)
       \/ res = "UpdateConflict" /\ tries = Steps /\ Answer(r, "Error", TRUE)
    /\ UNCHANGED <<server, informer, cache, syncing, queue, task, cancelled, faults>>

GiveUp(r) ==
    /\ client[r].pc = "wait" /\ r \in cancelled
    /\ Answer(r, "Error", TRUE)
    /\ UNCHANGED <<server, informer, cache, syncing, queue, task, response, cancelled, faults>>

\* The deadline of the client, or it hangs up.
Cancel(r) ==
    /\ Fault
    /\ client[r].pc # "done"
    /\ cancelled' = cancelled \cup {r}
    /\ UNCHANGED <<server, informer, caches, queue, task, client, response>>

-----------------------------------------------------------------------------
(* ListenAndAllocate.                                                      *)

\* A mutant: one request too many.
ListIsOverfull == listener.requestCount > MaxBatchBeforeRefresh

ListIsFull == listener.requestCount >= MaxBatchBeforeRefresh

\* The list is taken anew when there is none, after MaxBatchBeforeRefresh
\* requests, and for a request that sorts differently.
TakeRequest ==
    LET r == Head(pendingRequests)
        key == IF listener.sortKey = 0 THEN Key[r] ELSE listener.sortKey
        fresh == ListIsFull \/ Key[r] # key \/ ~listener.batch
    IN
    /\ listener.req = None /\ pendingRequests # <<>>
    /\ pendingRequests' = Tail(pendingRequests)
    /\ IF r \in cancelled
       THEN /\ response' = [response EXCEPT ![r] = IF @ = None THEN "Timeout" ELSE @]
            /\ UNCHANGED listener
       ELSE /\ listener' =
                 [req |-> r, batch |-> TRUE, sortKey |-> Key[r],
                  list |-> IF fresh THEN cache ELSE listener.list,
                  requestCount |-> IF ListIsFull \/ Key[r] # key THEN 1
                                   ELSE listener.requestCount + 1]
            /\ UNCHANGED response
    /\ UNCHANGED <<server, informer, caches, task, client, cancelled, faults>>

\* findGameServerForAllocation: the first selector that has a match decides.
\* Which of its matches comes first depends on the nodes and on the names.
Candidates(r) ==
    LET matches(k) == {g \in GameServers : listener.list[g] # NoObject
                                             /\ listener.list[g].state = Selectors[r][k]}
        first == {k \in DOMAIN Selectors[r] :
                    matches(k) # {} /\ \A j \in 1..(k - 1) : matches(j) = {}}
    IN  UNION {matches(k) : k \in first}

\* A mutant: a candidate that left the cache is passed over without a word.
FindGameServerSilently ==
    LET r == listener.req IN
    /\ r # None
    /\ \E g \in Candidates(r) :
         /\ listener' = [listener EXCEPT !.req = None, !.list[g] = NoObject]
         /\ cache' = Deleted(cache, g)
         /\ IF cache[g] = NoObject THEN UNCHANGED task
            ELSE task' = [task EXCEPT ![r] =
                     [pc |-> "update", name |-> g, gs |-> listener.list[g]]]
    /\ UNCHANGED <<server, informer, resync, syncing, pendingRequests, clients, faults>>

\* The GameServer is removed from the list and from the cache, in whatever
\* version it is there, and handed to a worker.
FindGameServer ==
    LET r == listener.req IN
    /\ r # None
    /\ \E g \in Candidates(r) :
         /\ listener' = [listener EXCEPT !.req = None, !.list[g] = NoObject]
         /\ cache' = Deleted(cache, g)
         /\ IF cache[g] = NoObject
            THEN response' = [response EXCEPT ![r] = "Conflict"] /\ UNCHANGED task
            ELSE /\ task' = [task EXCEPT ![r] =
                       [pc |-> "update", name |-> g, gs |-> listener.list[g]]]
                 /\ UNCHANGED response
    /\ UNCHANGED <<server, informer, resync, syncing, pendingRequests, client, cancelled, faults>>

NoGameServer ==
    LET r == listener.req IN
    /\ r # None /\ Candidates(r) = {}
    /\ response' = [response EXCEPT ![r] = "NoGameServer"]
    /\ listener' = [listener EXCEPT !.req = None]
    /\ UNCHANGED <<server, informer, caches, pendingRequests, task, client, cancelled, faults>>

\* Nothing is pending: the batch ends.
EndBatch ==
    /\ listener.req = None /\ pendingRequests = <<>> /\ listener.batch
    /\ listener' = [listener EXCEPT !.batch = FALSE, !.list = NothingCached, !.requestCount = 0]
    /\ UNCHANGED <<server, informer, caches, pendingRequests, task, clients, faults>>

-----------------------------------------------------------------------------
(* The update workers, of which there are as many as requests can wait.    *)

\* The Update the API server makes of a version that is still the current one.
Applied(gs, r) ==
    [state |-> "Allocated", by |-> r, resourceVersion |-> gs.resourceVersion + 1,
     generation |-> IF gs.state = "Allocated" THEN gs.generation ELSE gs.generation + 1]

Current(r) ==
    /\ gameServer[task[r].name].state # "Gone"
    /\ gameServer[task[r].name].resourceVersion = task[r].gs.resourceVersion

UpdateAccepted(r) ==
    LET new == Applied(task[r].gs, r) IN
    /\ task[r].pc = "update" /\ Current(r)
    /\ gameServer' = [gameServer EXCEPT ![task[r].name] = new]
    /\ task' = [task EXCEPT ![r].pc = "add", ![r].gs = new]
    /\ UNCHANGED <<informer, caches, queue, clients, changes, faults>>

\* A mutant: after a conflict the update is tried again on what is there now.
UpdateAgain(r) ==
    /\ task[r].pc = "update" /\ ~Current(r) /\ gameServer[task[r].name].state # "Gone"
    /\ task' = [task EXCEPT ![r].gs = gameServer[task[r].name]]
    /\ UNCHANGED <<server, informer, caches, queue, clients, faults>>

\* A conflict: the GameServer is left to the informer.  Any other error: what the
\* client library returned with it is an empty object, and adding that to the
\* cache puts nothing back.
UpdateRefused(r) ==
    /\ task[r].pc = "update" /\ ~Current(r)
    /\ task' = [task EXCEPT ![r] = NoTask]
    /\ response' = [response EXCEPT ![r] = "UpdateConflict"]
    /\ UNCHANGED <<server, informer, caches, queue, client, cancelled, faults>>

\* The API server is not reached, or its answer is not.
UpdateFails(r) ==
    /\ Fault
    /\ task[r].pc = "update"
    /\ \/ UNCHANGED gameServer
       \/ Current(r) /\ gameServer' = [gameServer EXCEPT ![task[r].name] = Applied(task[r].gs, r)]
    /\ task' = [task EXCEPT ![r] = NoTask]
    /\ response' = [response EXCEPT ![r] = "UpdateConflict"]
    /\ UNCHANGED <<informer, caches, queue, client, cancelled, changes>>

\* A mutant: the cache that knows the new version already counts as a conflict.
AddOrConflict(r) ==
    /\ task[r].pc = "add"
    /\ cache' = Stored(cache, task[r].name, task[r].gs)
    /\ response' = [response EXCEPT ![r] = IF cache' = cache THEN "UpdateConflict" ELSE task[r].name]
    /\ task' = [task EXCEPT ![r] = NoTask]
    /\ UNCHANGED <<server, informer, resync, syncing, queue, client, cancelled, faults>>

\* "put the GameServer back into the cache, so it's immediately around for
\* re-allocation", and respond.
AddGameServer(r) ==
    /\ task[r].pc = "add"
    /\ cache' = Stored(cache, task[r].name, task[r].gs)
    /\ response' = [response EXCEPT ![r] = task[r].name]
    /\ task' = [task EXCEPT ![r] = NoTask]
    /\ UNCHANGED <<server, informer, resync, syncing, queue, client, cancelled, faults>>

-----------------------------------------------------------------------------
(* The cache is kept up to date.                                           *)

\* The informer: first the lister sees a new version, some may be skipped, ...
Deliver(g) ==
    /\ Lister(g) # gameServer[g]
    /\ informer' = [informer EXCEPT ![g] = Append(@, gameServer[g])]
    /\ UNCHANGED <<server, caches, queue, task, clients, faults>>

\* ... later the event handler of the cache.
Handle(g) ==
    LET old == informer[g][1]
        new == informer[g][2]
    IN
    /\ Len(informer[g]) > 1
    /\ informer' = [informer EXCEPT ![g] = Tail(@)]
    /\ cache' = IF new.state \in {"Shutdown", "Gone"} THEN Deleted(cache, g)
                ELSE IF Allocatable(new) THEN Stored(cache, g, new)
                ELSE IF Allocatable(old) THEN Deleted(cache, g)
                ELSE cache
    /\ UNCHANGED <<server, resync, syncing, queue, task, clients, faults>>

\* A deletion that a relist finds is not a GameServer: it is ignored.
HandleTombstone(g) ==
    /\ Fault
    /\ Len(informer[g]) > 1 /\ informer[g][2].state = "Gone"
    /\ informer' = [informer EXCEPT ![g] = Tail(@)]
    /\ UNCHANGED <<server, caches, queue, task, clients>>

\* syncCache lists the GameServers, then compares them with the cache.
StartSync ==
    /\ resync /\ \A g \in GameServers : syncing[g] = NoObject
    /\ resync' = FALSE
    /\ syncing' = [g \in GameServers |-> Lister(g)]
    /\ UNCHANGED <<server, informer, cache, queue, task, clients, faults>>

SyncKey(g) ==
    /\ syncing[g] # NoObject
    /\ cache' = IF Allocatable(syncing[g]) THEN Stored(cache, g, syncing[g])
                ELSE Deleted(cache, g)
    /\ syncing' = [syncing EXCEPT ![g] = NoObject]
    /\ UNCHANGED <<server, informer, resync, queue, task, clients, faults>>

-----------------------------------------------------------------------------
(* Everybody else: the game server and its controllers, users, and the      *)
(* other replicas of the allocator.                                         *)

Moves == {<<"Reserved", "Ready">>, <<"Ready", "Reserved">>, <<"Allocated", "Reserved">>,
          <<"Reserved", "Shutdown">>, <<"Ready", "Shutdown">>, <<"Allocated", "Shutdown">>,
          <<"Shutdown", "Gone">>}

Change(g, new) ==
    /\ changes < MaxChanges /\ changes' = changes + 1
    /\ gameServer' = [gameServer EXCEPT ![g] = new]
    /\ UNCHANGED <<informer, caches, queue, task, clients, faults>>

Move(g) ==
    \E m \in Moves :
        /\ gameServer[g].state = m[1]
        /\ Change(g, [gameServer[g] EXCEPT !.state = m[2], !.generation = @ + 1,
                                           !.resourceVersion = @ + 1])

AllocatedElsewhere(g) ==
    /\ gameServer[g].state = "Ready"
    /\ Change(g, Applied(gameServer[g], Others))

\* Labels and annotations.
Edit(g) ==
    /\ gameServer[g].state # "Gone"
    /\ Change(g, [gameServer[g] EXCEPT !.resourceVersion = @ + 1])

-----------------------------------------------------------------------------
Client(r) == CheckContext(r) \/ Send(r) \/ Receive(r) \/ GiveUp(r)
ListenAndAllocate == TakeRequest \/ FindGameServer \/ NoGameServer \/ EndBatch
Worker(r) == UpdateAccepted(r) \/ UpdateRefused(r) \/ AddGameServer(r)
Informer(g) == Deliver(g) \/ Handle(g)
Sync == StartSync \/ \E g \in GameServers : SyncKey(g)

Next ==
    \/ \E r \in Requests : Client(r) \/ Worker(r) \/ UpdateFails(r) \/ Cancel(r)
    \/ ListenAndAllocate
    \/ \E g \in GameServers : Informer(g) \/ HandleTombstone(g)
    \/ Sync
    \/ \E g \in GameServers : Move(g) \/ AllocatedElsewhere(g) \/ Edit(g)

\* Goroutines that can run do run; nothing is assumed of the others.  A sender on a
\* full channel waits in line.
Fairness ==
    /\ \A r \in Requests : WF_vars(Client(r)) /\ WF_vars(Worker(r)) /\ SF_vars(Send(r))
    /\ WF_vars(ListenAndAllocate)
    /\ \A g \in GameServers : WF_vars(Informer(g))
    /\ WF_vars(Sync)

Spec == Init /\ [][Next]_vars
FairSpec == Spec /\ Fairness

-----------------------------------------------------------------------------
(* Properties.                                                             *)

\* However stale the list and the cache a candidate came from, a request only
\* ever takes a GameServer that is, at that moment, in a state it asked for: two
\* clients that want a Ready GameServer never get the same one.
TakenAsAsked ==
    [][\A g \in GameServers, r \in Requests :
          gameServer'[g] # gameServer[g] /\ gameServer'[g].by = r
              /\ gameServer'[g].state = "Allocated" /\ gameServer[g].by # r
            => \E k \in DOMAIN Selectors[r] : gameServer[g].state = Selectors[r][k]]_vars

\* A GameServer is not allocated in vain: unless a request failed or its client
\* gave up, the client that it was allocated for learns of it.
NothingAllocatedInVain ==
    \A g \in GameServers, r \in Requests :
        gameServer[g].state = "Allocated" /\ gameServer[g].by = r /\ faults = 0
          => \/ task[r].pc = "add" /\ task[r].name = g
             \/ response[r] = g \/ client[r].answer = g

\* Every client gets an answer, whatever happens to its candidates.
RequestsAreAnswered == \A r \in Requests : <>(client[r].pc = "done")

\* "since we could not allocate, we should put it back ... if it's a conflict ...
\* we should wait for it to get updated with fresh info" (allocator.go): a
\* GameServer that stays Ready is not lost to the cache.
ReadyIsAllocatable ==
    \A g \in GameServers :
        <>[](gameServer[g].state = "Ready") => []<>(cache[g] # NoObject)
=============================================================================
