----------------------------- MODULE SDKBatches -----------------------------
(***************************************************************************)
(* Counters, Lists and player tracking: the Node.js SDK's Beta and Alpha   *)
(* clients (sdks/nodejs/src), the SDK server's handlers, which collect     *)
(* what they accept in batches, and its worker, which writes the batches   *)
(* to the GameServer with optimistic JSON patches while the allocator      *)
(* changes the same values.  There is one Counter and one List.            *)
(***************************************************************************)
EXTENDS SDKMessages, FiniteSets, SequencesExt

CONSTANTS
    Requests,           \* the calls a game server may make, see Call below
    Slots,              \* the calls that can be under way at one time
    CounterKey, ListKey,
    InitialCounter, InitialList, InitialPlayers,
    MaxListCapacity,    \* GameServerListMaxCapacity
    Amounts, Capacities, Values,    \* what allocations add, limit and append or delete
    MaxCalls, MaxChanges, MaxFaults

Counters == [capacity : Nat, count : Nat]
Lists == [capacity : Nat, values : Seq(STRING)]
PlayerLists == [ids : Seq(STRING), capacity : Int]

CounterWithin(counter) == counter.count <= counter.capacity
ListWithin(list) == Len(list.values) <= list.capacity /\ IsInjective(list.values)

\* The API server sees to it that nothing is negative and that the values of a List are
\* different; whoever creates a GameServer, that it is within its capacities.
ASSUME SDKBatchesAssumption ==
    /\ MaxListCapacity \in Nat /\ Amounts \subseteq Int /\ Capacities \subseteq Nat
    /\ Values \subseteq STRING
    /\ MaxCalls \in Nat /\ MaxChanges \in Nat /\ MaxFaults \in Nat
    /\ InitialCounter \in Counters /\ CounterWithin(InitialCounter)
    /\ InitialList \in Lists /\ ListWithin(InitialList)
    /\ InitialPlayers \in PlayerLists

VARIABLES
    gameServer,         \* the GameServer in the API server
    cached,             \* the lister's copy
    gsCopy,             \* s.gsCopy: {} or what the last batch made of it
    gsCounterUpdates,   \* the batch of the Counter: {} or {batch}
    gsListUpdates,      \* the batch of the List: {} or {batch}
    gsConnectedPlayers, gsPlayerCapacity,
    aliased,            \* whether the lister's object has the slice gsConnectedPlayers
    workerqueue,        \* the operations to be done
    worker,             \* what its only worker is at
    calls,              \* [Slots -> the call that is under way]
    used                \* how many calls, changes and faults there have been

server == <<gsCopy, gsCounterUpdates, gsListUpdates>>
players == <<gsConnectedPlayers, gsPlayerCapacity, aliased>>
vars == <<gameServer, cached, server, players, workerqueue, worker, calls, used>>

Operations == {"updateCounters", "updateLists", "updateConnectedPlayers", "updatePlayerCapacity"}
\* aliased: whether gs and copy have the slice gsConnectedPlayers.
NoWork == [operation |-> "none", gs |-> {}, copy |-> {}, aliased |-> {}]
NoCall == [method |-> "none", wire |-> Blank, phase |-> "none", gs |-> {}, list |-> {}]
NoCounterUpdate == [capacitySet |-> {}, countSet |-> {}, diff |-> 0]
NoListUpdate == [capacitySet |-> {}, valuesToDelete |-> {}, valuesToAppend |-> <<>>]

Use(what, bound) == used[what] < bound /\ used' = [used EXCEPT ![what] = @ + 1]

-----------------------------------------------------------------------------
(* The client: each function of the SDK sends one request. *)

Call(method, message, blank) == [method |-> method, wire |-> Encode(message, blank)]

getCounter(key) ==
    Call("GetCounter", [GetCounterRequest EXCEPT !.name = key], GetCounterRequest)

updateCounterWith(update) ==
    Call("UpdateCounter",
         [UpdateCounterRequest EXCEPT !.counterupdaterequest = {Encode(update, CounterUpdateRequest)}],
         UpdateCounterRequest)
incrementCounter(key, amount) ==
    updateCounterWith([CounterUpdateRequest EXCEPT !.name = key, !.countdiff = amount])
decrementCounter(key, amount) ==
    updateCounterWith([CounterUpdateRequest EXCEPT !.name = key, !.countdiff = -amount])
setCounterCount(key, amount) ==
    updateCounterWith([CounterUpdateRequest EXCEPT !.name = key, !.count = {amount}])
setCounterCapacity(key, amount) ==
    updateCounterWith([CounterUpdateRequest EXCEPT !.name = key, !.capacity = {amount}])

getList(key) ==
    Call("GetList", [GetListRequest EXCEPT !.name = key], GetListRequest)

updateList(key, amount, mask) ==
    Call("UpdateList",
         [UpdateListRequest EXCEPT
             !.list = {Encode([List EXCEPT !.name = key, !.capacity = amount], List)},
             !.updateMask = {mask}],
         UpdateListRequest)
\* FieldMask takes the values of its fields in an array: of { Name: "capacity" } nothing is left.
setListCapacity(key, amount) == updateList(key, amount, FieldMask)
\* The Go SDK's.
SetListCapacity(key, amount) ==
    updateList(key, amount, [FieldMask EXCEPT !.paths = <<"capacity">>])
appendListValue(key, value) ==
    Call("AddListValue", [AddListValueRequest EXCEPT !.name = key, !.value = value], AddListValueRequest)
deleteListValue(key, value) ==
    Call("RemoveListValue", [RemoveListValueRequest EXCEPT !.name = key, !.value = value],
         RemoveListValueRequest)

playerConnect(id) == Call("PlayerConnect", [PlayerID EXCEPT !.playerid = id], PlayerID)
playerDisconnect(id) == Call("PlayerDisconnect", [PlayerID EXCEPT !.playerid = id], PlayerID)
setPlayerCapacity(capacity) == Call("SetPlayerCapacity", [Count EXCEPT !.count = capacity], Count)

BlankOf == [GetCounter |-> GetCounterRequest, UpdateCounter |-> UpdateCounterRequest,
            GetList |-> GetListRequest, UpdateList |-> UpdateListRequest,
            AddListValue |-> AddListValueRequest, RemoveListValue |-> RemoveListValueRequest,
            PlayerConnect |-> PlayerID, PlayerDisconnect |-> PlayerID, SetPlayerCapacity |-> Count]

CounterUpdateOf(in) == Decode(Or(in.counterupdaterequest, Blank), CounterUpdateRequest)
ListOfRequest(in) == Decode(Or(in.list, Blank), List)

\* The fields have the types that the .proto files give them.
HasItsTypes(method, in) ==
    /\ method = "UpdateCounter" =>
          LET update == CounterUpdateOf(in)
          IN  /\ update.countdiff \in Int
              /\ \A wrapper \in {update.count, update.capacity} :
                    wrapper = {} \/ \E n \in wrapper : n \in Int /\ wrapper = {n}
    /\ method = "UpdateList" => ListOfRequest(in).values \in Seq(STRING)
    /\ method = "AddListValue" => in.value \in STRING
    /\ method = "PlayerConnect" => in.playerid \in STRING
    /\ method = "SetPlayerCapacity" => in.count \in Int

ASSUME RequestsAssumption ==
    \A request \in Requests :
        /\ request.method \in DOMAIN BlankOf
        /\ HasItsTypes(request.method, Decode(request.wire, BlankOf[request.method]))

Send(s, request) ==
    /\ calls[s].phase = "none"
    /\ Use("calls", MaxCalls)
    /\ calls' = [calls EXCEPT ![s] = [NoCall EXCEPT !.method = request.method, !.wire = request.wire,
                                                    !.phase = "sent"]]
    /\ UNCHANGED <<gameServer, cached, server, players, workerqueue, worker>>

\* The message a handler is called with.
In(s) == Decode(calls[s].wire, BlankOf[calls[s].method])
\* The promise of the call is settled.  What with is not kept: a call was accepted when
\* it changed a batch, and what a read answers is CounterIn and ListIn.
Settle(s) == calls' = [calls EXCEPT ![s] = NoCall]

-----------------------------------------------------------------------------
(* What the SDK server holds. *)

\* A mutant: what the last batch made of the GameServer is not kept.
OnlyTheLister == cached

\* gameServer(): what the last batch made of the GameServer, until the lister has it.
LatestGameServer ==
    IF gsCopy # {} /\ cached.generation < Or(gsCopy, cached).generation THEN Or(gsCopy, cached) ELSE cached

\* A mutant: nothing keeps a count from falling below zero.
ClampAbove(count, capacity) == IF count > capacity THEN capacity ELSE count

Clamp(count, capacity) == IF count < 0 THEN 0 ELSE IF count > capacity THEN capacity ELSE count

deleteValues(values, toDelete) ==
    FoldLeft(LAMBDA kept, v : IF v \in toDelete THEN kept ELSE Append(kept, v), <<>>, values)
MergeRemoveDuplicates(list1, list2) ==
    FoldLeft(LAMBDA unique, v : IF Contains(unique, v) THEN unique ELSE Append(unique, v),
             <<>>, list1 \o list2)
\* A mutant: a List may outgrow its capacity.
Uncut(values, capacity) == values

Truncated(values, capacity) == IF Len(values) > capacity THEN SubSeq(values, 1, capacity) ELSE values

\* GetCounter and GetList: the GameServer with what is batched applied to it.
CounterIn(gs) ==
    IF gsCounterUpdates = {} THEN gs.counter
    ELSE LET update == Or(gsCounterUpdates, NoCounterUpdate)
             capacity == Or(update.capacitySet, gs.counter.capacity)
         IN  [capacity |-> capacity,
              count |-> Clamp(Or(update.countSet, gs.counter.count) + update.diff, capacity)]

ListIn(gs) ==
    IF gsListUpdates = {} THEN gs.list
    ELSE LET update == Or(gsListUpdates, NoListUpdate)
             capacity == Or(update.capacitySet, gs.list.capacity)
             kept == deleteValues(gs.list.values, update.valuesToDelete)
             merged == IF update.valuesToAppend = <<>> THEN kept
                       ELSE MergeRemoveDuplicates(kept, update.valuesToAppend)
         IN  [capacity |-> capacity, values |-> Truncated(merged, capacity)]

-----------------------------------------------------------------------------
(* The handlers.  All but those of the players first fetch the GameServer,  *)
(* without s.gsUpdateMutex, and only then take the lock.                    *)

Enqueue(operation) == workerqueue' = workerqueue \cup {operation}

WellFormed(s) ==
    LET in == In(s)
        update == CounterUpdateOf(in)
        list == ListOfRequest(in)
    IN  /\ calls[s].method = "UpdateCounter" =>
              update.countdiff # 0 \/ update.count # {} \/ update.capacity # {}
        /\ calls[s].method = "UpdateList" =>
              in.list # {} /\ in.updateMask # {} /\ list.capacity \in 0..MaxListCapacity

Fetch(s) ==
    /\ calls[s].phase = "sent"
    /\ calls[s].method \notin {"PlayerConnect", "PlayerDisconnect", "SetPlayerCapacity"}
    /\ IF WellFormed(s)
          THEN calls' = [calls EXCEPT ![s].phase = "fetched", ![s].gs = {LatestGameServer}]
          ELSE Settle(s)
    /\ UNCHANGED <<gameServer, cached, server, players, workerqueue, worker, used>>

Fetched(s, method) == calls[s].phase = "fetched" /\ calls[s].method = method
GameServerOf(s) == Or(calls[s].gs, cached)

GetCounter(s) ==
    /\ Fetched(s, "GetCounter")
    /\ Settle(s)
    /\ UNCHANGED <<gameServer, cached, server, players, workerqueue, worker, used>>

\* The batch after an update, or {} when the update is out of range.  count is
\* compared with the capacity before it is cut down to it.
CounterBatch(batch, counter, update) ==
    LET capacitySet == IF update.capacity = {} THEN batch.capacitySet ELSE update.capacity
        capacity == Or(capacitySet, counter.capacity)
        setTo == [capacitySet |-> capacitySet,
                  countSet |-> IF update.count = {} THEN batch.countSet ELSE update.count,
                  diff |-> IF update.count = {} THEN batch.diff ELSE 0]
        count == Or(setTo.countSet, counter.count) + setTo.diff + update.countdiff
        inRange == /\ Or(update.capacity, 0) >= 0
                   /\ update.count # {} => Or(update.count, 0) \in 0..capacity
                   /\ update.countdiff # 0 => count \in 0..capacity
    IN  IF inRange THEN {[setTo EXCEPT !.diff = @ + update.countdiff]} ELSE {}

UpdateCounter(s) ==
    LET update == CounterUpdateOf(In(s))
        batch == CounterBatch(Or(gsCounterUpdates, NoCounterUpdate), GameServerOf(s).counter, update)
    IN  /\ Fetched(s, "UpdateCounter")
        /\ IF update.name = CounterKey /\ batch # {}
              THEN gsCounterUpdates' = batch /\ Enqueue("updateCounters")
              ELSE UNCHANGED <<gsCounterUpdates, workerqueue>>
        /\ Settle(s)
        /\ UNCHANGED <<gameServer, cached, gsCopy, gsListUpdates, players, worker, used>>

\* GetList, for a client and at the start of the handlers that change a List.
ListName(s) ==
    IF calls[s].method = "UpdateList" THEN ListOfRequest(In(s)).name ELSE In(s).name

GetList(s) ==
    /\ calls[s].phase = "fetched"
    /\ calls[s].method \in {"GetList", "UpdateList", "AddListValue", "RemoveListValue"}
    /\ ListName(s) = ListKey \/ calls[s].method # "UpdateList"
    /\ IF ListName(s) # ListKey \/ calls[s].method = "GetList"
          THEN Settle(s)
          ELSE calls' = [calls EXCEPT ![s].phase = "listed", ![s].gs = {},
                                      ![s].list = {ListIn(GameServerOf(s))}]
    /\ UNCHANGED <<gameServer, cached, server, players, workerqueue, worker, used>>

Listed(s, method) == calls[s].phase = "listed" /\ calls[s].method = method
ListOf(s) == Or(calls[s].list, cached.list)
SetListBatch(batch) == gsListUpdates' = {batch} /\ Enqueue("updateLists")

UpdateList(s) ==
    LET in == In(s)
        list == ListOfRequest(in)
        masked(path) == Contains(Or(in.updateMask, FieldMask).paths, path)
        \* The batch that was there is replaced.
        capacity == IF masked("capacity") THEN {list.capacity} ELSE {}
        toDelete == IF masked("values") THEN ToSet(ListOf(s).values) \ ToSet(list.values) ELSE {}
        toAppend == IF masked("values") THEN deleteValues(list.values, ToSet(ListOf(s).values)) ELSE <<>>
    IN  /\ Listed(s, "UpdateList")
        /\ SetListBatch([capacitySet |-> capacity, valuesToDelete |-> toDelete,
                         valuesToAppend |-> toAppend])
        /\ Settle(s)
        /\ UNCHANGED <<gameServer, cached, gsCopy, gsCounterUpdates, players, worker, used>>

AddListValue(s) ==
    LET value == In(s).value
        batch == Or(gsListUpdates, NoListUpdate)
    IN  /\ Listed(s, "AddListValue")
        /\ IF Len(ListOf(s).values) < ListOf(s).capacity /\ ~Contains(ListOf(s).values, value)
              THEN SetListBatch([batch EXCEPT !.valuesToAppend = Append(@, value)])
              ELSE UNCHANGED <<gsListUpdates, workerqueue>>
        /\ Settle(s)
        /\ UNCHANGED <<gameServer, cached, gsCopy, gsCounterUpdates, players, worker, used>>

\* A value that is still to be appended is only taken out of the batch.
RemoveListValue(s) ==
    LET value == In(s).value
        batch == Or(gsListUpdates, NoListUpdate)
    IN  /\ Listed(s, "RemoveListValue")
        /\ IF Contains(batch.valuesToAppend, value)
              THEN SetListBatch([batch EXCEPT !.valuesToAppend = deleteValues(@, {value})])
            ELSE IF Contains(ListOf(s).values, value)
              THEN SetListBatch([batch EXCEPT !.valuesToDelete = @ \cup {value}])
            ELSE UNCHANGED <<gsListUpdates, workerqueue>>
        /\ Settle(s)
        /\ UNCHANGED <<gameServer, cached, gsCopy, gsCounterUpdates, players, worker, used>>

Called(s, method) == calls[s].phase = "sent" /\ calls[s].method = method

\* The elements of the slice are written in place: whatever else has it sees them change,
\* and keeps the length it had.
Seeing(gs, slice) ==
    [gs EXCEPT !.players.ids =
        [i \in DOMAIN @ |-> IF i \in DOMAIN slice THEN slice[i] ELSE @[i]]]
SeenBy(what, slice) ==
    {IF what \in worker.aliased THEN Seeing(gs, slice) ELSE gs : gs \in worker[what]}
WriteInPlace(slice) ==
    /\ cached' = IF aliased THEN Seeing(cached, slice) ELSE cached
    /\ worker' = [worker EXCEPT !.gs = SeenBy("gs", slice), !.copy = SeenBy("copy", slice)]
    /\ UNCHANGED aliased

\* What has the slice, and has it longer: then there is room behind its end.
Aliases ==
    (IF aliased THEN {cached} ELSE {}) \cup UNION {worker[what] : what \in worker.aliased}
HasRoom == \E gs \in Aliases : Len(gs.players.ids) > Len(gsConnectedPlayers)

\* append; how much room there is otherwise is up to the JSON decoder.
Join(id) ==
    /\ gsConnectedPlayers' = Append(gsConnectedPlayers, id)
    /\ \/ WriteInPlace(Append(gsConnectedPlayers, id))
       \/ ~HasRoom /\ aliased' = FALSE /\ worker' = [worker EXCEPT !.aliased = {}] /\ UNCHANGED cached

PlayerConnect(s) ==
    LET id == In(s).playerid
    IN  /\ Called(s, "PlayerConnect")
        /\ IF Contains(gsConnectedPlayers, id) \/ Len(gsConnectedPlayers) >= gsPlayerCapacity
              THEN UNCHANGED <<gsConnectedPlayers, aliased, cached, worker, workerqueue>>
              ELSE Join(id) /\ Enqueue("updateConnectedPlayers")
        /\ Settle(s)
        /\ UNCHANGED <<gameServer, server, gsPlayerCapacity, used>>

\* What comes after the player moves up by one, and the last is there twice.
Leave(id) ==
    \E i \in DOMAIN gsConnectedPlayers :
        LET others == RemoveAt(gsConnectedPlayers, i)
        IN  /\ gsConnectedPlayers[i] = id /\ \A j \in 1..(i - 1) : gsConnectedPlayers[j] # id
            /\ gsConnectedPlayers' = others
            /\ WriteInPlace(Append(others, gsConnectedPlayers[Len(gsConnectedPlayers)]))

\* A mutant: a player who leaves is reported with the next one who comes.
DisconnectQuietly(s) ==
    LET id == In(s).playerid
    IN  /\ Called(s, "PlayerDisconnect")
        /\ IF Contains(gsConnectedPlayers, id)
              THEN Leave(id)
              ELSE UNCHANGED <<gsConnectedPlayers, aliased, cached, worker>>
        /\ Settle(s)
        /\ UNCHANGED <<gameServer, server, gsPlayerCapacity, workerqueue, used>>

PlayerDisconnect(s) ==
    LET id == In(s).playerid
    IN  /\ Called(s, "PlayerDisconnect")
        /\ IF Contains(gsConnectedPlayers, id)
              THEN Leave(id) /\ Enqueue("updateConnectedPlayers")
              ELSE UNCHANGED <<gsConnectedPlayers, aliased, cached, worker, workerqueue>>
        /\ Settle(s)
        /\ UNCHANGED <<gameServer, server, gsPlayerCapacity, used>>

SetPlayerCapacity(s) ==
    /\ Called(s, "SetPlayerCapacity")
    /\ gsPlayerCapacity' = In(s).count
    /\ Enqueue("updatePlayerCapacity")
    /\ Settle(s)
    /\ UNCHANGED <<gameServer, cached, server, gsConnectedPlayers, aliased, worker, used>>

-----------------------------------------------------------------------------
(* The worker: syncGameServer, which fetches the GameServer and writes a    *)
(* changed copy of it; the patch tests the resourceVersion of the former.   *)

StartWork(operation) ==
    /\ worker = NoWork
    /\ operation \in workerqueue
    /\ workerqueue' = workerqueue \ {operation}
    /\ worker' = [NoWork EXCEPT !.operation = operation, !.gs = {LatestGameServer},
                                !.aliased = IF aliased /\ LatestGameServer = cached THEN {"gs"} ELSE {}]
    /\ UNCHANGED <<gameServer, cached, server, players, calls, used>>

\* A patch names the positions at which the ids of gs and of copy differ; the others stay.
Patched(gs, copy) ==
    LET old == gs.players.ids
        stored == gameServer.players.ids
        named(i) == i \notin DOMAIN old \/ old[i] # copy.players.ids[i]
    IN  [copy EXCEPT !.players.ids =
            [i \in DOMAIN @ |-> IF named(i) \/ i \notin DOMAIN stored THEN @[i] ELSE stored[i]]]
Applied(gs, copy) ==
    gameServer' = IF Patched(gs, copy) = gameServer THEN gameServer
                  ELSE [Patched(gs, copy) EXCEPT !.generation = @ + 1]

\* A mutant: the patch does not test the resourceVersion.
NoTest(copy) == TRUE

PatchTests(copy) == copy.generation = gameServer.generation
patchGameServer(gs, copy) == PatchTests(copy) /\ Applied(gs, copy) /\ UNCHANGED used

\* A conflict, a failed request, an answer that is lost after the patch was applied.
PatchFails(gs, copy) ==
    \/ ~PatchTests(copy) /\ UNCHANGED <<gameServer, used>>
    \/ Use("faults", MaxFaults) /\ UNCHANGED gameServer
    \/ Use("faults", MaxFaults) /\ PatchTests(copy) /\ Applied(gs, copy)

\* A mutant: an operation that failed is forgotten.
GiveUp == UNCHANGED workerqueue

TryAgain == Enqueue(worker.operation)
GameServerOfWorker == Or(worker.gs, cached)

\* updateCounter and updateList hold the lock from here to the end of the patch.
BatchedCounter(counter) ==
    LET update == Or(gsCounterUpdates, NoCounterUpdate)
        capacity == Or(update.capacitySet, counter.capacity)
        newCnt == Or(update.countSet, counter.count) + update.diff
    IN  [capacity |-> capacity, count |-> Clamp(newCnt, capacity)]

updateCounter ==
    LET gs == GameServerOfWorker
        copy == [gs EXCEPT !.counter = BatchedCounter(gs.counter)]
    IN  /\ worker.operation = "updateCounters"
        /\ \/ patchGameServer(gs, copy) /\ gsCopy' = {gameServer'} /\ gsCounterUpdates' = {}
              /\ UNCHANGED workerqueue
           \/ PatchFails(gs, copy) /\ TryAgain /\ UNCHANGED <<gsCopy, gsCounterUpdates>>
        /\ worker' = NoWork
        /\ UNCHANGED <<cached, gsListUpdates, players, calls>>

BatchedList(list) ==
    LET update == Or(gsListUpdates, NoListUpdate)
        capacity == Or(update.capacitySet, list.capacity)
        kept == deleteValues(list.values, update.valuesToDelete)
        merged == IF update.valuesToAppend = <<>> THEN kept
                  ELSE MergeRemoveDuplicates(kept, update.valuesToAppend)
    IN  [capacity |-> capacity, values |-> Truncated(merged, capacity)]

updateLists ==
    LET gs == GameServerOfWorker
        copy == [gs EXCEPT !.list = BatchedList(gs.list)]
    IN  /\ worker.operation = "updateLists"
        /\ \/ patchGameServer(gs, copy) /\ gsCopy' = {gameServer'} /\ gsListUpdates' = {}
              /\ UNCHANGED workerqueue
           \/ PatchFails(gs, copy) /\ TryAgain /\ UNCHANGED <<gsCopy, gsListUpdates>>
        /\ worker' = NoWork
        /\ UNCHANGED <<cached, gsCounterUpdates, players, calls>>

\* The slice of the players is taken under the lock, and patched without it.
CopyPlayers ==
    LET gs == GameServerOfWorker
        same == gs.players.ids = gsConnectedPlayers
    IN  /\ worker.copy = {}
        /\ worker' = CASE worker.operation = "updatePlayerCapacity" ->
                              [worker EXCEPT !.copy = {[gs EXCEPT !.players.capacity = gsPlayerCapacity]}]
                       [] worker.operation = "updateConnectedPlayers" ->
                              IF same THEN NoWork
                              ELSE [worker EXCEPT !.copy = {[gs EXCEPT !.players.ids = gsConnectedPlayers]},
                                                 !.aliased = @ \cup {"copy"}]
        /\ UNCHANGED <<gameServer, cached, server, players, workerqueue, calls, used>>

PatchPlayers ==
    LET gs == GameServerOfWorker
        copy == Or(worker.copy, cached)
    IN  /\ worker.copy # {}
        /\ \/ patchGameServer(gs, copy) /\ UNCHANGED workerqueue
           \/ PatchFails(gs, copy) /\ TryAgain
        /\ worker' = NoWork
        /\ UNCHANGED <<cached, server, players, calls>>

Work ==
    \/ updateCounter
    \/ updateLists
    \/ worker.operation \in {"updatePlayerCapacity", "updateConnectedPlayers"} /\ CopyPlayers
    \/ PatchPlayers

-----------------------------------------------------------------------------
(* The rest of the world. *)

\* The informer; versions that were overtaken are not shown one by one.  A relist replaces
\* an object by one of the same version.
Sync ==
    /\ aliased \/ cached # gameServer
    /\ cached' = gameServer
    /\ aliased' = FALSE
    /\ UNCHANGED <<gameServer, server, gsConnectedPlayers, gsPlayerCapacity, workerqueue, worker,
                   calls, used>>

\* An allocation with counter and list actions, which cut to the capacity as well.
UpdateCount(amount) ==
    [gameServer EXCEPT !.counter.count = Clamp(@ + amount, gameServer.counter.capacity)]
UpdateCounterCapacity(capacity) ==
    [gameServer EXCEPT !.counter = [capacity |-> capacity, count |-> Clamp(@.count, capacity)]]
UpdateListCapacity(capacity) ==
    [gameServer EXCEPT !.list = [capacity |-> capacity, values |-> Truncated(@.values, capacity)]]
AppendListValues(values) ==
    [gameServer EXCEPT !.list.values =
        Truncated(MergeRemoveDuplicates(@, values), gameServer.list.capacity)]
DeleteListValues(values) ==
    [gameServer EXCEPT !.list.values = deleteValues(@, values)]

Change(changed) ==
    /\ Use("changes", MaxChanges)
    /\ gameServer' = [changed EXCEPT !.generation = @ + 1]
    /\ UNCHANGED <<cached, server, players, workerqueue, worker, calls>>

\* The SDK server stops and is started again: Run waits for the lister and takes
\* the slice of the players from its object; what was batched is gone.
Restarts ==
    /\ cached' = gameServer
    /\ gsCopy' = {} /\ gsCounterUpdates' = {} /\ gsListUpdates' = {}
    /\ gsConnectedPlayers' = gameServer.players.ids
    /\ gsPlayerCapacity' = gameServer.players.capacity
    /\ aliased' = (gameServer.players.ids # <<>>)
    /\ workerqueue' = {}
    /\ worker' = NoWork
    /\ calls' = [s \in Slots |-> NoCall]
    /\ UNCHANGED gameServer

Crash == Use("faults", MaxFaults) /\ Restarts

\* UpdateList takes the name of the List that was not found: a nil dereference.
UpdateUnknownList(s) ==
    /\ Fetched(s, "UpdateList")
    /\ ListName(s) # ListKey
    /\ Restarts
    /\ UNCHANGED used

-----------------------------------------------------------------------------
Init ==
    /\ gameServer = [generation |-> 1, counter |-> InitialCounter, list |-> InitialList,
                     players |-> InitialPlayers]
    /\ cached = gameServer
    /\ gsCopy = {} /\ gsCounterUpdates = {} /\ gsListUpdates = {}
    /\ gsConnectedPlayers = InitialPlayers.ids /\ gsPlayerCapacity = InitialPlayers.capacity
    /\ aliased = (InitialPlayers.ids # <<>>)
    /\ workerqueue = {}
    /\ worker = NoWork
    /\ calls = [s \in Slots |-> NoCall]
    /\ used = [calls |-> 0, changes |-> 0, faults |-> 0]

Handle(s) ==
    \/ Fetch(s)
    \/ GetCounter(s) \/ UpdateCounter(s)
    \/ GetList(s) \/ UpdateList(s) \/ UpdateUnknownList(s) \/ AddListValue(s) \/ RemoveListValue(s)
    \/ PlayerConnect(s) \/ PlayerDisconnect(s) \/ SetPlayerCapacity(s)

Next ==
    \/ \E s \in Slots : (\E request \in Requests : Send(s, request)) \/ Handle(s)
    \/ \E operation \in workerqueue : StartWork(operation)
    \/ Work
    \/ Sync
    \/ \E amount \in Amounts : Change(UpdateCount(amount))
    \/ \E capacity \in Capacities :
          Change(UpdateCounterCapacity(capacity)) \/ Change(UpdateListCapacity(capacity))
    \/ \E value \in Values :
          Change(AppendListValues(<<value>>)) \/ Change(DeleteListValues({value}))
    \/ Crash

\* The worker goes on, a call that was made is handled, and the lister follows.
Spec ==
    /\ Init /\ [][Next]_vars
    /\ WF_vars(Work \/ \E operation \in workerqueue : StartWork(operation))
    /\ WF_vars(\E s \in Slots : Handle(s))
    /\ WF_vars(Sync /\ cached.generation # gameServer.generation)

-----------------------------------------------------------------------------
GameServers == [generation : Nat, counter : Counters, list : Lists, players : PlayerLists]
AtMostOne(set) == Cardinality(set) <= 1

\* Every variable stays in its range, there is at most one of what is optional, and
\* only the handlers and operations of the code are ever at work.
TypeOK ==
    /\ gameServer \in GameServers /\ cached \in GameServers
    /\ AtMostOne(gsCopy) /\ gsCopy \subseteq GameServers
    /\ AtMostOne(gsCounterUpdates) /\ AtMostOne(gsListUpdates)
    /\ \A u \in gsCounterUpdates :
          /\ u.diff \in Int /\ AtMostOne(u.capacitySet) /\ AtMostOne(u.countSet)
          /\ u.capacitySet \subseteq Nat /\ u.countSet \subseteq Nat
    /\ \A u \in gsListUpdates :
          AtMostOne(u.capacitySet) /\ u.capacitySet \subseteq 0..MaxListCapacity
    /\ workerqueue \subseteq Operations
    /\ worker.operation \in Operations \cup {"none"} /\ AtMostOne(worker.gs) /\ AtMostOne(worker.copy)
    /\ worker.aliased \subseteq {"gs", "copy"} /\ aliased \in BOOLEAN
    /\ \A s \in Slots : calls[s].phase \in {"none", "sent", "fetched", "listed"}
    /\ used \in [{"calls", "changes", "faults"} -> Nat]

\* Whatever the allocator, the SDK and a batch that was validated against an older
\* GameServer do to it, the GameServer never holds more than the capacity of its
\* Counter and its List, never a negative count, and no value twice (updateCounter
\* and updateList cut what they write, sdkserver.go:1050 and 1361).
WithinCapacity ==
    /\ gameServer.counter.count \in 0..gameServer.counter.capacity
    /\ ListWithin(gameServer.list)

\* A batch that reaches the GameServer is applied to what the GameServer holds at that
\* moment: a change of the allocator that the lister has not shown yet is never undone
\* (the resourceVersion test of GameServer.Patch, gameserver.go:1002).
BatchesApplyToTheLatest ==
    [][Work => /\ gameServer'.counter \in {gameServer.counter, BatchedCounter(gameServer.counter)}
               /\ gameServer'.list \in {gameServer.list, BatchedList(gameServer.list)}
               /\ gameServer'.counter # gameServer.counter => gameServer'.list = gameServer.list]_vars

\* Writing a batch is invisible to the game server: what GetCounter and GetList report
\* before it (the lister's copy and the batch) is what they report after it (the
\* patched copy that is kept until the lister has it, sdkserver.go:1075 and 1382).
WritingIsInvisible ==
    [][Work => /\ CounterIn(LatestGameServer)' = CounterIn(LatestGameServer)
               /\ ListIn(LatestGameServer)' = ListIn(LatestGameServer)]_vars

\* What was accepted into a batch does not stay there: conflicts, failed requests and a
\* lister that is behind only delay it, and once the calls cease both batches get empty.
BatchesAreWritten == []<>(gsCounterUpdates = {} /\ gsListUpdates = {})

\* The worker has a GameServer with other players than the API server's, and its slice makes
\* it skip the update, or its version lets the patch by.
Misled ==
    \E gs \in worker.gs :
        /\ worker.operation = "updateConnectedPlayers"
        /\ gs.players.ids # gameServer.players.ids
        /\ gs.players.ids = gsConnectedPlayers \/ gs.generation = gameServer.generation

\* In the end the GameServer has the capacity that was set last and names the players that
\* the SDK server thinks connected, whatever conflicts, failures, restarts and calls during
\* an update there are - unless the worker once compared them with an object of the lister
\* that is behind in just the players, or whose slice the calls wrote to
\* (updateConnectedPlayers, sdkserver.go:1539; Run, sdkserver.go:277).
PlayersAreReported ==
    \/ <>[](/\ gameServer.players.ids = gsConnectedPlayers
            /\ gameServer.players.capacity = gsPlayerCapacity)
    \/ <>Misled

\* Count and IDs "are then set to update ... a second from now" (Client SDKs/_index.md:380):
\* in the end the GameServer names the players that are connected.
ConnectedPlayersEndUpInTheStatus == <>[](gameServer.players.ids = gsConnectedPlayers)

\* setListCapacity "sets the maximum capacity for the List" (Client SDKs/_index.md:337).
CapacityIsSet ==
    [][\A s \in Slots :
          Listed(s, "UpdateList") /\ UpdateList(s)
             => ListIn(LatestGameServer)'.capacity = ListOfRequest(In(s)).capacity]_vars

\* "Changes made and subsequently retrieved through the SDK will be atomically accurate"
\* (Client SDKs/_index.md:262): GetCounter answers with the GameServer and the batch
\* as they are.
ReadsAreAccurate ==
    [][\A s \in Slots :
          GetCounter(s) => CounterIn(GameServerOf(s)) = CounterIn(LatestGameServer)]_vars
=============================================================================
