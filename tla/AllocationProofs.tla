-------------------------- MODULE AllocationProofs --------------------------
(***************************************************************************)
(* An allocation takes what it was asked to take, and its client learns of *)
(* it.  Five places keep copies of a GameServer that may be out of date:   *)
(* what matters is that one with the current resourceVersion is the        *)
(* GameServer itself.                                                      *)
(***************************************************************************)
EXTENDS Allocation, SequenceTheorems, TLAPS

\* A copy of g: the GameServer as it is, or with an older version.
Known(g, gs) ==
    gs # NoObject =>
        /\ gs.resourceVersion <= gameServer[g].resourceVersion
        /\ gs.resourceVersion = gameServer[g].resourceVersion => gs = gameServer[g]

CopiesInv ==
    /\ \A g \in GameServers :
          /\ \A i \in DOMAIN informer[g] : Known(g, informer[g][i])
          /\ Known(g, cache[g]) /\ Known(g, syncing[g]) /\ Known(g, listener.list[g])
    /\ \A r \in Requests : task[r].pc # "idle" => Known(task[r].name, task[r].gs)

\* The parts of TypeOK.
ClientStates == [pc : {"start", "send", "wait", "done"}, tries : 0..Steps, answer : Answers]
TaskStates == {NoTask} \cup [pc : {"update", "add"}, name : GameServers, gs : Objects]
ListenerStates == [req : Requests \cup {None}, batch : BOOLEAN,
                   list : [GameServers -> Objects \cup {NoObject}],
                   requestCount : 0..MaxBatchBeforeRefresh, sortKey : Nat]

Asked(r, state) == \E k \in DOMAIN Selectors[r] : state = Selectors[r][k]

\* What a worker is about to allocate was in a state that was asked for.
AskedInv == \A r \in Requests : task[r].pc = "update" => Asked(r, task[r].gs.state)

IInv == TypeOK /\ CopiesInv /\ AskedInv

\* A request that waits is in one place at a time: the queue, the listener, a worker or its
\* response channel.
PlaceInv ==
    /\ \A i, j \in DOMAIN pendingRequests : pendingRequests[i] = pendingRequests[j] => i = j
    /\ \A i \in DOMAIN pendingRequests :
          LET r == pendingRequests[i] IN
          client[r].pc = "wait" /\ listener.req # r /\ task[r].pc = "idle" /\ response[r] = None
    /\ \A r \in Requests :
          /\ listener.req = r => client[r].pc = "wait" /\ task[r].pc = "idle" /\ response[r] = None
          /\ task[r].pc # "idle" => client[r].pc = "wait" /\ response[r] = None
          /\ response[r] # None => client[r].pc = "wait"
          /\ client[r].pc # "done" => client[r].answer = None

\* The client of an allocation learns of it.
LearnsInv ==
    \A g \in GameServers, r \in Requests :
        gameServer[g].state = "Allocated" /\ gameServer[g].by = r
          => \/ task[r].pc = "add" /\ task[r].name = g
             \/ response[r] = g \/ client[r].answer = g

NoFaults == faults = 0 => cancelled = {} /\ PlaceInv /\ LearnsInv

-----------------------------------------------------------------------------
(* Facts about versions.                                                   *)

LEMMA AppliedIsObject ==
    ASSUME NEW gs \in Objects, NEW r \in Requests \cup {Others}
    PROVE  /\ Applied(gs, r) \in Objects
           /\ Applied(gs, r).state = "Allocated" /\ Applied(gs, r).by = r
           /\ Applied(gs, r).resourceVersion = gs.resourceVersion + 1
BY DEF Applied, Objects, States

LEMMA MovedIsObject ==
    ASSUME NEW gs \in Objects, NEW s \in States
    PROVE  LET new == [gs EXCEPT !.state = s, !.generation = @ + 1, !.resourceVersion = @ + 1]
           IN  new \in Objects /\ new.state = s /\ new.resourceVersion = gs.resourceVersion + 1
<1>1. gs.generation + 1 \in Nat /\ gs.resourceVersion + 1 \in Nat
  BY DEF Objects
<1> QED BY <1>1 DEF Objects

LEMMA NothingIsNoObject == NoObject \notin Objects
<1>1. NoObject.state = "None"
  BY DEF NoObject
<1>2. \A gs \in Objects : gs.state # "None"
  BY DEF Objects, States
<1> QED BY <1>1, <1>2

LEMMA TailOfLonger ==
    ASSUME NEW S, NEW s \in Seq(S), Len(s) > 1
    PROVE  Tail(s) \in Seq(S) \ {<<>>}
<1>1. s # <<>>
  BY EmptySeq
<1> DEFINE rest == Tail(s)
<1>2. rest \in Seq(S) /\ Len(rest) = Len(s) - 1
  BY <1>1, HeadTailProperties
<1> HIDE DEF rest
<1>3. Len(rest) # 0
  BY <1>2, LenProperties
<1>4. rest # <<>>
  BY <1>3, EmptySeq, Zenon
<1> QED BY <1>2, <1>4 DEF rest

LEMMA StoredIsKnown ==
    ASSUME NEW g \in GameServers, NEW gs \in Objects \cup {NoObject},
           cache \in [GameServers -> Objects \cup {NoObject}],
           cache' = Stored(cache, g, gs) \/ cache' = Deleted(cache, g) \/ cache' = cache
    PROVE  /\ cache' \in [GameServers -> Objects \cup {NoObject}]
           /\ \A h \in GameServers : cache'[h] \in {cache[h], NoObject} \/ (h = g /\ cache'[h] = gs)
BY DEF Stored, Deleted

\* A step that keeps the GameServers keeps what is known of them.
LEMMA KnownStays ==
    ASSUME UNCHANGED gameServer
    PROVE  \A g, gs : Known(g, gs) => Known(g, gs)'
BY DEF Known

LEMMA NoObjectIsKnown == \A g : Known(g, NoObject)
BY DEF Known

\* A new version makes all copies old that were made before.
LEMMA KnownOfNewVersion ==
    ASSUME TypeOK, NEW h \in GameServers, NEW new \in Objects,
           new.resourceVersion = gameServer[h].resourceVersion + 1,
           gameServer' = [gameServer EXCEPT ![h] = new]
    PROVE  /\ gameServer' \in [GameServers -> Objects]
           /\ \A g \in GameServers : \A gs \in Objects \cup {NoObject} : Known(g, gs) => Known(g, gs)'
           /\ Known(h, new)'
<1>1. gameServer \in [GameServers -> Objects]
  BY DEF TypeOK
<1>2. \A gs \in Objects : gs.resourceVersion \in Nat
  BY DEF Objects
<1> QED BY <1>1, <1>2 DEF Known

-----------------------------------------------------------------------------
LEMMA InitInvariant == Init => IInv
<1> SUFFICES ASSUME Init PROVE IInv
  OBVIOUS
<1>1. gameServer \in [GameServers -> Objects]
  <2>1. \A s \in States : NewObject(s) \in Objects
    BY DEF NewObject, Objects
  <2> QED BY <2>1 DEF Init
<1>2. cache \in [GameServers -> Objects \cup {NoObject}] /\ NothingCached \in [GameServers -> Objects \cup {NoObject}]
  BY <1>1 DEF Init, NothingCached
<1>3. informer \in [GameServers -> Seq(Objects) \ {<<>>}]
  BY <1>1 DEF Init
<1>4. TypeOK
  <2>1. task \in [Requests -> TaskStates]
    BY DEF Init, TaskStates
  <2>2. response \in [Requests -> {None} \cup Errors \cup GameServers]
    BY DEF Init
  <2>3. client \in [Requests -> ClientStates]
    BY AllocationAssumption DEF Init, Answers, ClientStates
  <2>4. listener \in ListenerStates
    BY <1>2, AllocationAssumption DEF Init, ListenerStates
  <2>5. pendingRequests \in Seq(Requests) /\ Len(pendingRequests) <= MaxBatchQueue
    BY AllocationAssumption DEF Init
  <2>6. syncing \in [GameServers -> Objects \cup {NoObject}] /\ resync \in BOOLEAN
    BY <1>2 DEF Init
  <2>7. cancelled \subseteq Requests /\ changes \in 0..MaxChanges /\ faults \in 0..MaxFaults
    BY AllocationAssumption DEF Init
  <2> QED BY <1>1, <1>2, <1>3, <2>1, <2>2, <2>3, <2>4, <2>5, <2>6, <2>7
      DEF TypeOK, ClientStates, TaskStates, ListenerStates
<1>5. CopiesInv
  <2>1. ASSUME NEW g \in GameServers
        PROVE  /\ \A i \in DOMAIN informer[g] : Known(g, informer[g][i])
               /\ Known(g, cache[g]) /\ Known(g, syncing[g]) /\ Known(g, listener.list[g])
    <3>1. \A gs \in {gameServer[g], NoObject} : Known(g, gs)
      BY <1>1 DEF Known, Objects
    <3> QED BY <3>1 DEF Init, NothingCached
  <2>2. \A r \in Requests : task[r].pc = "idle"
    BY DEF Init, NoTask
  <2> QED BY <2>1, <2>2 DEF CopiesInv
<1>6. AskedInv
  <2>1. \A r \in Requests : task[r].pc = "idle"
    BY DEF Init, NoTask
  <2> QED BY <2>1 DEF AskedInv
<1> QED BY <1>4, <1>5, <1>6 DEF IInv

\* While the GameServers stay, it is enough that copies are made of copies.
LEMMA SameServer ==
    ASSUME UNCHANGED gameServer,
           \A g \in GameServers :
              /\ \A i \in DOMAIN informer'[g] : Known(g, informer'[g][i])
              /\ Known(g, cache'[g]) /\ Known(g, syncing'[g]) /\ Known(g, listener'.list[g]),
           \A r \in Requests : task'[r].pc # "idle" => Known(task'[r].name, task'[r].gs)
    PROVE  CopiesInv'
BY DEF CopiesInv, Known

-----------------------------------------------------------------------------
(* The clients.                                                            *)

LEMMA CopiesUntouched ==
    ASSUME CopiesInv, AskedInv, UNCHANGED <<gameServer, informer, cache, syncing, listener, task>>
    PROVE  CopiesInv' /\ AskedInv'
<1>1. CopiesInv'
  BY SameServer DEF CopiesInv
<1>2. AskedInv'
  BY DEF AskedInv, Asked
<1> QED BY <1>1, <1>2

LEMMA ClientGoesOn ==
    ASSUME TypeOK, NEW r \in Requests, NEW pc \in {"send", "wait"},
           client' = [client EXCEPT ![r].pc = pc]
    PROVE  client' \in [Requests -> ClientStates]
<1>1. client \in [Requests -> ClientStates]
  BY DEF TypeOK, ClientStates
<1>2. [client[r] EXCEPT !.pc = pc] \in ClientStates
  BY <1>1 DEF ClientStates
<1> QED BY <1>1, <1>2

LEMMA ClientRetries ==
    ASSUME TypeOK, NEW r \in Requests, NEW tries \in 0..Steps,
           client' = [client EXCEPT ![r].pc = "start", ![r].tries = tries]
    PROVE  client' \in [Requests -> ClientStates]
<1>1. client \in [Requests -> ClientStates]
  BY DEF TypeOK, ClientStates
<1>2. [client[r] EXCEPT !.pc = "start", !.tries = tries] \in ClientStates
  BY <1>1 DEF ClientStates
<1>3. client' = [client EXCEPT ![r] = [client[r] EXCEPT !.pc = "start", !.tries = tries]]
  BY <1>1
<1> QED BY <1>1, <1>2, <1>3

LEMMA AnswerTyped ==
    ASSUME TypeOK, NEW r \in Requests, NEW a \in Answers, NEW again \in BOOLEAN, Answer(r, a, again)
    PROVE  /\ resync' \in BOOLEAN
           /\ client' \in [Requests -> ClientStates]
BY DEF Answer, TypeOK, ClientStates

LEMMA ClientKeeps ==
    ASSUME IInv, NEW r \in Requests, Client(r) \/ Cancel(r)
    PROVE  IInv'
<1> USE DEF IInv
<1>1. ASSUME CheckContext(r) PROVE TypeOK'
  <2>1. CASE r \in cancelled
    BY <1>1, <2>1, AnswerTyped DEF CheckContext, TypeOK, Answers, ClientStates, server, queue
  <2>2. CASE r \notin cancelled
    <3>1. client' \in [Requests -> ClientStates]
      BY <1>1, <2>2, ClientGoesOn DEF CheckContext
    <3> QED BY <1>1, <2>2, <3>1 DEF CheckContext, TypeOK, ClientStates, server, queue
  <2> QED BY <2>1, <2>2
<1>2. ASSUME Send(r) PROVE TypeOK'
  <2>1. client' \in [Requests -> ClientStates]
    BY <1>2, ClientGoesOn DEF Send
  <2>2. pendingRequests' \in Seq(Requests) /\ Len(pendingRequests') <= MaxBatchQueue
    BY <1>2, AllocationAssumption DEF Send, TypeOK
  <2> QED BY <1>2, <2>1, <2>2 DEF Send, TypeOK, ClientStates, server, caches
<1>3. ASSUME Receive(r) PROVE TypeOK'
  <2> DEFINE Typed == resync' \in BOOLEAN /\ client' \in [Requests -> ClientStates]
  <2>1. Typed
    <3>1. ASSUME client[r].tries + 1 < Steps,
                 client' = [client EXCEPT ![r].pc = "start", ![r].tries = client[r].tries + 1],
                 UNCHANGED resync
          PROVE  Typed
      <4>1. client[r].tries + 1 \in 0..Steps
        BY <3>1, AllocationAssumption DEF TypeOK
      <4>2. resync \in BOOLEAN
        BY DEF TypeOK
      <4> QED BY <3>1, <4>1, <4>2, ClientRetries
    <3>2. ASSUME NEW a \in Answers, NEW again \in BOOLEAN, Answer(r, a, again)
          PROVE  Typed
      BY <3>2, AnswerTyped
    <3>3. /\ "UnAllocated" \in Answers /\ "Contention" \in Answers /\ "Error" \in Answers
          /\ GameServers \subseteq Answers
      BY DEF Answers
    <3> QED BY <1>3, <3>1, <3>2, <3>3 DEF Receive
  <2>2. response' \in [Requests -> {None} \cup Errors \cup GameServers]
    BY <1>3 DEF Receive, TypeOK
  <2> QED BY <1>3, <2>1, <2>2 DEF Receive, TypeOK, ClientStates, server, queue
<1>4. ASSUME GiveUp(r) PROVE TypeOK'
  BY <1>4, AnswerTyped DEF GiveUp, TypeOK, Answers, ClientStates, server, queue
<1>5. ASSUME Cancel(r) PROVE TypeOK'
  BY <1>5, AllocationAssumption DEF Cancel, Fault, TypeOK, server, caches, queue
<1>6. UNCHANGED <<gameServer, informer, cache, syncing, listener, task>>
  BY DEF Client, CheckContext, Send, Receive, GiveUp, Cancel, server, caches, queue
<1> QED BY <1>1, <1>2, <1>3, <1>4, <1>5, <1>6, CopiesUntouched DEF Client

-----------------------------------------------------------------------------
(* ListenAndAllocate.                                                      *)

LEMMA ListenerKeeps ==
    ASSUME IInv, ListenAndAllocate
    PROVE  IInv'
<1> USE DEF IInv
<1>1. ASSUME TakeRequest PROVE IInv'
  <2> DEFINE r == Head(pendingRequests)
  <2>1. r \in Requests /\ pendingRequests' \in Seq(Requests) /\ Len(pendingRequests') <= MaxBatchQueue
    BY <1>1, AllocationAssumption DEF TakeRequest, TypeOK
  <2>2. Key[r] \in Nat /\ 1 \in 0..MaxBatchBeforeRefresh
    BY <2>1, AllocationAssumption
  <2>3. ~ListIsFull => listener.requestCount + 1 \in 0..MaxBatchBeforeRefresh
    BY AllocationAssumption DEF ListIsFull, TypeOK
  <2> HIDE DEF r
  <2>4. \/ listener' = listener
        \/ \E count \in 0..MaxBatchBeforeRefresh : \E list \in {cache, listener.list} :
              listener' = [req |-> r, batch |-> TRUE, sortKey |-> Key[r], list |-> list, requestCount |-> count]
    BY <1>1, <2>2, <2>3 DEF TakeRequest, r
  <2>5. listener' \in ListenerStates
    <3>1. cache \in [GameServers -> Objects \cup {NoObject}] /\ listener \in ListenerStates
      BY DEF TypeOK, ListenerStates
    <3>2. \A list \in {cache, listener.list} : list \in [GameServers -> Objects \cup {NoObject}]
      BY <3>1 DEF ListenerStates
    <3>3. ASSUME NEW count \in 0..MaxBatchBeforeRefresh, NEW list \in {cache, listener.list}
          PROVE  [req |-> r, batch |-> TRUE, sortKey |-> Key[r], list |-> list, requestCount |-> count]
                     \in ListenerStates
      BY <2>1, <2>2, <3>2 DEF ListenerStates
    <3> QED BY <2>4, <3>1, <3>3
  <2>6. response' \in [Requests -> {None} \cup Errors \cup GameServers]
    BY <1>1, <2>1 DEF TakeRequest, TypeOK, Errors
  <2>7. TypeOK'
    BY <1>1, <2>1, <2>5, <2>6 DEF TakeRequest, TypeOK, ListenerStates, server, caches
  <2>8. CopiesInv'
    BY <1>1, <2>4, SameServer DEF TakeRequest, CopiesInv, server, caches
  <2>9. AskedInv'
    BY <1>1 DEF TakeRequest, AskedInv, Asked
  <2> QED BY <2>7, <2>8, <2>9
<1>2. ASSUME FindGameServer PROVE IInv'
  <2> DEFINE r == listener.req
  <2>1. r \in Requests
    BY <1>2 DEF FindGameServer, TypeOK
  <2>2. PICK g \in Candidates(r) :
          /\ listener' = [listener EXCEPT !.req = None, !.list[g] = NoObject]
          /\ cache' = Deleted(cache, g)
          /\ \/ response' = [response EXCEPT ![r] = "Conflict"] /\ UNCHANGED task
             \/ /\ task' = [task EXCEPT ![r] = [pc |-> "update", name |-> g, gs |-> listener.list[g]]]
                /\ UNCHANGED response
    BY <1>2 DEF FindGameServer
  <2>3. g \in GameServers /\ listener.list[g] # NoObject /\ Asked(r, listener.list[g].state)
    BY DEF Candidates, Asked
  <2>4. listener.list[g] \in Objects
    BY <2>3 DEF TypeOK
  <2>5. /\ UNCHANGED <<server, informer, resync, syncing, pendingRequests, client, cancelled, faults>>
    BY <1>2 DEF FindGameServer
  <2> HIDE DEF r
  <2>6. /\ listener' \in ListenerStates
        /\ \A h \in GameServers : listener'.list[h] \in {listener.list[h], NoObject}
    BY <2>2, <2>3 DEF TypeOK, ListenerStates
  <2>7. /\ cache' \in [GameServers -> Objects \cup {NoObject}]
        /\ \A h \in GameServers : cache'[h] \in {cache[h], NoObject}
    BY <2>2, <2>3 DEF TypeOK, Deleted
  <2>8. /\ task' \in [Requests -> TaskStates]
        /\ response' \in [Requests -> {None} \cup Errors \cup GameServers]
    <3>1. task \in [Requests -> TaskStates]
      BY DEF TypeOK, TaskStates
    <3>2. [pc |-> "update", name |-> g, gs |-> listener.list[g]] \in TaskStates
      BY <2>3, <2>4 DEF TaskStates
    <3>3. response \in [Requests -> {None} \cup Errors \cup GameServers] /\ "Conflict" \in Errors
      BY DEF TypeOK, Errors
    <3> QED BY <2>1, <2>2, <3>1, <3>2, <3>3
  <2>9. TypeOK'
    BY <2>5, <2>6, <2>7, <2>8 DEF TypeOK, TaskStates, ListenerStates, server
  <2>10. \A q \in Requests : \/ task'[q] = task[q]
                             \/ q = r /\ task'[q] = [pc |-> "update", name |-> g, gs |-> listener.list[g]]
    BY <2>1, <2>2 DEF TypeOK
  <2>11. CopiesInv'
    BY <2>3, <2>5, <2>6, <2>7, <2>10, SameServer, NoObjectIsKnown DEF CopiesInv, server
  <2>12. AskedInv'
    BY <2>3, <2>10 DEF AskedInv, Asked
  <2> QED BY <2>9, <2>11, <2>12
<1>3. ASSUME NoGameServer PROVE IInv'
  <2>1. response' \in [Requests -> {None} \cup Errors \cup GameServers]
    BY <1>3 DEF NoGameServer, TypeOK, Errors
  <2>2. /\ listener' \in ListenerStates
        /\ listener'.list = listener.list
    BY <1>3 DEF NoGameServer, TypeOK, ListenerStates
  <2>3. TypeOK'
    BY <1>3, <2>1, <2>2 DEF NoGameServer, TypeOK, ListenerStates, server, caches
  <2>4. CopiesInv'
    BY <1>3, <2>2, SameServer DEF NoGameServer, CopiesInv, server, caches
  <2>5. AskedInv'
    BY <1>3 DEF NoGameServer, AskedInv, Asked
  <2> QED BY <2>3, <2>4, <2>5
<1>4. ASSUME EndBatch PROVE IInv'
  <2>1. NothingCached \in [GameServers -> Objects \cup {NoObject}]
    BY DEF NothingCached
  <2>2. /\ listener' \in ListenerStates
        /\ listener'.list = NothingCached
    <3>1. listener' = [listener EXCEPT !.batch = FALSE, !.list = NothingCached, !.requestCount = 0]
      BY <1>4 DEF EndBatch
    <3>2. listener \in ListenerStates /\ 0 \in 0..MaxBatchBeforeRefresh
      BY AllocationAssumption DEF TypeOK, ListenerStates
    <3> QED BY <2>1, <3>1, <3>2 DEF ListenerStates
  <2>3. TypeOK'
    BY <1>4, <2>2 DEF EndBatch, TypeOK, ListenerStates, server, caches, clients
  <2>4. CopiesInv'
    BY <1>4, <2>2, SameServer, NoObjectIsKnown DEF EndBatch, CopiesInv, server, caches, NothingCached
  <2>5. AskedInv'
    BY <1>4 DEF EndBatch, AskedInv, Asked
  <2> QED BY <2>3, <2>4, <2>5
<1> QED BY <1>1, <1>2, <1>3, <1>4 DEF ListenAndAllocate

-----------------------------------------------------------------------------
(* The workers.                                                            *)

\* The copies that are left alone stay known, whether or not g gets a new version.
LEMMA NewVersion ==
    ASSUME IInv, NEW g \in GameServers, NEW new \in Objects,
           new.resourceVersion = gameServer[g].resourceVersion + 1,
           gameServer' = [gameServer EXCEPT ![g] = new],
           UNCHANGED <<informer, cache, syncing, listener>>,
           \A r \in Requests :
              task'[r] = task[r] \/ task'[r].pc = "idle"
                 \/ (task'[r].name = g /\ task'[r].gs = new)
    PROVE  CopiesInv'
<1> USE DEF IInv
<1>1. \A h \in GameServers : \A gs \in Objects \cup {NoObject} : Known(h, gs) => Known(h, gs)'
  BY KnownOfNewVersion
<1>2. Known(g, new)'
  BY KnownOfNewVersion
<1>3. ASSUME NEW h \in GameServers
      PROVE  /\ \A i \in DOMAIN informer'[h] : Known(h, informer[h][i])'
             /\ Known(h, cache[h])' /\ Known(h, syncing[h])' /\ Known(h, listener.list[h])'
  <2>1. /\ \A i \in DOMAIN informer[h] : informer[h][i] \in Objects
        /\ {cache[h], syncing[h], listener.list[h]} \subseteq Objects \cup {NoObject}
    BY DEF TypeOK
  <2> QED BY <1>1, <2>1 DEF CopiesInv, Known
<1>4. ASSUME NEW r \in Requests, task'[r].pc # "idle"
      PROVE  Known(task[r].name, task[r].gs)'
  <2>1. CASE task'[r] = task[r]
    <3>1. task[r].name \in GameServers /\ task[r].gs \in Objects
      BY <1>4, <2>1 DEF TypeOK, NoTask
    <3> QED BY <1>1, <1>4, <2>1, <3>1 DEF CopiesInv, Known
  <2>2. CASE task'[r].name = g /\ task'[r].gs = new
    BY <1>2, <2>2 DEF Known
  <2> QED BY <1>4, <2>1, <2>2
<1> QED BY <1>3, <1>4 DEF CopiesInv

\* The API server takes an Update of the current version.
LEMMA CurrentIsKnown ==
    ASSUME IInv, NEW r \in Requests, task[r].pc = "update", Current(r)
    PROVE  /\ task[r].name \in GameServers /\ task[r].gs \in Objects
           /\ task[r].gs = gameServer[task[r].name]
<1>1. task[r].name \in GameServers /\ task[r].gs \in Objects
  BY DEF IInv, TypeOK, NoTask
<1> QED BY <1>1, NothingIsNoObject DEF IInv, CopiesInv, Known, Current

LEMMA WorkerKeeps ==
    ASSUME IInv, NEW r \in Requests, Worker(r) \/ UpdateFails(r)
    PROVE  IInv'
<1> USE DEF IInv
<1>1. task \in [Requests -> TaskStates] /\ NoTask \in TaskStates
  BY DEF TypeOK, TaskStates
<1>2. response \in [Requests -> {None} \cup Errors \cup GameServers] /\ "UpdateConflict" \in Errors
  BY DEF TypeOK, Errors
<1>3. ASSUME UpdateAccepted(r) PROVE IInv'
  <2> DEFINE g == task[r].name
             new == Applied(task[r].gs, r)
  <2>1. g \in GameServers /\ task[r].gs \in Objects /\ task[r].gs = gameServer[g]
    BY <1>3, CurrentIsKnown DEF UpdateAccepted
  <2>2. new \in Objects /\ new.resourceVersion = gameServer[g].resourceVersion + 1
    BY <2>1, AppliedIsObject
  <2> HIDE DEF new
  <2>3. /\ gameServer' = [gameServer EXCEPT ![g] = new]
        /\ task' = [task EXCEPT ![r].pc = "add", ![r].gs = new]
        /\ UNCHANGED <<informer, caches, queue, clients, changes, faults>>
    BY <1>3 DEF UpdateAccepted, new
  <2>4. [task[r] EXCEPT !.pc = "add", !.gs = new] \in TaskStates
    <3>1. task[r] \in [pc : {"update", "add"}, name : GameServers, gs : Objects]
      BY <1>1, <1>3 DEF TaskStates, NoTask, UpdateAccepted
    <3> QED BY <2>2, <3>1 DEF TaskStates
  <2>5. task' = [task EXCEPT ![r] = [task[r] EXCEPT !.pc = "add", !.gs = new]]
    BY <2>3
  <2>6. task' \in [Requests -> TaskStates]
    BY <1>1, <2>4, <2>5
  <2>7. gameServer' \in [GameServers -> Objects]
    BY <2>1, <2>2, <2>3, KnownOfNewVersion
  <2>8. TypeOK'
    BY <2>3, <2>6, <2>7 DEF TypeOK, TaskStates, caches, queue, clients
  <2>9. /\ \A q \in Requests : q # r => task'[q] = task[q]
        /\ task'[r].pc = "add" /\ task'[r].name = g /\ task'[r].gs = new
    <3>1. task[r] \in [pc : {"update", "add"}, name : GameServers, gs : Objects]
      BY <1>1, <1>3 DEF TaskStates, NoTask, UpdateAccepted
    <3> QED BY <1>1, <2>5, <3>1
  <2> HIDE DEF g
  <2>10. CopiesInv'
    <3>1. UNCHANGED <<informer, cache, syncing, listener>>
      BY <2>3 DEF caches, queue
    <3>2. \A q \in Requests :
             task'[q] = task[q] \/ task'[q].pc = "idle" \/ (task'[q].name = g /\ task'[q].gs = new)
      BY <2>9
    <3>3. gameServer' = [gameServer EXCEPT ![g] = new]
      BY <2>3
    <3> QED BY <2>1, <2>2, <3>1, <3>2, <3>3, NewVersion
  <2>11. AskedInv'
    BY <2>9 DEF AskedInv, Asked
  <2> QED BY <2>8, <2>10, <2>11
<1>4. ASSUME UpdateRefused(r) PROVE IInv'
  <2>1. /\ task' = [task EXCEPT ![r] = NoTask]
        /\ response' = [response EXCEPT ![r] = "UpdateConflict"]
        /\ UNCHANGED <<server, informer, caches, queue, client, cancelled, faults>>
    BY <1>4 DEF UpdateRefused
  <2>2. /\ \A q \in Requests : q # r => task'[q] = task[q]
        /\ task'[r].pc = "idle"
    BY <1>1, <2>1 DEF NoTask
  <2>3. TypeOK'
    BY <1>1, <1>2, <2>1 DEF TypeOK, TaskStates, server, caches, queue
  <2>4. CopiesInv'
    BY <2>1, <2>2, SameServer DEF CopiesInv, server, caches, queue
  <2>5. AskedInv'
    BY <2>2 DEF AskedInv, Asked
  <2> QED BY <2>3, <2>4, <2>5
<1>5. ASSUME UpdateFails(r) PROVE IInv'
  <2>1. /\ task' = [task EXCEPT ![r] = NoTask]
        /\ response' = [response EXCEPT ![r] = "UpdateConflict"]
        /\ UNCHANGED <<informer, caches, queue, client, cancelled, changes>>
        /\ faults' \in 0..MaxFaults
    BY <1>5, AllocationAssumption DEF UpdateFails, Fault, TypeOK
  <2>2. /\ \A q \in Requests : q # r => task'[q] = task[q]
        /\ task'[r].pc = "idle"
    BY <1>1, <2>1 DEF NoTask
  <2>3. gameServer' \in [GameServers -> Objects] /\ CopiesInv'
    <3>1. CASE UNCHANGED gameServer
      BY <2>1, <2>2, <3>1, SameServer DEF CopiesInv, caches, queue, TypeOK
    <3>2. CASE Current(r) /\ gameServer' = [gameServer EXCEPT ![task[r].name] = Applied(task[r].gs, r)]
      <4>1. task[r].name \in GameServers /\ task[r].gs \in Objects
              /\ task[r].gs = gameServer[task[r].name]
        BY <1>5, <3>2, CurrentIsKnown DEF UpdateFails
      <4>2. /\ Applied(task[r].gs, r) \in Objects
            /\ Applied(task[r].gs, r).resourceVersion = gameServer[task[r].name].resourceVersion + 1
        BY <4>1, AppliedIsObject
      <4>3. gameServer' \in [GameServers -> Objects]
        BY <3>2, <4>1, <4>2, KnownOfNewVersion
      <4>4. CopiesInv'
        BY <2>1, <2>2, <3>2, <4>1, <4>2, NewVersion DEF caches, queue
      <4> QED BY <4>3, <4>4
    <3> QED BY <1>5, <3>1, <3>2 DEF UpdateFails
  <2>4. TypeOK'
    BY <1>1, <1>2, <2>1, <2>3 DEF TypeOK, TaskStates, caches, queue
  <2>5. AskedInv'
    BY <2>2 DEF AskedInv, Asked
  <2> QED BY <2>3, <2>4, <2>5
<1>6. ASSUME AddGameServer(r) PROVE IInv'
  <2>1. task[r].name \in GameServers /\ task[r].gs \in Objects
    BY <1>1, <1>6 DEF AddGameServer, TaskStates, NoTask
  <2>2. /\ cache' = Stored(cache, task[r].name, task[r].gs)
        /\ response' = [response EXCEPT ![r] = task[r].name]
        /\ task' = [task EXCEPT ![r] = NoTask]
        /\ UNCHANGED <<server, informer, resync, syncing, queue, client, cancelled, faults>>
    BY <1>6 DEF AddGameServer
  <2>3. /\ cache' \in [GameServers -> Objects \cup {NoObject}]
        /\ \A h \in GameServers : \/ cache'[h] \in {cache[h], NoObject}
                                  \/ h = task[r].name /\ cache'[h] = task[r].gs
    BY <2>1, <2>2, StoredIsKnown DEF TypeOK
  <2>4. /\ \A q \in Requests : q # r => task'[q] = task[q]
        /\ task'[r].pc = "idle"
    BY <1>1, <2>2 DEF NoTask
  <2>5. TypeOK'
    BY <1>1, <1>2, <2>1, <2>2, <2>3 DEF TypeOK, TaskStates, server, queue
  <2>6. Known(task[r].name, task[r].gs)
    BY <1>6 DEF AddGameServer, CopiesInv
  <2>7. CopiesInv'
    BY <2>2, <2>3, <2>4, <2>6, NoObjectIsKnown, SameServer DEF CopiesInv, server, queue
  <2>8. AskedInv'
    BY <2>4 DEF AskedInv, Asked
  <2> QED BY <2>5, <2>7, <2>8
<1> QED BY <1>3, <1>4, <1>5, <1>6 DEF Worker

-----------------------------------------------------------------------------
(* The informer and syncCache.                                             *)

LEMMA InformerKeeps ==
    ASSUME IInv, NEW g \in GameServers, Informer(g) \/ HandleTombstone(g)
    PROVE  IInv'
<1> USE DEF IInv
<1>1. /\ informer \in [GameServers -> Seq(Objects) \ {<<>>}] /\ gameServer \in [GameServers -> Objects]
      /\ cache \in [GameServers -> Objects \cup {NoObject}]
      /\ syncing \in [GameServers -> Objects \cup {NoObject}]
  BY DEF TypeOK
<1>2. \A h \in GameServers : informer[h] \in Seq(Objects) /\ Len(informer[h]) \in Nat \ {0}
  BY <1>1
<1>3. ASSUME Deliver(g) PROVE IInv'
  <2>1. /\ informer' = [informer EXCEPT ![g] = Append(@, gameServer[g])]
        /\ UNCHANGED <<server, caches, queue, task, clients, faults>>
    BY <1>3 DEF Deliver
  <2>2. informer' \in [GameServers -> Seq(Objects) \ {<<>>}]
    BY <1>1, <2>1
  <2>3. TypeOK'
    BY <2>1, <2>2 DEF TypeOK, server, caches, queue, clients
  <2>4. \A h \in GameServers : \A i \in DOMAIN informer'[h] : Known(h, informer'[h][i])
    <3>1. Known(g, gameServer[g])
      BY DEF Known, TypeOK, Objects
    <3>2. \A i \in DOMAIN informer'[g] :
             (i \in DOMAIN informer[g] /\ informer'[g][i] = informer[g][i]) \/ informer'[g][i] = gameServer[g]
      BY <1>1, <1>2, <2>1
    <3>3. \A h \in GameServers \ {g} : informer'[h] = informer[h]
      BY <1>1, <2>1
    <3> QED BY <3>1, <3>2, <3>3 DEF CopiesInv
  <2>5. CopiesInv'
    BY <2>1, <2>4, SameServer DEF CopiesInv, server, caches, queue
  <2>6. AskedInv'
    BY <2>1 DEF AskedInv, Asked
  <2> QED BY <2>3, <2>5, <2>6
<1>4. ASSUME informer' = [informer EXCEPT ![g] = Tail(@)], Len(informer[g]) > 1
      PROVE  /\ informer' \in [GameServers -> Seq(Objects) \ {<<>>}]
             /\ \A h \in GameServers : \A i \in DOMAIN informer'[h] : Known(h, informer'[h][i])
  <2>1. Tail(informer[g]) \in Seq(Objects) \ {<<>>}
    BY <1>2, <1>4, TailOfLonger
  <2>2. \A i \in DOMAIN Tail(informer[g]) :
           i + 1 \in DOMAIN informer[g] /\ Tail(informer[g])[i] = informer[g][i + 1]
    BY <1>2, <1>4
  <2>3. informer'[g] = Tail(informer[g]) /\ \A h \in GameServers \ {g} : informer'[h] = informer[h]
    BY <1>1, <1>4
  <2> QED BY <1>1, <1>4, <2>1, <2>2, <2>3 DEF CopiesInv
<1>5. ASSUME Handle(g) PROVE IInv'
  <2>1. /\ Len(informer[g]) > 1 /\ informer' = [informer EXCEPT ![g] = Tail(@)]
        /\ cache' = Stored(cache, g, informer[g][2]) \/ cache' = Deleted(cache, g) \/ cache' = cache
        /\ UNCHANGED <<server, resync, syncing, queue, task, clients, faults>>
    BY <1>5 DEF Handle
  <2>2. 2 \in DOMAIN informer[g] /\ informer[g][2] \in Objects
    BY <1>2, <2>1
  <2>3. /\ cache' \in [GameServers -> Objects \cup {NoObject}]
        /\ \A h \in GameServers : cache'[h] \in {cache[h], NoObject}
                                    \/ (h = g /\ cache'[h] = informer[g][2])
    BY <1>1, <2>1, <2>2, StoredIsKnown
  <2>4. TypeOK'
    BY <1>4, <2>1, <2>3 DEF TypeOK, server, queue, clients
  <2>5. \A h \in GameServers : Known(h, cache'[h])
    BY <2>2, <2>3, NoObjectIsKnown DEF CopiesInv
  <2>6. CopiesInv'
    BY <1>4, <2>1, <2>5, SameServer DEF CopiesInv, server, queue
  <2>7. AskedInv'
    BY <2>1 DEF AskedInv, Asked
  <2> QED BY <2>4, <2>6, <2>7
<1>6. ASSUME HandleTombstone(g) PROVE IInv'
  <2>1. /\ Len(informer[g]) > 1 /\ informer' = [informer EXCEPT ![g] = Tail(@)]
        /\ UNCHANGED <<server, caches, queue, task, clients>> /\ faults' \in 0..MaxFaults
    BY <1>6, AllocationAssumption DEF HandleTombstone, Fault, TypeOK
  <2>2. TypeOK'
    BY <1>4, <2>1 DEF TypeOK, server, caches, queue, clients
  <2>3. CopiesInv'
    BY <1>4, <2>1, SameServer DEF CopiesInv, server, caches, queue
  <2>4. AskedInv'
    BY <2>1 DEF AskedInv, Asked
  <2> QED BY <2>2, <2>3, <2>4
<1> QED BY <1>3, <1>5, <1>6 DEF Informer

LEMMA SyncKeeps ==
    ASSUME IInv, Sync
    PROVE  IInv'
<1> USE DEF IInv
<1>1. /\ cache \in [GameServers -> Objects \cup {NoObject}]
      /\ syncing \in [GameServers -> Objects \cup {NoObject}]
  BY DEF TypeOK
<1>2. \A h \in GameServers : informer[h] \in Seq(Objects) /\ Len(informer[h]) \in Nat \ {0}
  BY DEF TypeOK
<1>3. ASSUME StartSync PROVE IInv'
  <2>1. /\ resync' = FALSE /\ syncing' = [h \in GameServers |-> Lister(h)]
        /\ UNCHANGED <<server, informer, cache, queue, task, clients, faults>>
    BY <1>3 DEF StartSync
  <2>2. \A h \in GameServers : Lister(h) \in Objects /\ Known(h, Lister(h))
    <3>1. \A h \in GameServers : Len(informer[h]) \in DOMAIN informer[h]
      BY <1>2
    <3> QED BY <1>2, <3>1 DEF Lister, CopiesInv
  <2>3. syncing' \in [GameServers -> Objects \cup {NoObject}]
    BY <2>1, <2>2
  <2>4. TypeOK'
    BY <2>1, <2>3 DEF TypeOK, server, queue, clients
  <2>5. \A h \in GameServers : Known(h, syncing'[h])
    BY <2>1, <2>2
  <2>6. CopiesInv'
    BY <2>1, <2>5, SameServer DEF CopiesInv, server, queue
  <2>7. AskedInv'
    BY <2>1 DEF AskedInv, Asked
  <2> QED BY <2>4, <2>6, <2>7
<1>4. ASSUME NEW h \in GameServers, SyncKey(h) PROVE IInv'
  <2>1. /\ cache' = Stored(cache, h, syncing[h]) \/ cache' = Deleted(cache, h)
        /\ syncing' = [syncing EXCEPT ![h] = NoObject]
        /\ UNCHANGED <<server, informer, resync, queue, task, clients, faults>>
    BY <1>4 DEF SyncKey
  <2>2. /\ cache' \in [GameServers -> Objects \cup {NoObject}]
        /\ \A k \in GameServers : cache'[k] \in {cache[k], NoObject} \/ (k = h /\ cache'[k] = syncing[h])
    BY <1>1, <2>1, StoredIsKnown
  <2>3. /\ syncing' \in [GameServers -> Objects \cup {NoObject}]
        /\ \A k \in GameServers : syncing'[k] \in {syncing[k], NoObject}
    BY <1>1, <2>1
  <2>4. TypeOK'
    BY <2>1, <2>2, <2>3 DEF TypeOK, server, queue, clients
  <2>5. \A k \in GameServers : Known(k, cache'[k]) /\ Known(k, syncing'[k])
    BY <2>2, <2>3, NoObjectIsKnown DEF CopiesInv
  <2>6. CopiesInv'
    BY <2>1, <2>5, SameServer DEF CopiesInv, server, queue
  <2>7. AskedInv'
    BY <2>1 DEF AskedInv, Asked
  <2> QED BY <2>4, <2>6, <2>7
<1> QED BY <1>3, <1>4 DEF Sync

-----------------------------------------------------------------------------
(* Everybody else.                                                         *)

LEMMA OthersChange ==
    ASSUME IInv, NEW g \in GameServers, Move(g) \/ AllocatedElsewhere(g) \/ Edit(g)
    PROVE  \E new \in Objects :
              /\ new.resourceVersion = gameServer[g].resourceVersion + 1
              /\ new.state = "Allocated" => new.by = Others \/ (new.by = gameServer[g].by
                                                              /\ gameServer[g].state = "Allocated")
              /\ Change(g, new)
<1>1. gameServer[g] \in Objects
  BY DEF IInv, TypeOK
<1>2. ASSUME Move(g) PROVE \E m \in Moves : Change(g, [gameServer[g] EXCEPT !.state = m[2],
                                     !.generation = @ + 1, !.resourceVersion = @ + 1])
  BY <1>2 DEF Move
<1>3. ASSUME NEW m \in Moves
      PROVE  LET new == [gameServer[g] EXCEPT !.state = m[2], !.generation = @ + 1,
                                              !.resourceVersion = @ + 1]
             IN  /\ new \in Objects /\ new.resourceVersion = gameServer[g].resourceVersion + 1
                 /\ new.state # "Allocated"
  <2>1. m[2] \in States /\ m[2] # "Allocated"
    BY DEF Moves, States
  <2> QED BY <1>1, <2>1, MovedIsObject
<1>4. CASE Move(g)
  BY <1>2, <1>3, <1>4
<1>5. CASE AllocatedElsewhere(g)
  BY <1>1, <1>5, AppliedIsObject DEF AllocatedElsewhere
<1>6. CASE Edit(g)
  <2> DEFINE new == [gameServer[g] EXCEPT !.resourceVersion = @ + 1]
  <2>1. /\ new \in Objects /\ new.resourceVersion = gameServer[g].resourceVersion + 1
        /\ new.state = gameServer[g].state /\ new.by = gameServer[g].by
    BY <1>1 DEF Objects
  <2> QED BY <1>6, <2>1 DEF Edit
<1> QED BY <1>4, <1>5, <1>6

LEMMA OthersKeep ==
    ASSUME IInv, NEW g \in GameServers, Move(g) \/ AllocatedElsewhere(g) \/ Edit(g)
    PROVE  IInv'
<1>1. PICK new \in Objects : /\ new.resourceVersion = gameServer[g].resourceVersion + 1
                             /\ Change(g, new)
  BY OthersChange
<1>2. /\ gameServer' = [gameServer EXCEPT ![g] = new] /\ changes' \in 0..MaxChanges
      /\ UNCHANGED <<informer, caches, queue, task, clients, faults>>
  BY <1>1, AllocationAssumption DEF Change, IInv, TypeOK
<1>3. gameServer' \in [GameServers -> Objects]
  BY <1>1, <1>2, KnownOfNewVersion DEF IInv
<1>4. TypeOK'
  BY <1>2, <1>3 DEF IInv, TypeOK, caches, queue, clients
<1>5. CopiesInv'
  BY <1>1, <1>2, NewVersion DEF caches, queue
<1>6. AskedInv'
  BY <1>2 DEF IInv, AskedInv, Asked
<1> QED BY <1>4, <1>5, <1>6 DEF IInv

LEMMA NextKeeps == IInv /\ [Next]_vars => IInv'
<1> SUFFICES ASSUME IInv, [Next]_vars PROVE IInv'
  OBVIOUS
<1>1. CASE UNCHANGED vars
  <2>1. CopiesInv' /\ AskedInv'
    BY <1>1, CopiesUntouched DEF IInv, vars
  <2> QED BY <1>1, <2>1 DEF IInv, TypeOK, vars
<1> QED BY <1>1, ClientKeeps, WorkerKeeps, ListenerKeeps, InformerKeeps, SyncKeeps, OthersKeep DEF Next

-----------------------------------------------------------------------------
\* Every variable stays in its range.
THEOREM TypeCorrect == Spec => []TypeOK
<1>1. IInv => TypeOK
  BY DEF IInv
<1> QED BY <1>1, InitInvariant, NextKeeps, PTL DEF Spec

\* Two clients that want a Ready GameServer never get the same one: what a request takes is
\* in a state that it asked for, at the moment it is taken, however stale the list and the
\* cache it was found in.
THEOREM TakenAsTheyAsked == Spec => TakenAsAsked
<1>1. ASSUME IInv, [Next]_vars, NEW g \in GameServers, NEW r \in Requests,
             gameServer'[g] # gameServer[g], gameServer'[g].by = r,
             gameServer'[g].state = "Allocated", gameServer[g].by # r
      PROVE  Asked(r, gameServer[g].state)
  <2> DEFINE Takes(q) ==
               /\ task[q].pc = "update" /\ Current(q)
               /\ gameServer' = [gameServer EXCEPT ![task[q].name] = Applied(task[q].gs, q)]
  <2>1. ASSUME NEW q \in Requests, Takes(q)
        PROVE  Asked(r, gameServer[g].state)
    <3>1. task[q].name \in GameServers /\ task[q].gs \in Objects /\ task[q].gs = gameServer[task[q].name]
      BY <1>1, <2>1, CurrentIsKnown
    <3>2. g = task[q].name /\ gameServer'[g] = Applied(task[q].gs, q)
      BY <1>1, <2>1, <3>1 DEF IInv, TypeOK
    <3>3. q = r
      BY <1>1, <3>1, <3>2, AppliedIsObject
    <3> QED BY <1>1, <2>1, <3>1, <3>2, <3>3 DEF IInv, AskedInv
  <2>2. ASSUME NEW h \in GameServers, Move(h) \/ AllocatedElsewhere(h) \/ Edit(h)
        PROVE  FALSE
    <3>1. PICK new \in Objects :
             /\ new.state = "Allocated" => new.by = Others \/ new.by = gameServer[h].by
             /\ gameServer' = [gameServer EXCEPT ![h] = new]
      BY <1>1, <2>2, OthersChange DEF Change
    <3>2. h = g /\ gameServer'[g] = new
      BY <1>1, <3>1 DEF IInv, TypeOK
    <3> QED BY <1>1, <3>1, <3>2, NamesAssumption
  <2>3. CASE UNCHANGED gameServer
    BY <1>1, <2>3
  <2>4. \A q \in Requests : Worker(q) \/ UpdateFails(q) => Takes(q) \/ UNCHANGED gameServer
    BY DEF Worker, UpdateAccepted, UpdateRefused, AddGameServer, UpdateFails, server
  <2>5. \A q \in Requests : Client(q) \/ Cancel(q) => UNCHANGED gameServer
    BY DEF Client, CheckContext, Send, Receive, GiveUp, Cancel, server
  <2>6. ListenAndAllocate => UNCHANGED gameServer
    BY DEF ListenAndAllocate, TakeRequest, FindGameServer, NoGameServer, EndBatch, server
  <2>7. \A h \in GameServers : Informer(h) \/ HandleTombstone(h) => UNCHANGED gameServer
    BY DEF Informer, Deliver, Handle, HandleTombstone, server
  <2>8. Sync => UNCHANGED gameServer
    BY DEF Sync, StartSync, SyncKey, server
  <2> HIDE DEF Takes
  <2> QED BY <1>1, <2>1, <2>2, <2>3, <2>4, <2>5, <2>6, <2>7, <2>8 DEF Next, vars
<1>2. IInv /\ [Next]_vars =>
        [\A g \in GameServers, r \in Requests :
          gameServer'[g] # gameServer[g] /\ gameServer'[g].by = r
              /\ gameServer'[g].state = "Allocated" /\ gameServer[g].by # r
            => \E k \in DOMAIN Selectors[r] : gameServer[g].state = Selectors[r][k]]_vars
  BY <1>1 DEF Asked
<1> QED BY <1>2, InitInvariant, NextKeeps, PTL DEF Spec, TakenAsAsked

-----------------------------------------------------------------------------
(* Without faults a request is in one place at a time, and so its answer is *)
(* not lost on the way.                                                    *)

LEMMA InitPlaces == Init => PlaceInv /\ LearnsInv
<1> SUFFICES ASSUME Init PROVE PlaceInv /\ LearnsInv
  OBVIOUS
<1>1. \A r \in Requests :
         task[r].pc = "idle" /\ response[r] = None /\ client[r].pc = "start" /\ client[r].answer = None
  BY DEF Init, NoTask
<1>2. PlaceInv
  BY <1>1, NamesAssumption DEF Init, PlaceInv
<1>3. \A g \in GameServers : gameServer[g].by = None
  BY DEF Init, NewObject
<1> QED BY <1>2, <1>3, NamesAssumption DEF LearnsInv

\* What changes nothing of the requests and of the GameServers.
LEMMA PlacesUntouched ==
    ASSUME PlaceInv, LearnsInv,
           UNCHANGED <<gameServer, pendingRequests, listener, task, response, client>>
    PROVE  PlaceInv' /\ LearnsInv'
BY DEF PlaceInv, LearnsInv

LEMMA ClientLearns ==
    ASSUME TypeOK, PlaceInv, LearnsInv, cancelled = {}, NEW r \in Requests, Client(r)
    PROVE  PlaceInv' /\ LearnsInv'
<1>1. client \in [Requests -> ClientStates] /\ response \in [Requests -> {None} \cup Errors \cup GameServers]
      /\ pendingRequests \in Seq(Requests)
  BY DEF TypeOK, ClientStates
<1>2. ASSUME CheckContext(r) PROVE PlaceInv' /\ LearnsInv'
  <2>1. /\ client[r].pc = "start" /\ client' = [client EXCEPT ![r].pc = "send"]
        /\ UNCHANGED <<gameServer, pendingRequests, listener, task, response>>
    BY <1>2 DEF CheckContext, server, queue
  <2>2. /\ client'[r].pc = "send" /\ client'[r].answer = client[r].answer
        /\ \A q \in Requests \ {r} : client'[q] = client[q]
    BY <1>1, <2>1 DEF ClientStates
  <2> QED BY <1>1, <2>1, <2>2 DEF PlaceInv, LearnsInv
<1>3. ASSUME Send(r) PROVE PlaceInv' /\ LearnsInv'
  <2>1. /\ client[r].pc = "send" /\ client' = [client EXCEPT ![r].pc = "wait"]
        /\ pendingRequests' = Append(pendingRequests, r)
        /\ UNCHANGED <<gameServer, listener, task, response>>
    BY <1>3 DEF Send, server
  <2>2. /\ client'[r].pc = "wait" /\ client'[r].answer = client[r].answer
        /\ \A q \in Requests \ {r} : client'[q] = client[q]
    BY <1>1, <2>1 DEF ClientStates
  <2>3. \A i \in DOMAIN pendingRequests' :
           \/ i \in DOMAIN pendingRequests /\ pendingRequests'[i] = pendingRequests[i]
           \/ i = Len(pendingRequests) + 1 /\ pendingRequests'[i] = r
    BY <1>1, <2>1
  <2>4. \A i \in DOMAIN pendingRequests : pendingRequests[i] # r /\ pendingRequests[i] \in Requests
    BY <1>1, <2>1 DEF PlaceInv
  <2>5. listener.req # r /\ task[r].pc = "idle" /\ response[r] = None
    BY <2>1 DEF PlaceInv
  <2> QED BY <2>1, <2>2, <2>3, <2>4, <2>5 DEF PlaceInv, LearnsInv
<1>4. ASSUME Receive(r) PROVE PlaceInv' /\ LearnsInv'
  <2>1. /\ client[r].pc = "wait" /\ response[r] # None
        /\ response' = [response EXCEPT ![r] = None]
        /\ UNCHANGED <<gameServer, pendingRequests, listener, task>>
    BY <1>4 DEF Receive, server, queue
  <2>2. /\ \A q \in Requests \ {r} : client'[q] = client[q] /\ response'[q] = response[q]
        /\ response'[r] = None
        /\ client'[r].pc = "done" \/ (client'[r].pc = "start" /\ client'[r].answer = client[r].answer)
        /\ response[r] \in GameServers => client'[r].answer = response[r]
    <3>1. ASSUME NEW a \in Answers, NEW again \in BOOLEAN, Answer(r, a, again)
          PROVE  /\ \A q \in Requests \ {r} : client'[q] = client[q]
                 /\ client'[r].pc = "done" /\ client'[r].answer = a
      BY <1>1, <3>1 DEF Answer, ClientStates
    <3>2. ASSUME NEW tries, client' = [client EXCEPT ![r].pc = "start", ![r].tries = tries]
          PROVE  /\ \A q \in Requests \ {r} : client'[q] = client[q]
                 /\ client'[r].pc = "start" /\ client'[r].answer = client[r].answer
      BY <1>1, <3>2 DEF ClientStates
    <3>3. /\ "UnAllocated" \in Answers /\ "Contention" \in Answers /\ "Error" \in Answers
          /\ GameServers \subseteq Answers
      BY DEF Answers
    <3>4. response[r] \in GameServers => response[r] \notin {"NoGameServer", "Timeout", "Conflict", "UpdateConflict"}
      BY ErrorsAssumption DEF Errors
    <3>5. CASE response[r] \in GameServers
      BY <1>1, <1>4, <2>1, <3>1, <3>3, <3>4, <3>5 DEF Receive
    <3>6. CASE response[r] \notin GameServers
      BY <1>1, <1>4, <2>1, <3>1, <3>2, <3>3, <3>6 DEF Receive
    <3> QED BY <3>5, <3>6
  <2>3. /\ listener.req # r /\ task[r].pc = "idle" /\ client[r].answer = None
        /\ \A i \in DOMAIN pendingRequests : pendingRequests[i] # r /\ pendingRequests[i] \in Requests
    BY <1>1, <2>1 DEF PlaceInv
  <2>4. PlaceInv'
    BY <2>1, <2>2, <2>3 DEF PlaceInv
  <2>5. LearnsInv'
    BY <2>1, <2>2, <2>3, NamesAssumption DEF LearnsInv
  <2> QED BY <2>4, <2>5
<1>5. ~GiveUp(r)
  BY DEF GiveUp
<1> QED BY <1>2, <1>3, <1>4, <1>5 DEF Client

LEMMA ListenerLearns ==
    ASSUME TypeOK, PlaceInv, LearnsInv, cancelled = {}, ListenAndAllocate
    PROVE  PlaceInv' /\ LearnsInv'
<1>1. /\ listener \in ListenerStates /\ pendingRequests \in Seq(Requests)
      /\ task \in [Requests -> TaskStates] /\ response \in [Requests -> {None} \cup Errors \cup GameServers]
  BY DEF TypeOK, ListenerStates, TaskStates
<1>2. ASSUME TakeRequest PROVE PlaceInv' /\ LearnsInv'
  <2> DEFINE r == Head(pendingRequests)
  <2>1. /\ listener.req = None /\ pendingRequests # <<>> /\ pendingRequests' = Tail(pendingRequests)
        /\ listener'.req = r
        /\ UNCHANGED <<gameServer, task, response, client>>
    BY <1>2 DEF TakeRequest, server
  <2>2. r \in Requests /\ 1 \in DOMAIN pendingRequests /\ r = pendingRequests[1]
    BY <1>1, <2>1
  <2> HIDE DEF r
  <2>3. \A i \in DOMAIN pendingRequests' :
           /\ i + 1 \in DOMAIN pendingRequests /\ i + 1 # 1 /\ i \in Nat
           /\ pendingRequests'[i] = pendingRequests[i + 1]
    BY <1>1, <2>1
  <2>4. \A i \in DOMAIN pendingRequests' : pendingRequests'[i] # r
    BY <2>2, <2>3 DEF PlaceInv
  <2>5. client[r].pc = "wait" /\ task[r].pc = "idle" /\ response[r] = None
    BY <2>2 DEF PlaceInv
  <2>6. PlaceInv'
    <3>1. ASSUME NEW i \in DOMAIN pendingRequests', NEW j \in DOMAIN pendingRequests',
                 pendingRequests'[i] = pendingRequests'[j]
          PROVE  i = j
      <4>1. i + 1 = j + 1
        BY <2>3, <3>1 DEF PlaceInv
      <4> QED BY <2>3, <4>1
    <3>2. ASSUME NEW i \in DOMAIN pendingRequests'
          PROVE  LET q == pendingRequests'[i] IN
                 client[q].pc = "wait" /\ listener'.req # q /\ task[q].pc = "idle" /\ response[q] = None
      BY <2>1, <2>3, <2>4 DEF PlaceInv
    <3> QED BY <2>1, <2>5, <3>1, <3>2 DEF PlaceInv
  <2>7. LearnsInv'
    BY <2>1 DEF LearnsInv
  <2> QED BY <2>6, <2>7
<1>3. ASSUME FindGameServer PROVE PlaceInv' /\ LearnsInv'
  <2> DEFINE r == listener.req
  <2>1. /\ r \in Requests /\ listener'.req = None
        /\ UNCHANGED <<gameServer, pendingRequests, client>>
    BY <1>1, <1>3 DEF FindGameServer, ListenerStates, server
  <2>2. \/ response' = [response EXCEPT ![r] = "Conflict"] /\ UNCHANGED task
        \/ /\ \E g \in GameServers : \E gs : task' = [task EXCEPT ![r] = [pc |-> "update", name |-> g, gs |-> gs]]
           /\ UNCHANGED response
    BY <1>3 DEF FindGameServer, Candidates
  <2>3. /\ client[r].pc = "wait" /\ task[r].pc = "idle" /\ response[r] = None
        /\ \A i \in DOMAIN pendingRequests : pendingRequests[i] # r /\ pendingRequests[i] \in Requests
    BY <1>1, <2>1 DEF PlaceInv
  <2> HIDE DEF r
  <2>4. /\ \A q \in Requests \ {r} : task'[q] = task[q] /\ response'[q] = response[q]
        /\ \/ response'[r] = None
           \/ task'[r].pc = "idle"
    BY <1>1, <2>1, <2>2, <2>3
  <2>5. PlaceInv'
    BY <2>1, <2>3, <2>4, NamesAssumption DEF PlaceInv
  <2>6. LearnsInv'
    BY <2>1, <2>3, <2>4, NamesAssumption DEF LearnsInv
  <2> QED BY <2>5, <2>6
<1>4. ASSUME NoGameServer PROVE PlaceInv' /\ LearnsInv'
  <2> DEFINE r == listener.req
  <2>1. /\ r \in Requests /\ listener'.req = None
        /\ response' = [response EXCEPT ![r] = "NoGameServer"]
        /\ UNCHANGED <<gameServer, pendingRequests, client, task>>
    BY <1>1, <1>4 DEF NoGameServer, ListenerStates, server
  <2>2. /\ client[r].pc = "wait" /\ task[r].pc = "idle" /\ response[r] = None
        /\ \A i \in DOMAIN pendingRequests : pendingRequests[i] # r /\ pendingRequests[i] \in Requests
    BY <1>1, <2>1 DEF PlaceInv
  <2> HIDE DEF r
  <2>3. \A q \in Requests \ {r} : response'[q] = response[q]
    BY <1>1, <2>1
  <2>4. PlaceInv'
    BY <2>1, <2>2, <2>3, NamesAssumption DEF PlaceInv
  <2>5. LearnsInv'
    BY <2>1, <2>2, <2>3, NamesAssumption DEF LearnsInv
  <2> QED BY <2>4, <2>5
<1>5. ASSUME EndBatch PROVE PlaceInv' /\ LearnsInv'
  <2>1. /\ listener'.req = listener.req
        /\ UNCHANGED <<gameServer, pendingRequests, client, task, response>>
    BY <1>1, <1>5 DEF EndBatch, ListenerStates, server, clients
  <2> QED BY <2>1 DEF PlaceInv, LearnsInv
<1> QED BY <1>2, <1>3, <1>4, <1>5 DEF ListenAndAllocate

LEMMA WorkerLearns ==
    ASSUME IInv, PlaceInv, LearnsInv, NEW r \in Requests, Worker(r)
    PROVE  PlaceInv' /\ LearnsInv'
<1>1. /\ pendingRequests \in Seq(Requests) /\ task \in [Requests -> TaskStates]
      /\ response \in [Requests -> {None} \cup Errors \cup GameServers]
      /\ gameServer \in [GameServers -> Objects]
  BY DEF IInv, TypeOK, TaskStates
<1>2. task[r] \in [pc : {"update", "add"}, name : GameServers, gs : Objects]
  BY <1>1 DEF Worker, UpdateAccepted, UpdateRefused, AddGameServer, TaskStates, NoTask
<1>3. /\ client[r].pc = "wait" /\ client[r].answer = None /\ response[r] = None /\ listener.req # r
      /\ \A i \in DOMAIN pendingRequests : pendingRequests[i] # r /\ pendingRequests[i] \in Requests
  BY <1>1, <1>2 DEF PlaceInv
<1>4. /\ UNCHANGED <<pendingRequests, listener, client>>
      /\ \A q \in Requests \ {r} : task'[q] = task[q] /\ response'[q] = response[q]
      /\ task'[r].pc = "idle" \/ response'[r] = None
  <2>1. CASE UpdateAccepted(r)
    BY <1>1, <1>3, <2>1 DEF UpdateAccepted, queue, clients
  <2>2. CASE UpdateRefused(r)
    BY <1>1, <2>2 DEF UpdateRefused, queue, NoTask
  <2>3. CASE AddGameServer(r)
    BY <1>1, <2>3 DEF AddGameServer, queue, NoTask
  <2> QED BY <2>1, <2>2, <2>3 DEF Worker
<1>5. PlaceInv'
  BY <1>3, <1>4 DEF PlaceInv
<1>6. LearnsInv'
  <2>1. CASE UpdateAccepted(r)
    <3>1. /\ task'[r].pc = "add" /\ task'[r].name = task[r].name
          /\ gameServer'[task[r].name].by = r
          /\ \A g \in GameServers \ {task[r].name} : gameServer'[g] = gameServer[g]
      BY <1>1, <1>2, <2>1, AppliedIsObject DEF UpdateAccepted
    <3>2. \A g \in GameServers : ~(gameServer[g].state = "Allocated" /\ gameServer[g].by = r)
      BY <1>3, <2>1, NamesAssumption DEF LearnsInv, UpdateAccepted
    <3>3. ASSUME NEW g \in GameServers, gameServer'[g].state = "Allocated", gameServer'[g].by = r
          PROVE  task'[r].pc = "add" /\ task'[r].name = g
      BY <3>1, <3>2, <3>3
    <3>4. ASSUME NEW g \in GameServers, NEW q \in Requests \ {r},
                 gameServer'[g].state = "Allocated", gameServer'[g].by = q
          PROVE  (task[q].pc = "add" /\ task[q].name = g) \/ response[q] = g \/ client[q].answer = g
      <4>1. g # task[r].name
        BY <3>1, <3>4
      <4> QED BY <3>1, <3>4, <4>1 DEF LearnsInv
    <3> QED BY <1>4, <3>3, <3>4 DEF LearnsInv
  <2>2. CASE UpdateRefused(r)
    <3>1. task[r].pc = "update" /\ UNCHANGED gameServer
      BY <2>2 DEF UpdateRefused, server
    <3> QED BY <1>3, <1>4, <3>1, NamesAssumption DEF LearnsInv
  <2>3. CASE AddGameServer(r)
    <3>1. response'[r] = task[r].name /\ UNCHANGED gameServer
      BY <1>1, <2>3 DEF AddGameServer, server
    <3> QED BY <1>3, <1>4, <3>1, NamesAssumption DEF LearnsInv
  <2> QED BY <2>1, <2>2, <2>3 DEF Worker
<1> QED BY <1>5, <1>6

LEMMA OthersLearn ==
    ASSUME IInv, PlaceInv, LearnsInv,
           NEW g \in GameServers, Move(g) \/ AllocatedElsewhere(g) \/ Edit(g)
    PROVE  PlaceInv' /\ LearnsInv'
<1>1. PICK new \in Objects :
         /\ new.state = "Allocated" => new.by = Others \/ (new.by = gameServer[g].by
                                                         /\ gameServer[g].state = "Allocated")
         /\ Change(g, new)
  BY OthersChange
<1>2. /\ gameServer' = [gameServer EXCEPT ![g] = new]
      /\ UNCHANGED <<pendingRequests, listener, task, response, client>>
  BY <1>1 DEF Change, queue, clients
<1>3. gameServer'[g] = new /\ \A h \in GameServers \ {g} : gameServer'[h] = gameServer[h]
  BY <1>2 DEF IInv, TypeOK
<1>4. PlaceInv'
  BY <1>2 DEF PlaceInv
<1>5. LearnsInv'
  BY <1>1, <1>2, <1>3, NamesAssumption DEF LearnsInv
<1> QED BY <1>4, <1>5

LEMMA NextLearns == IInv /\ NoFaults /\ [Next]_vars => NoFaults'
<1> SUFFICES ASSUME IInv, NoFaults, [Next]_vars, faults' = 0
             PROVE  cancelled' = {} /\ PlaceInv' /\ LearnsInv'
  BY DEF NoFaults
<1>1. ~Fault
  BY DEF Fault, IInv, TypeOK
<1>2. \/ \E r \in Requests : Client(r) \/ Worker(r)
      \/ ListenAndAllocate \/ (\E g \in GameServers : Informer(g)) \/ Sync
      \/ \E g \in GameServers : Move(g) \/ AllocatedElsewhere(g) \/ Edit(g)
      \/ UNCHANGED vars
  BY <1>1 DEF Next, UpdateFails, Cancel, HandleTombstone
<1>3. UNCHANGED <<faults, cancelled>>
  <2>1. \A r \in Requests : Client(r) \/ Worker(r) => UNCHANGED <<faults, cancelled>>
    BY DEF Client, CheckContext, Send, Receive, GiveUp, Worker, UpdateAccepted, UpdateRefused, AddGameServer, clients
  <2>2. ListenAndAllocate => UNCHANGED <<faults, cancelled>>
    BY DEF ListenAndAllocate, TakeRequest, FindGameServer, NoGameServer, EndBatch, clients
  <2>3. Sync \/ (\E g \in GameServers : Informer(g)) => UNCHANGED <<faults, cancelled>>
    BY DEF Informer, Deliver, Handle, Sync, StartSync, SyncKey, clients
  <2>4. \A g \in GameServers : Move(g) \/ AllocatedElsewhere(g) \/ Edit(g) => UNCHANGED <<faults, cancelled>>
    BY DEF Move, AllocatedElsewhere, Edit, Change, clients
  <2> QED BY <1>2, <2>1, <2>2, <2>3, <2>4 DEF vars
<1>4. cancelled = {} /\ PlaceInv /\ LearnsInv
  BY <1>3 DEF NoFaults
<1>5. Sync \/ (\E g \in GameServers : Informer(g)) \/ UNCHANGED vars
        => UNCHANGED <<gameServer, pendingRequests, listener, task, response, client>>
  BY DEF Informer, Deliver, Handle, Sync, StartSync, SyncKey, clients, server, queue, vars
<1> QED BY <1>2, <1>3, <1>4, <1>5, ClientLearns, WorkerLearns, ListenerLearns, OthersLearn, PlacesUntouched DEF IInv

\* Unless a request fails or its client goes away, a GameServer is not allocated for nobody:
\* it is still with the worker, on its way to the client, or the client's answer.
THEOREM NothingInVain == Spec => []NothingAllocatedInVain
<1>1. Init => NoFaults
  BY InitPlaces DEF NoFaults, Init
<1>2. NoFaults => NothingAllocatedInVain
  BY DEF NoFaults, LearnsInv, NothingAllocatedInVain
<1> QED BY <1>1, <1>2, InitInvariant, NextKeeps, NextLearns, PTL DEF Spec
=============================================================================
