-------------------------- MODULE SDKSessionProofs --------------------------
(***************************************************************************)
(* Theorems about SDKSession, for every set of requests, every number of   *)
(* calls under way and every threshold: ThereIsNoEscaping,                 *)
(* OnlySilenceIsUnhealthy, and the types of all variables.                 *)
(***************************************************************************)
EXTENDS SDKSession, TLAPS

-----------------------------------------------------------------------------
(* What is written is never older than what it overwrites. *)

IsGameServer(gs) ==
    /\ gs = [state |-> gs.state, until |-> gs.until, deleted |-> gs.deleted,
             version |-> gs.version, metadata |-> gs.metadata]
    /\ gs.version \in Nat

\* A copy the worker made of the lister's GameServer: one that has the version of the
\* GameServer differs from it in what the operation changes only.
CopyOK(c, gs, operation) ==
    /\ IsGameServer(c) /\ c.version <= gs.version
    /\ c.version = gs.version =>
          IF operation = "updateState" THEN ~IsFinal(gs) ELSE c.state = gs.state

VersionInv ==
    /\ IsGameServer(gameServer) /\ IsGameServer(cached)
    /\ cached.version <= gameServer.version
    /\ cached.version = gameServer.version => cached = gameServer
    /\ worker = [operation |-> worker.operation, copy |-> worker.copy]
    /\ \A c \in worker.copy : CopyOK(c, gameServer, worker.operation)

\* An action that leaves these three alone.
LEMMA VersionUnchanged ==
    VersionInv /\ UNCHANGED <<gameServer, cached, worker>> => VersionInv'
BY DEF VersionInv, CopyOK, IsGameServer, IsFinal, IsBeingDeleted

LEMMA OrPicks ==
    ASSUME NEW S, NEW d, S # {}
    PROVE  Or(S, d) \in S
BY DEF Or

\* Copies with another state, time of reservation or deletion are GameServers.
LEMMA SetStateAndTime ==
    ASSUME NEW gs, IsGameServer(gs), NEW state, NEW until
    PROVE  /\ IsGameServer([gs EXCEPT !.state = state, !.until = until])
           /\ [gs EXCEPT !.state = state, !.until = until].version = gs.version
<1>1. PICK st, un, de, ve, me :
          gs = [state |-> st, until |-> un, deleted |-> de, version |-> ve, metadata |-> me]
  BY DEF IsGameServer
<1>2. ve \in Nat /\ gs.version = ve
  BY <1>1 DEF IsGameServer
<1>3. ASSUME NEW c, c = [gs EXCEPT !.state = state, !.until = until]
      PROVE  IsGameServer(c) /\ c.version = gs.version
  <2>1. c = [state |-> state, until |-> until, deleted |-> de, version |-> ve, metadata |-> me]
    BY <1>1, <1>3
  <2> QED BY <2>1, <1>2 DEF IsGameServer
<1> QED BY <1>3

LEMMA SetDeleted ==
    ASSUME NEW gs, IsGameServer(gs), NEW deleted
    PROVE  /\ IsGameServer([gs EXCEPT !.deleted = deleted])
           /\ [gs EXCEPT !.deleted = deleted].version = gs.version
<1>1. PICK st, un, de, ve, me :
          gs = [state |-> st, until |-> un, deleted |-> de, version |-> ve, metadata |-> me]
  BY DEF IsGameServer
<1>2. [gs EXCEPT !.deleted = deleted]
        = [state |-> st, until |-> un, deleted |-> deleted, version |-> ve, metadata |-> me]
  BY <1>1
<1>3. gs.version = ve /\ ve \in Nat
  BY <1>1 DEF IsGameServer
<1> QED BY <1>2, <1>3 DEF IsGameServer

\* A GameServer that is written has the state of what was written, and a newer version.
LEMMA ChangeIsNewer ==
    ASSUME VersionInv, NEW gs, IsGameServer(gs), gs.version = gameServer.version,
           gameServer' = [gs EXCEPT !.version = @ + 1]
    PROVE  /\ IsGameServer(gameServer') /\ gameServer'.state = gs.state
           /\ gameServer'.version = gameServer.version + 1
<1>1. /\ gameServer'.state = gs.state /\ gameServer'.version = gs.version + 1
      /\ gameServer' = [state |-> gs.state, until |-> gs.until, deleted |-> gs.deleted,
                        version |-> gs.version + 1, metadata |-> gs.metadata]
  BY DEF IsGameServer
<1> QED BY <1>1 DEF IsGameServer, VersionInv

\* After it, whoever has an older one knows that it is older.
LEMMA ChangeKeeps ==
    ASSUME VersionInv, NEW gs, IsGameServer(gs), gs.version = gameServer.version,
           gameServer' = [gs EXCEPT !.version = @ + 1],
           UNCHANGED cached,
           UNCHANGED worker \/ (\E o : worker' = [NoWork EXCEPT !.operation = o])
    PROVE  VersionInv'
<1>1. /\ IsGameServer(gameServer') /\ gameServer'.version = gameServer.version + 1
      /\ gameServer.version \in Nat /\ cached.version \in Nat /\ cached.version <= gameServer.version
  BY ChangeIsNewer DEF VersionInv, IsGameServer
<1>2. CASE UNCHANGED worker
  <2>1. \A c \in worker.copy : CopyOK(c, gameServer', worker.operation)
    BY <1>1 DEF VersionInv, CopyOK, IsGameServer
  <2> QED BY <1>1, <1>2, <2>1 DEF VersionInv, IsGameServer
<1>3. CASE \E o : worker' = [NoWork EXCEPT !.operation = o]
  <2>1. worker' = [operation |-> worker'.operation, copy |-> worker'.copy] /\ worker'.copy = {}
    BY <1>3 DEF NoWork
  <2> QED BY <1>1, <2>1 DEF VersionInv, IsGameServer
<1> QED BY <1>2, <1>3

\* The worker is idle again, or at the next operation.
LEMMA WorkerIsFree ==
    ASSUME VersionInv, UNCHANGED <<gameServer, cached>>,
           \E o : worker' = [NoWork EXCEPT !.operation = o]
    PROVE  VersionInv'
<1>1. worker' = [operation |-> worker'.operation, copy |-> worker'.copy] /\ worker'.copy = {}
  BY DEF NoWork
<1> QED BY <1>1 DEF VersionInv, IsGameServer

LEMMA IdleIsFree ==
    worker' = NoWork => \E o : worker' = [NoWork EXCEPT !.operation = o]
<1>1. NoWork = [NoWork EXCEPT !.operation = "none"]
  BY DEF NoWork
<1> QED BY <1>1

LEMMA VersionInit == Init => VersionInv
<1> SUFFICES ASSUME Init PROVE VersionInv
  OBVIOUS
<1>1. IsGameServer(gameServer) /\ cached = gameServer
  BY DEF Init, IsGameServer
<1>2. worker = [operation |-> worker.operation, copy |-> worker.copy] /\ worker.copy = {}
  BY DEF Init, NoWork
<1> QED BY <1>1, <1>2 DEF VersionInv, IsGameServer

\* Whatever is patched, it was made from the GameServer as it is: nothing final is left.
LEMMA PatchKeeps ==
    ASSUME VersionInv, NEW copy \in worker.copy, PatchTests(copy), Applied(copy)
    PROVE  /\ IsFinal(gameServer) /\ worker.operation = "updateState" => FALSE
           /\ IsFinal(gameServer) => gameServer'.state = gameServer.state
           /\ \/ UNCHANGED gameServer
              \/ gameServer' = [copy EXCEPT !.version = @ + 1]
           /\ IsGameServer(copy) /\ copy.version = gameServer.version
<1>1. CopyOK(copy, gameServer, worker.operation) /\ copy.version = gameServer.version
  BY DEF VersionInv, PatchTests
<1>2. UNCHANGED gameServer \/ gameServer' = [copy EXCEPT !.version = @ + 1]
  BY DEF Applied
<1>3. IsGameServer(copy)
  BY <1>1 DEF CopyOK
<1>4. ASSUME gameServer' = [copy EXCEPT !.version = @ + 1]
      PROVE  gameServer'.state = copy.state
  BY <1>1, <1>3, <1>4, ChangeIsNewer
<1> QED BY <1>1, <1>2, <1>3, <1>4 DEF CopyOK

\* A step of the worker keeps the invariant.
LEMMA WorkKeepsVersions == VersionInv /\ Work => VersionInv'
<1> SUFFICES ASSUME VersionInv, Work PROVE VersionInv'
  OBVIOUS
<1>1. CASE updateState
  <2>1. CASE IsFinal(cached)
    <3>1. worker' = NoWork /\ UNCHANGED <<gameServer, cached>>
      BY <1>1, <2>1 DEF updateState, kubernetes
    <3> QED BY <3>1, IdleIsFree, WorkerIsFree
  <2>2. CASE ~IsFinal(cached)
    <3> DEFINE c == [cached EXCEPT !.state = gsState,
                                   !.until = gsState = "Reserved" /\ gsReserveDuration]
    <3>1. /\ worker' = [worker EXCEPT !.copy = {c}] /\ worker.operation = "updateState"
          /\ UNCHANGED <<gameServer, cached>>
      BY <1>1, <2>2 DEF updateState, kubernetes
    <3>2. worker' = [operation |-> "updateState", copy |-> {c}]
      BY <3>1 DEF VersionInv
    <3>3. IsGameServer(c) /\ c.version = cached.version
      <4> HIDE DEF c
      <4>1. IsGameServer(cached)
        BY DEF VersionInv
      <4>2. PICK until : c = [cached EXCEPT !.state = gsState, !.until = until]
        BY Zenon DEF c
      <4> QED BY <4>1, <4>2, SetStateAndTime
    <3>4. CopyOK(c, gameServer, "updateState")
      BY <2>2, <3>3 DEF VersionInv, CopyOK
    <3> HIDE DEF c
    <3> QED BY <3>1, <3>2, <3>4 DEF VersionInv, CopyOK
  <2> QED BY <2>1, <2>2
<1>2. ASSUME NEW kind \in Kinds, updateMetadata(kind) PROVE VersionInv'
  <2> DEFINE c == [cached EXCEPT !.metadata[kind] = Over(gsMetadata[kind], @)]
  <2>1. /\ worker' = [worker EXCEPT !.copy = {c}] /\ worker.operation = OperationOf[kind]
        /\ UNCHANGED <<gameServer, cached>>
    BY <1>2 DEF updateMetadata, kubernetes
  <2>2. worker' = [operation |-> worker.operation, copy |-> {c}]
    BY <2>1 DEF VersionInv
  <2>3. IsGameServer(c) /\ c.version = cached.version /\ c.state = cached.state
    BY DEF VersionInv, IsGameServer
  <2>4. OperationOf[kind] # "updateState"
    BY DEF OperationOf, Kinds
  <2>5. CopyOK(c, gameServer, worker.operation)
    BY <2>1, <2>3, <2>4 DEF VersionInv, CopyOK
  <2> HIDE DEF c
  <2> QED BY <2>1, <2>2, <2>5 DEF VersionInv, CopyOK
<1>3. CASE patchGameServer
  <2> DEFINE copy == Or(worker.copy, cached)
  <2>1. /\ copy \in worker.copy /\ PatchTests(copy) /\ Applied(copy) /\ UNCHANGED cached
        /\ \E o : worker' = [NoWork EXCEPT !.operation = o]
    BY <1>3, OrPicks, IdleIsFree DEF patchGameServer
  <2> HIDE DEF copy
  <2>2. /\ UNCHANGED gameServer \/ gameServer' = [copy EXCEPT !.version = @ + 1]
        /\ IsGameServer(copy) /\ copy.version = gameServer.version
    BY <2>1, PatchKeeps
  <2> QED BY <2>1, <2>2, WorkerIsFree, ChangeKeeps
<1>4. CASE PatchFails
  <2> DEFINE copy == Or(worker.copy, cached)
  <2>0. copy \in worker.copy
    BY <1>4, OrPicks DEF PatchFails
  <2>1. /\ UNCHANGED cached /\ worker' = NoWork
        /\ UNCHANGED gameServer \/ (PatchTests(copy) /\ Applied(copy))
    BY <1>4 DEF PatchFails
  <2> HIDE DEF copy
  <2>2. \/ UNCHANGED gameServer
        \/ /\ gameServer' = [copy EXCEPT !.version = @ + 1]
           /\ IsGameServer(copy) /\ copy.version = gameServer.version
    BY <2>0, <2>1, PatchKeeps
  <2> QED BY <2>1, <2>2, IdleIsFree, WorkerIsFree, ChangeKeeps
<1>5. CASE resetReserveAfter
  <2>1. worker' = NoWork /\ UNCHANGED <<gameServer, cached>>
    BY <1>5 DEF resetReserveAfter, kubernetes
  <2> QED BY <2>1, IdleIsFree, WorkerIsFree
<1> QED BY <1>1, <1>2, <1>3, <1>4, <1>5 DEF Work

\* What the controllers, the allocator and users write keeps it.
LEMMA ChangeToKeepsVersions ==
    ASSUME VersionInv, NEW gs, IsGameServer(gs), gs.version = gameServer.version, ChangeTo(gs)
    PROVE  VersionInv'
<1>1. gameServer' = [gs EXCEPT !.version = @ + 1] /\ UNCHANGED <<cached, worker>>
  BY DEF ChangeTo, working
<1> QED BY <1>1, ChangeKeeps

LEMMA OthersKeepVersions ==
    ASSUME VersionInv,
           ControllerMakesReady \/ \E change \in Changes : Others(change)
    PROVE  VersionInv'
<1> DEFINE To(s) == [gameServer EXCEPT !.state = s]
           Deleted == [gameServer EXCEPT !.deleted = TRUE]
<1>1. \A s : IsGameServer(To(s)) /\ To(s).version = gameServer.version
  BY DEF VersionInv, IsGameServer
<1>2. IsGameServer(Deleted) /\ Deleted.version = gameServer.version
  BY SetDeleted DEF VersionInv
<1>3. (\E s : ChangeTo(To(s))) \/ ChangeTo(Deleted)
  BY DEF ControllerMakesReady, Others
<1> HIDE DEF To, Deleted
<1> QED BY <1>1, <1>2, <1>3, ChangeToKeepsVersions

LEMMA VersionNext == VersionInv /\ [Next]_vars => VersionInv'
<1> SUFFICES ASSUME VersionInv, [Next]_vars PROVE VersionInv'
  OBVIOUS
<1>1. CASE Work
  BY <1>1, WorkKeepsVersions
<1>2. CASE Sync
  <2>1. cached' = gameServer /\ UNCHANGED <<gameServer, worker>>
    BY <1>2 DEF Sync, working
  <2> QED BY <2>1 DEF VersionInv, CopyOK, IsGameServer, IsFinal, IsBeingDeleted
<1>3. CASE ControllerMakesReady \/ \E change \in Changes : Others(change)
  BY <1>3, OthersKeepVersions
<1>4. CASE Restart
  <2>1. cached' = gameServer /\ UNCHANGED gameServer /\ worker' = NoWork
    BY <1>4 DEF Restart
  <2> QED BY <2>1 DEF VersionInv, IsGameServer, NoWork
<1>5. ASSUME NEW operation \in workerqueue, StartWork(operation) PROVE VersionInv'
  <2>1. worker' = [NoWork EXCEPT !.operation = operation] /\ UNCHANGED <<gameServer, cached>>
    BY <1>5 DEF StartWork, kubernetes
  <2> QED BY <2>1, WorkerIsFree
<1>6. CASE \E s \in Slots, r \in Requests : Send(s, r)
  BY <1>6, VersionUnchanged DEF Send, kubernetes, working
<1>7. CASE healthPing \/ Stop \/ ReserveTimerFires
  BY <1>7, VersionUnchanged DEF healthPing, Stop, ReserveTimerFires, kubernetes, working
<1>8. CASE SomeCall
  BY <1>8, VersionUnchanged
     DEF SomeCall, Handle, stopReserveTimer, SetReserveDuration, SetState, SetMetadata,
         kubernetes, working
<1>9. CASE checkHealthUpdateState
  BY <1>9, VersionUnchanged
     DEF checkHealthUpdateState, CountFailure, healthy, TurnUnhealthy, kubernetes, working
<1>10. CASE UNCHANGED vars
  BY <1>10, VersionUnchanged DEF vars, kubernetes, working
<1> QED BY <1>1, <1>2, <1>3, <1>4, <1>5, <1>6, <1>7, <1>8, <1>9, <1>10 DEF Next

LEMMA VersionInvariant == Spec => []VersionInv
BY VersionInit, VersionNext, PTL DEF Spec

\* "There is no escaping": whatever the worker writes, however old the copy it started
\* from, a GameServer that is Unhealthy, shut down or being deleted keeps its state.
THEOREM NoEscape == Spec => ThereIsNoEscaping
<1> DEFINE Keeps == Work => (IsFinal(gameServer) => gameServer'.state = gameServer.state)
<1>1. VersionInv /\ [Next]_vars => [Keeps]_vars
  <2> SUFFICES ASSUME VersionInv, Work, IsFinal(gameServer)
               PROVE  gameServer'.state = gameServer.state
    OBVIOUS
  <2> DEFINE copy == Or(worker.copy, cached)
  <2>1. \/ UNCHANGED gameServer
        \/ copy \in worker.copy /\ PatchTests(copy) /\ Applied(copy)
    BY OrPicks DEF Work, updateState, updateMetadata, patchGameServer, PatchFails,
                   resetReserveAfter, kubernetes
  <2> HIDE DEF copy
  <2> QED BY <2>1, PatchKeeps
<1> QED BY <1>1, VersionInvariant, PTL DEF Spec, ThereIsNoEscaping

-----------------------------------------------------------------------------
(* The count of failures never runs ahead of the silence. *)

IsHealth(h) ==
    h \in [touched : BOOLEAN, failureCount : 0..FailureThreshold,
          check : {"none", "counted", "failed"}]

IsClient(c) ==
    /\ c = [running |-> c.running, healthStream |-> c.healthStream, silence |-> c.silence]
    /\ c.silence \in 0..FailureThreshold
    /\ c.healthStream \in {"undefined", "open", "broken"}

HealthInv ==
    /\ IsHealth(health) /\ IsClient(client)
    /\ health.touched => health.failureCount = 0
    /\ client.healthStream # "broken" => client.silence >= health.failureCount
    /\ HealthDisabled => health.check = "none"

\* Only the four calls that change the state get past stopReserveTimer.
CallsInv ==
    /\ calls = [s \in Slots \cup {Timer} |-> calls[s]]
    /\ \A s \in Slots \cup {Timer} :
          /\ calls[s] = [method |-> calls[s].method, wire |-> calls[s].wire, phase |-> calls[s].phase]
          /\ calls[s].phase \in {"timed", "stopped"} => calls[s].method \in DOMAIN Target

LEMMA CallChanges ==
    ASSUME CallsInv, NEW t \in Slots \cup {Timer}, NEW c,
           calls' = [calls EXCEPT ![t] = c],
           c = [method |-> c.method, wire |-> c.wire, phase |-> c.phase],
           c.phase \in {"timed", "stopped"} => c.method \in DOMAIN Target
    PROVE  CallsInv'
<1>1. \A s \in Slots \cup {Timer} : calls'[s] = IF s = t THEN c ELSE calls[s]
  BY DEF CallsInv
<1>2. calls' = [s \in Slots \cup {Timer} |-> calls'[s]]
  BY DEF CallsInv
<1> QED BY <1>1, <1>2 DEF CallsInv

LEMMA HandleKeepsCalls ==
    ASSUME CallsInv, NEW s \in Slots \cup {Timer}, Handle(s)
    PROVE  CallsInv'
<1>1. calls[s] = [method |-> calls[s].method, wire |-> calls[s].wire, phase |-> calls[s].phase]
  BY DEF CallsInv
<1>2. NoCall = [method |-> NoCall.method, wire |-> NoCall.wire, phase |-> NoCall.phase]
      /\ NoCall.phase = "none"
  BY DEF NoCall
<1>3. ASSUME NEW phase, calls' = [calls EXCEPT ![s].phase = phase],
             calls[s].method \in DOMAIN Target
      PROVE  CallsInv'
  <2> DEFINE c == [calls[s] EXCEPT !.phase = phase]
  <2>1. calls' = [calls EXCEPT ![s] = c]
    BY <1>3
  <2>2. /\ c = [method |-> c.method, wire |-> c.wire, phase |-> c.phase]
        /\ c.method = calls[s].method
    BY <1>1
  <2> HIDE DEF c
  <2> QED BY <2>1, <2>2, <1>3, CallChanges
<1>4. DOMAIN Target = {"Ready", "Allocate", "Shutdown", "Reserve"}
  BY DEF Target
<1>5. CASE stopReserveTimer(s)
  BY <1>3, <1>4, <1>5 DEF stopReserveTimer, Goto
<1>6. CASE SetReserveDuration(s)
  BY <1>3, <1>4, <1>6 DEF SetReserveDuration, Goto, At
<1>7. CASE SetState(s) \/ \E kind \in Kinds : SetMetadata(s, kind)
  <2>1. calls' = [calls EXCEPT ![s] = NoCall]
    BY <1>7 DEF SetState, SetMetadata, Settle
  <2> QED BY <2>1, <1>2, CallChanges
<1> QED BY <1>5, <1>6, <1>7 DEF Handle

LEMMA CallsInit == Init => CallsInv
<1> SUFFICES ASSUME calls = [s \in Slots \cup {Timer} |-> NoCall] PROVE CallsInv
  BY DEF Init
<1>1. NoCall = [method |-> NoCall.method, wire |-> NoCall.wire, phase |-> NoCall.phase]
      /\ NoCall.phase = "none"
  BY DEF NoCall
<1> QED BY <1>1 DEF CallsInv

LEMMA CallsNext == CallsInv /\ [Next]_vars => CallsInv'
<1> SUFFICES ASSUME CallsInv, [Next]_vars PROVE CallsInv'
  OBVIOUS
<1>1. UNCHANGED calls => CallsInv'
  BY DEF CallsInv
<1>2. ASSUME NEW s \in Slots, NEW r \in Requests, Send(s, r) PROVE CallsInv'
  <2> DEFINE c == [method |-> r.method, wire |-> r.wire, phase |-> "sent"]
  <2>1. calls' = [calls EXCEPT ![s] = c] /\ c.phase = "sent"
        /\ c = [method |-> c.method, wire |-> c.wire, phase |-> c.phase]
    BY <1>2 DEF Send
  <2> HIDE DEF c
  <2> QED BY <2>1, CallChanges
<1>3. CASE SomeCall
  <2>1. DOMAIN calls = Slots \cup {Timer}
    BY DEF CallsInv
  <2> QED BY <1>3, <2>1, HandleKeepsCalls DEF SomeCall
<1>4. CASE ReserveTimerFires
  <2> DEFINE c == [method |-> "Ready", wire |-> ready.wire, phase |-> "sent"]
  <2>1. calls' = [calls EXCEPT ![Timer] = c] /\ c.phase = "sent"
        /\ c = [method |-> c.method, wire |-> c.wire, phase |-> c.phase]
    BY <1>4 DEF ReserveTimerFires
  <2> HIDE DEF c
  <2> QED BY <2>1, CallChanges
<1>5. CASE Restart
  <2>1. calls' = [s \in Slots \cup {Timer} |-> NoCall]
    BY <1>5 DEF Restart, CallsInv
  <2> QED BY <2>1 DEF CallsInv, NoCall
<1>6. CASE healthPing \/ Stop \/ checkHealthUpdateState \/ Sync \/ ControllerMakesReady
  BY <1>1, <1>6 DEF healthPing, Stop, checkHealthUpdateState, CountFailure, healthy, TurnUnhealthy,
                    Sync, ControllerMakesReady, ChangeTo
<1>7. CASE (\E operation \in workerqueue : StartWork(operation)) \/ Work
  BY <1>1, <1>7 DEF StartWork, Work, updateState, updateMetadata, patchGameServer, PatchFails,
                    resetReserveAfter
<1>8. CASE \E change \in Changes : Others(change)
  BY <1>1, <1>8 DEF Others, ChangeTo
<1>9. CASE UNCHANGED vars
  BY <1>1, <1>9 DEF vars
<1> QED BY <1>2, <1>3, <1>4, <1>5, <1>6, <1>7, <1>8, <1>9 DEF Next

LEMMA HealthInit == Init => HealthInv
<1> SUFFICES ASSUME Init PROVE HealthInv
  OBVIOUS
<1>0. 0 \in 0..FailureThreshold
  BY SDKSessionAssumption
<1>1. health = [touched |-> TRUE, failureCount |-> 0, check |-> "none"]
  BY Zenon DEF Init
<1>2. IsHealth(health) /\ health.failureCount = 0 /\ health.check = "none"
  BY <1>0, <1>1 DEF IsHealth
<1>3. client = [running |-> TRUE, healthStream |-> "undefined", silence |-> 0]
  BY DEF Init
<1>4. IsClient(client) /\ client.silence = 0
  BY <1>0, <1>3 DEF IsClient
<1> QED BY <1>2, <1>4 DEF HealthInv

\* The fields of the health check after its parts have been assigned.
LEMMA HealthFields ==
    ASSUME NEW h, IsHealth(h), NEW check \in {"none", "counted", "failed"}
    PROVE  /\ IsHealth([h EXCEPT !.check = check])
           /\ [h EXCEPT !.check = check].touched = h.touched
           /\ [h EXCEPT !.check = check].failureCount = h.failureCount
           /\ [h EXCEPT !.check = check].check = check
BY DEF IsHealth

LEMMA TouchedHealth ==
    ASSUME IsHealth(health)
    PROVE  /\ IsHealth(touchHealthLastUpdated)
           /\ touchHealthLastUpdated.failureCount = 0
           /\ touchHealthLastUpdated.check = health.check
<1>1. 0 \in 0..FailureThreshold
  BY SDKSessionAssumption
<1> QED BY <1>1 DEF IsHealth, touchHealthLastUpdated

\* A check adds at most one failure to the count, and one to the silence.
LEMMA CheckKeepsHealth == HealthInv /\ checkHealthUpdateState => HealthInv'
<1> SUFFICES ASSUME HealthInv, checkHealthUpdateState PROVE HealthInv'
  OBVIOUS
<1>1. CASE CountFailure
  <2> DEFINE silence == AtMost(client.silence + 1, FailureThreshold)
  <2>1. PICK n \in checkHealth :
          health' = [touched |-> FALSE, failureCount |-> AtMost(n, FailureThreshold),
                     check |-> "counted"]
    BY <1>1 DEF CountFailure
  <2>2. /\ FailureThreshold \in Nat \ {0} /\ client.silence \in 0..FailureThreshold
        /\ health.failureCount \in 0..FailureThreshold
    BY SDKSessionAssumption DEF HealthInv, IsHealth, IsClient
  <2>3. n = health.failureCount \/ n = health.failureCount + 1
    BY <2>2 DEF checkHealth
  <2>4. client' = [running |-> client.running, healthStream |-> client.healthStream,
                   silence |-> silence]
    BY <1>1 DEF CountFailure, HealthInv, IsClient
  <2>5. /\ AtMost(n, FailureThreshold) \in 0..FailureThreshold
        /\ silence \in 0..FailureThreshold
        /\ client.healthStream # "broken" => silence >= AtMost(n, FailureThreshold)
    BY <2>2, <2>3 DEF AtMost, HealthInv
  <2>6. ~HealthDisabled
    BY <1>1 DEF CountFailure
  <2> HIDE DEF silence
  <2>7. IsHealth(health') /\ health'.failureCount = AtMost(n, FailureThreshold) /\ ~health'.touched
    BY <2>1, <2>5 DEF IsHealth
  <2>8. client.healthStream \in {"undefined", "open", "broken"}
    BY DEF HealthInv, IsClient
  <2>9. IsClient(client') /\ client'.silence = silence /\ client'.healthStream = client.healthStream
    BY <2>4, <2>5, <2>8 DEF IsClient
  <2> QED BY <2>5, <2>6, <2>7, <2>9 DEF HealthInv, IsHealth, IsClient
<1>2. CASE healthy \/ TurnUnhealthy
  <2>1. PICK check \in {"none", "counted", "failed"} :
          health' = [health EXCEPT !.check = check]
    BY <1>2 DEF healthy, TurnUnhealthy
  <2>2. client' = client
    BY <1>2 DEF healthy, TurnUnhealthy
  <2>3. ~HealthDisabled
    BY <1>2 DEF healthy, TurnUnhealthy, HealthInv
  <2>4. IsHealth(health') /\ health'.touched = health.touched
        /\ health'.failureCount = health.failureCount
    BY <2>1, HealthFields DEF HealthInv
  <2> QED BY <2>2, <2>3, <2>4 DEF HealthInv, IsHealth, IsClient
<1> QED BY <1>1, <1>2 DEF checkHealthUpdateState

LEMMA HealthNext == HealthInv /\ [Next]_vars => HealthInv'
<1> SUFFICES ASSUME HealthInv, [Next]_vars PROVE HealthInv'
  OBVIOUS
<1>1. UNCHANGED <<health, client>> => HealthInv'
  BY DEF HealthInv, IsHealth, IsClient
<1>2. ASSUME NEW running, NEW stream \in {"undefined", "open", "broken"},
             NEW silence \in 0..FailureThreshold,
             client' = [running |-> running, healthStream |-> stream, silence |-> silence]
      PROVE  IsClient(client') /\ client'.silence = silence /\ client'.healthStream = stream
  BY <1>2 DEF IsClient
<1>3. PICK r, h, n : client = [running |-> r, healthStream |-> h, silence |-> n]
  BY DEF HealthInv, IsClient
<1>4. /\ n \in 0..FailureThreshold /\ 0 \in 0..FailureThreshold
      /\ h \in {"undefined", "open", "broken"}
  BY <1>3, SDKSessionAssumption DEF HealthInv, IsClient
<1>5. /\ IsHealth(health) /\ health.failureCount \in 0..FailureThreshold
      /\ HealthDisabled => health.check = "none"
      /\ h # "broken" => n >= health.failureCount
  BY <1>3 DEF HealthInv, IsHealth
<1>6. CASE healthPing
  <2>1. PICK stream \in {"open", "broken"} :
            client' = [running |-> r, healthStream |-> stream, silence |-> 0]
    <3>1. client' = [running |-> r, silence |-> 0,
                     healthStream |-> IF h = "undefined" THEN "open" ELSE h]
      BY <1>3, <1>6 DEF healthPing
    <3> QED BY <1>4, <3>1
  <2>2. IsClient(client') /\ client'.silence = 0 /\ client'.healthStream = stream
    BY <1>2, <1>4, <2>1
  <2>3. IF client'.healthStream = "open" THEN health' = touchHealthLastUpdated ELSE health' = health
    BY <1>6, Zenon DEF healthPing
  <2>4. CASE stream = "open"
    <3>1. health' = touchHealthLastUpdated
      BY <2>2, <2>3, <2>4
    <3>2. IsHealth(health') /\ health'.failureCount = 0 /\ health'.check = health.check
      BY <1>5, <3>1, TouchedHealth
    <3> QED BY <1>5, <2>2, <3>2 DEF HealthInv, IsHealth, IsClient
  <2>5. CASE stream = "broken"
    <3>1. health' = health
      BY <2>2, <2>3, <2>5
    <3> QED BY <2>2, <2>5, <3>1 DEF HealthInv, IsHealth, IsClient
  <2> QED BY <2>1, <2>4, <2>5
<1>7. CASE Stop
  <2>1. client' = [running |-> FALSE, healthStream |-> h, silence |-> n] /\ health' = health
    BY <1>3, <1>7 DEF Stop
  <2>2. IsClient(client') /\ client'.silence = n /\ client'.healthStream = h
    BY <1>2, <1>4, <2>1
  <2> QED BY <1>3, <2>1, <2>2 DEF HealthInv, IsHealth, IsClient
<1>8. CASE checkHealthUpdateState
  BY <1>8, CheckKeepsHealth
<1>9. CASE Restart
  <2>1. PICK stream \in {"undefined", "open", "broken"} :
            client' = [running |-> r, healthStream |-> stream, silence |-> n]
    BY <1>3, <1>4, <1>9 DEF Restart
  <2>2. IsClient(client') /\ client'.silence = n
    BY <1>2, <1>4, <2>1
  <2>3. /\ IsHealth(health') /\ health'.failureCount = 0 /\ health'.check = "none"
    BY <1>5, <1>9, TouchedHealth, HealthFields DEF Restart
  <2> QED BY <1>4, <2>2, <2>3 DEF HealthInv, IsHealth, IsClient
<1>10. CASE SomeCall \/ ReserveTimerFires \/ Sync \/ ControllerMakesReady
  BY <1>1, <1>10 DEF SomeCall, Handle, stopReserveTimer, SetReserveDuration, SetState, SetMetadata,
                    ReserveTimerFires, Sync, ControllerMakesReady, ChangeTo
<1>11. CASE (\E operation \in workerqueue : StartWork(operation)) \/ Work
  BY <1>1, <1>11 DEF StartWork, Work, updateState, updateMetadata, patchGameServer, PatchFails,
                     resetReserveAfter
<1>12. CASE (\E s \in Slots, request \in Requests : Send(s, request))
            \/ \E change \in Changes : Others(change)
  BY <1>1, <1>12 DEF Send, Others, ChangeTo
<1>13. CASE UNCHANGED vars
  BY <1>1, <1>13 DEF vars
<1> QED BY <1>6, <1>7, <1>8, <1>9, <1>10, <1>11, <1>12, <1>13 DEF Next

LEMMA HealthInvariant == Spec => [](HealthInv /\ CallsInv)
BY HealthInit, HealthNext, CallsInit, CallsNext, PTL DEF Spec

\* The three sections of a check, and everything else.
LEMMA OnlyTheCheckFails ==
    ASSUME HealthInv, Next, health.check # "failed", health'.check = "failed"
    PROVE  healthy
<1>1. CASE CountFailure
  BY <1>1 DEF CountFailure
<1>2. CASE TurnUnhealthy
  BY <1>2 DEF TurnUnhealthy
<1>3. CASE healthPing
  <2>1. health' = health \/ health' = touchHealthLastUpdated
    BY <1>3 DEF healthPing
  <2> QED BY <2>1, TouchedHealth DEF HealthInv
<1>4. CASE Restart
  <2>1. health' = [touchHealthLastUpdated EXCEPT !.check = "none"]
    BY <1>4 DEF Restart
  <2>2. health'.check = "none"
    BY <2>1, TouchedHealth, HealthFields DEF HealthInv
  <2> QED BY <2>2
<1>5. CASE UNCHANGED health
  BY <1>5
<1>6. CASE SomeCall \/ ReserveTimerFires \/ Sync \/ ControllerMakesReady
  BY <1>5, <1>6 DEF SomeCall, Handle, stopReserveTimer, SetReserveDuration, SetState, SetMetadata,
                    ReserveTimerFires, Sync, ControllerMakesReady, ChangeTo
<1>7. CASE (\E operation \in workerqueue : StartWork(operation)) \/ Work
  BY <1>5, <1>7 DEF StartWork, Work, updateState, updateMetadata, patchGameServer, PatchFails,
                    resetReserveAfter
<1>8. CASE (\E s \in Slots, request \in Requests : Send(s, request)) \/ Stop
           \/ \E change \in Changes : Others(change)
  BY <1>5, <1>8 DEF Send, Stop, Others, ChangeTo
<1> QED BY <1>1, <1>2, <1>3, <1>4, <1>6, <1>7, <1>8 DEF Next, checkHealthUpdateState

\* However pings, the sections of a check and calls follow one another, the SDK server
\* finds a game server unhealthy only after FailureThreshold silent checks, or when the
\* stream of pings is broken, and asks for Unhealthy only when it has found that.
THEOREM SilenceIsUnhealthy == Spec => OnlySilenceIsUnhealthy
<1> DEFINE Finds == health.check # "failed" /\ health'.check = "failed"
           Silent == /\ ~HealthDisabled
                     /\ client.silence >= FailureThreshold \/ client.healthStream = "broken"
           Turns == gsState # "Unhealthy" /\ gsState' = "Unhealthy"
           Sound == (Finds => Silent) /\ (Turns => health.check = "failed")
<1>1. ASSUME HealthInv, Next, Finds PROVE Silent
  <2>1. healthy
    BY <1>1, OnlyTheCheckFails
  <2>2. /\ FailureThreshold \in Nat \ {0} /\ client.silence \in 0..FailureThreshold
        /\ health.failureCount \in 0..FailureThreshold
    BY <1>1, SDKSessionAssumption DEF HealthInv, IsHealth, IsClient
  <2>3. ~(health.failureCount < FailureThreshold)
    <3>1. SUFFICES ASSUME health.failureCount < FailureThreshold PROVE FALSE
      OBVIOUS
    <3>2. health' = [health EXCEPT !.check = "none"]
      BY <2>1, <3>1 DEF healthy
    <3>3. health'.check = "none"
      BY <1>1, <3>2, HealthFields DEF HealthInv
    <3> QED BY <1>1, <3>3
  <2>4. ~HealthDisabled
    BY <1>1, <2>1 DEF healthy, HealthInv
  <2> QED BY <1>1, <2>2, <2>3, <2>4 DEF HealthInv
<1>2. ASSUME CallsInv, Next, Turns PROVE health.check = "failed"
  <2>1. CASE checkHealthUpdateState
    BY <1>2, <2>1 DEF checkHealthUpdateState, CountFailure, healthy, TurnUnhealthy
  <2>2. CASE SomeCall
    <3>1. PICK s \in Slots \cup {Timer} : Handle(s)
      BY <1>2, <2>2 DEF SomeCall, CallsInv
    <3>2. CASE SetState(s)
      <4>1. gsState' = Target[calls[s].method] /\ calls[s].method \in DOMAIN Target
        BY <1>2, <3>2 DEF SetState, enqueueState, CallsInv
      <4> QED BY <1>2, <4>1 DEF Target
    <3>3. CASE ~SetState(s)
      BY <1>2, <3>1, <3>3 DEF Handle, stopReserveTimer, SetReserveDuration, SetMetadata
    <3> QED BY <3>2, <3>3
  <2>3. CASE Work \/ \E operation \in workerqueue : StartWork(operation)
    BY <1>2, <2>3 DEF StartWork, Work, updateState, updateMetadata, patchGameServer, PatchFails,
                resetReserveAfter
  <2>4. CASE Restart
    BY <1>2, <2>4 DEF Restart
  <2>5. CASE \/ \E s \in Slots, request \in Requests : Send(s, request)
             \/ healthPing \/ Stop \/ ReserveTimerFires
    BY <1>2, <2>5 DEF Send, healthPing, Stop, ReserveTimerFires
  <2>6. CASE Sync \/ ControllerMakesReady \/ \E change \in Changes : Others(change)
    BY <1>2, <2>6 DEF Sync, ControllerMakesReady, Others, ChangeTo
  <2> QED BY <1>2, <2>1, <2>2, <2>3, <2>4, <2>5, <2>6 DEF Next
<1>3. HealthInv /\ CallsInv /\ [Next]_vars => [Sound]_vars
  BY <1>1, <1>2
<1> QED BY <1>3, HealthInvariant, PTL DEF Spec, OnlySilenceIsUnhealthy

-----------------------------------------------------------------------------
(* The types of the other variables.                                        *)

IsCall(c) ==
    /\ c.phase \in {"none", "sent", "timed", "stopped"}
    /\ c.phase # "none" /\ c.method \in {"SetLabel", "SetAnnotation"} => IsKeyValue(Decode(c.wire, KeyValue))

IsWorker(w) ==
    /\ w = [operation |-> w.operation, copy |-> w.copy]
    /\ w.operation \in Operations \cup {"none", "armTimer"} /\ w.copy \subseteq GameServers
    /\ w.copy # {} => w.operation \in Operations

\* The worker writes only a state that was asked for.
StateInv ==
    /\ gsState \in {""} \cup (States \ {"Scheduled", "Ready"})
    /\ "updateState" \in workerqueue \/ worker.operation = "updateState" => gsState # ""

TypeInv ==
    /\ gameServer \in GameServers /\ cached \in GameServers
    /\ workerqueue \subseteq Operations /\ IsWorker(worker) /\ StateInv
    /\ gsMetadata \in [Kinds -> Metadata]
    /\ gsReserveDuration \in BOOLEAN /\ reserveTimer \in BOOLEAN
    /\ client.running \in BOOLEAN
    /\ DOMAIN calls = Slots \cup {Timer} /\ \A s \in DOMAIN calls : IsCall(calls[s])
    /\ used \in [{"calls", "disturbances"} -> Nat]

LEMMA EmptyIsMetadata == NoMetadata \in [Kinds -> Metadata]
<1>1. Blank \in [{} -> Values]
  BY DEF Blank
<1>2. Blank \in Metadata
  BY <1>1 DEF Metadata
<1> QED BY <1>2 DEF NoMetadata

\* What is set goes over what was there.
LEMMA OverIsMetadata ==
    ASSUME NEW f \in Metadata, NEW g \in Metadata
    PROVE  Over(f, g) \in Metadata
<1>1. PICK K \in SUBSET Keys : f \in [K -> Values]
  BY DEF Metadata
<1>2. PICK L \in SUBSET Keys : g \in [L -> Values]
  BY DEF Metadata
<1>3. Over(f, g) \in [K \cup L -> Values] /\ K \cup L \in SUBSET Keys
  BY <1>1, <1>2 DEF Over
<1> QED BY <1>3 DEF Metadata

LEMMA GameServerFields ==
    ASSUME NEW gs \in GameServers
    PROVE  /\ gs = [state |-> gs.state, until |-> gs.until, deleted |-> gs.deleted,
                    version |-> gs.version, metadata |-> gs.metadata]
           /\ gs.state \in States /\ gs.until \in BOOLEAN /\ gs.deleted \in BOOLEAN
           /\ gs.version \in Nat /\ gs.metadata \in [Kinds -> Metadata]
BY DEF GameServers

LEMMA ChangedGameServer ==
    ASSUME NEW gs \in GameServers
    PROVE  /\ [gs EXCEPT !.version = @ + 1] \in GameServers
           /\ [gs EXCEPT !.deleted = TRUE] \in GameServers
           /\ \A state \in States : [gs EXCEPT !.state = state] \in GameServers
           /\ \A state \in States, until \in BOOLEAN :
                 [gs EXCEPT !.state = state, !.until = until] \in GameServers
           /\ \A kind \in Kinds, m \in Metadata : [gs EXCEPT !.metadata[kind] = m] \in GameServers
<1>1. PICK s, u, d, v, m :
         /\ gs = [state |-> s, until |-> u, deleted |-> d, version |-> v, metadata |-> m]
         /\ s \in States /\ u \in BOOLEAN /\ d \in BOOLEAN /\ v \in Nat /\ m \in [Kinds -> Metadata]
  BY GameServerFields
<1>2. [gs EXCEPT !.version = @ + 1] \in GameServers
  <2>1. [gs EXCEPT !.version = @ + 1]
          = [state |-> s, until |-> u, deleted |-> d, version |-> v + 1, metadata |-> m]
    BY <1>1
  <2> QED BY <1>1, <2>1 DEF GameServers
<1>3. [gs EXCEPT !.deleted = TRUE] \in GameServers
  <2>1. ASSUME NEW x
        PROVE  [gs EXCEPT !.deleted = x]
                 = [state |-> s, until |-> u, deleted |-> x, version |-> v, metadata |-> m]
    BY <1>1
  <2> QED BY <1>1, <2>1 DEF GameServers
<1>4. ASSUME NEW state \in States PROVE [gs EXCEPT !.state = state] \in GameServers
  <2>1. [gs EXCEPT !.state = state]
          = [state |-> state, until |-> u, deleted |-> d, version |-> v, metadata |-> m]
    BY <1>1
  <2> QED BY <1>1, <2>1 DEF GameServers
<1>5. ASSUME NEW state \in States, NEW until \in BOOLEAN
      PROVE  [gs EXCEPT !.state = state, !.until = until] \in GameServers
  <2> DEFINE c == [gs EXCEPT !.state = state]
  <2>1. c = [state |-> state, until |-> u, deleted |-> d, version |-> v, metadata |-> m]
    BY <1>1
  <2>2. [gs EXCEPT !.state = state, !.until = until] = [c EXCEPT !.until = until]
    OBVIOUS
  <2> HIDE DEF c
  <2>3. [c EXCEPT !.until = until]
          = [state |-> state, until |-> until, deleted |-> d, version |-> v, metadata |-> m]
    BY <2>1
  <2> QED BY <1>1, <2>2, <2>3 DEF GameServers
<1>6. ASSUME NEW kind \in Kinds, NEW n \in Metadata
      PROVE  [gs EXCEPT !.metadata[kind] = n] \in GameServers
  <2> DEFINE changed == [m EXCEPT ![kind] = n]
  <2>1. [gs EXCEPT !.metadata[kind] = n] = [gs EXCEPT !.metadata = changed]
    BY <1>1
  <2>2. changed \in [Kinds -> Metadata]
    BY <1>1
  <2> HIDE DEF changed
  <2>3. [gs EXCEPT !.metadata = changed]
          = [state |-> s, until |-> u, deleted |-> d, version |-> v, metadata |-> changed]
    BY <1>1
  <2> QED BY <1>1, <2>1, <2>2, <2>3 DEF GameServers
<1> QED BY <1>2, <1>3, <1>4, <1>5, <1>6

LEMMA UseCounts ==
    ASSUME used \in [{"calls", "disturbances"} -> Nat],
           NEW what \in {"calls", "disturbances"}, NEW bound, Use(what, bound)
    PROVE  used' \in [{"calls", "disturbances"} -> Nat]
BY DEF Use

\* What the worker may do to the GameServer.
LEMMA AppliedIsTyped ==
    ASSUME TypeInv, NEW copy \in GameServers, Applied(copy)
    PROVE  gameServer' \in GameServers
BY ChangedGameServer DEF TypeInv, Applied

LEMMA SetCallKeepsCalls ==
    ASSUME TypeInv, NEW s \in DOMAIN calls, NEW c, IsCall(c), calls' = [calls EXCEPT ![s] = c]
    PROVE  DOMAIN calls' = Slots \cup {Timer} /\ \A t \in DOMAIN calls' : IsCall(calls'[t])
BY DEF TypeInv

LEMMA NoCallIsACall == IsCall(NoCall)
<1>1. NoCall.phase = "none"
  BY DEF NoCall
<1> QED BY <1>1 DEF IsCall

LEMMA HandleKeepsTypes ==
    ASSUME TypeInv, CallsInv, NEW s \in DOMAIN calls, Handle(s)
    PROVE  TypeInv'
<1>1. s \in Slots \cup {Timer} /\ IsCall(calls[s])
  BY DEF TypeInv
<1>2. calls[s] = [method |-> calls[s].method, wire |-> calls[s].wire, phase |-> calls[s].phase]
  BY <1>1 DEF CallsInv
<1>3. ASSUME NEW phase \in {"timed", "stopped"}, Goto(s, phase), calls[s].phase # "none"
      PROVE  DOMAIN calls' = Slots \cup {Timer} /\ \A t \in DOMAIN calls' : IsCall(calls'[t])
  <2> DEFINE c == [calls[s] EXCEPT !.phase = phase]
  <2>1. c.method = calls[s].method /\ c.wire = calls[s].wire /\ c.phase = phase
    BY <1>2
  <2>2. calls' = [calls EXCEPT ![s] = c]
    BY <1>3 DEF Goto
  <2> HIDE DEF c
  <2>3. IsCall(c)
    BY <1>1, <1>3, <2>1 DEF IsCall
  <2> QED BY <2>2, <2>3, SetCallKeepsCalls
<1>4. ASSUME Settle(s)
      PROVE  DOMAIN calls' = Slots \cup {Timer} /\ \A t \in DOMAIN calls' : IsCall(calls'[t])
  BY <1>4, NoCallIsACall, SetCallKeepsCalls DEF Settle
<1>5. CASE stopReserveTimer(s)
  <2>1. \E phase \in {"timed", "stopped"} : Goto(s, phase)
    BY <1>5 DEF stopReserveTimer
  <2>2. /\ UNCHANGED <<kubernetes, client, gsState, gsMetadata, working, used>>
        /\ reserveTimer' = FALSE /\ gsReserveDuration' = FALSE /\ calls[s].phase # "none"
    BY <1>5 DEF stopReserveTimer
  <2> QED BY <1>3, <2>1, <2>2 DEF TypeInv, StateInv, kubernetes, working
<1>6. CASE SetReserveDuration(s)
  <2>1. /\ UNCHANGED <<kubernetes, client, gsState, reserveTimer, gsMetadata, working, used>>
        /\ gsReserveDuration' = TRUE /\ Goto(s, "stopped") /\ calls[s].phase # "none"
    BY <1>6 DEF SetReserveDuration, At
  <2> QED BY <1>3, <2>1 DEF TypeInv, StateInv, kubernetes, working
<1>7. CASE SetState(s)
  <2>1. /\ UNCHANGED <<kubernetes, client, reservation, gsMetadata, worker, used>>
        /\ Settle(s) /\ workerqueue' = workerqueue \cup {"updateState"}
        /\ gsState' = IF gsState = "Unhealthy" THEN gsState ELSE Target[calls[s].method]
    BY <1>7 DEF SetState, enqueueState, Enqueue
  <2>2. calls[s].method \in DOMAIN Target
    BY <1>1, <1>7 DEF SetState, CallsInv
  <2>3. Target[calls[s].method] \in {"RequestReady", "Allocated", "Shutdown", "Reserved"}
    BY <2>2 DEF Target
  <2>4. StateInv' /\ (workerqueue \subseteq Operations)'
    BY <2>1, <2>3 DEF TypeInv, StateInv, Operations, States, NotReady
  <2> QED BY <1>4, <2>1, <2>4 DEF TypeInv, kubernetes, reservation
<1>8. ASSUME NEW kind \in Kinds, SetMetadata(s, kind) PROVE TypeInv'
  <2> DEFINE in == In(s, KeyValue)
             set == [k \in {in.key} |-> in.value]
  <2>1. /\ UNCHANGED <<kubernetes, client, gsState, reservation, worker, used>> /\ Settle(s)
        /\ \/ UNCHANGED <<gsMetadata, workerqueue>>
           \/ /\ in.key # ""
              /\ gsMetadata' = [gsMetadata EXCEPT ![kind] = Over(set, gsMetadata[kind])]
              /\ workerqueue' = workerqueue \cup {OperationOf[kind]}
    BY <1>8 DEF SetMetadata, Enqueue
  <2>2. IsKeyValue(in)
    <3>1. calls[s].method = MethodOf[kind] /\ calls[s].phase = "sent"
      BY <1>8 DEF SetMetadata, At
    <3>2. MethodOf[kind] \in {"SetLabel", "SetAnnotation"}
      BY DEF MethodOf, Kinds
    <3> QED BY <1>1, <3>1, <3>2 DEF IsCall, In
  <2>3. OperationOf[kind] \in Operations /\ OperationOf[kind] # "updateState"
    BY DEF OperationOf, Operations, Kinds
  <2>4. in.key # "" => set \in Metadata
    <3>1. in.key # "" => {in.key} \in SUBSET Keys /\ set \in [{in.key} -> Values]
      BY <2>2 DEF IsKeyValue
    <3> HIDE DEF set
    <3> QED BY <3>1 DEF Metadata
  <2> HIDE DEF in, set
  <2>5. gsMetadata' \in [Kinds -> Metadata]
    <3>1. gsMetadata \in [Kinds -> Metadata] /\ gsMetadata[kind] \in Metadata
      BY DEF TypeInv
    <3>2. CASE UNCHANGED gsMetadata
      BY <3>1, <3>2
    <3>3. CASE in.key # "" /\ gsMetadata' = [gsMetadata EXCEPT ![kind] = Over(set, gsMetadata[kind])]
      <4>1. Over(set, gsMetadata[kind]) \in Metadata
        BY <2>4, <3>1, <3>3, OverIsMetadata
      <4> QED BY <3>1, <3>3, <4>1
    <3> QED BY <2>1, <3>2, <3>3
  <2>6. StateInv' /\ (workerqueue \subseteq Operations)'
    BY <2>1, <2>3 DEF TypeInv, StateInv
  <2> QED BY <1>4, <2>1, <2>5, <2>6 DEF TypeInv, kubernetes, reservation
<1> QED BY <1>5, <1>6, <1>7, <1>8 DEF Handle

LEMMA NoWorkIsAWorker ==
    ASSUME NEW o \in Operations \cup {"none", "armTimer"}
    PROVE  IsWorker([NoWork EXCEPT !.operation = o]) /\ IsWorker(NoWork)
<1>1. [NoWork EXCEPT !.operation = o] = [operation |-> o, copy |-> {}]
  BY DEF NoWork
<1>2. NoWork = [operation |-> "none", copy |-> {}]
  BY DEF NoWork
<1> QED BY <1>1, <1>2 DEF IsWorker

\* What is left to show for a step of the worker, or of the lister.
LEMMA WorkerKeepsTypes ==
    ASSUME TypeInv, gameServer' \in GameServers, cached' \in GameServers, IsWorker(worker'),
           workerqueue' \subseteq Operations, StateInv', reserveTimer' \in BOOLEAN,
           used' \in [{"calls", "disturbances"} -> Nat],
           UNCHANGED <<client, calls, gsReserveDuration, gsMetadata>>
    PROVE  TypeInv'
BY DEF TypeInv

LEMMA CopyIsTyped ==
    ASSUME TypeInv, NEW c \in GameServers, worker' = [worker EXCEPT !.copy = {c}],
           worker.operation \in Operations
    PROVE  IsWorker(worker') /\ worker'.operation = worker.operation
<1>1. worker' = [operation |-> worker.operation, copy |-> {c}]
  BY DEF TypeInv, IsWorker
<1> QED BY <1>1 DEF IsWorker

LEMMA WorkKeepsTypes ==
    ASSUME TypeInv, Work
    PROVE  TypeInv'
<1>1. /\ gameServer \in GameServers /\ cached \in GameServers /\ IsWorker(worker) /\ StateInv
      /\ workerqueue \subseteq Operations /\ used \in [{"calls", "disturbances"} -> Nat]
      /\ gsReserveDuration \in BOOLEAN /\ reserveTimer \in BOOLEAN
      /\ gsMetadata \in [Kinds -> Metadata]
  BY DEF TypeInv
<1>2. IsWorker(NoWork) /\ NoWork.operation = "none"
  BY NoWorkIsAWorker DEF NoWork
<1>3. CASE updateState
  <2> DEFINE until == gsState = "Reserved" /\ gsReserveDuration
             c == [cached EXCEPT !.state = gsState, !.until = until]
  <2>1. worker' = NoWork \/ worker' = [worker EXCEPT !.copy = {c}]
    BY <1>3 DEF updateState
  <2>2. /\ UNCHANGED <<gameServer, cached, client, calls, gsState, reservation, gsMetadata,
                       workerqueue, used>>
        /\ worker.operation = "updateState"
    BY <1>3 DEF updateState, kubernetes
  <2>3. gsState \in States
    BY <1>1, <2>2 DEF StateInv
  <2>4. c \in GameServers
    <3>1. until \in BOOLEAN
      OBVIOUS
    <3> HIDE DEF until
    <3> QED BY <1>1, <2>3, <3>1, ChangedGameServer
  <2> HIDE DEF c
  <2>5. IsWorker(worker')
    BY <1>2, <2>1, <2>2, <2>4, CopyIsTyped DEF Operations
  <2>6. StateInv'
    BY <1>1, <1>2, <2>1, <2>2, <2>4, CopyIsTyped DEF StateInv, Operations
  <2> QED BY <1>1, <2>2, <2>5, <2>6, WorkerKeepsTypes DEF reservation
<1>4. ASSUME NEW kind \in Kinds, updateMetadata(kind) PROVE TypeInv'
  <2> DEFINE m == Over(gsMetadata[kind], cached.metadata[kind])
             c == [cached EXCEPT !.metadata[kind] = m]
  <2>1. /\ UNCHANGED <<gameServer, cached, client, calls, gsState, reservation, gsMetadata,
                       workerqueue, used>>
        /\ worker.operation = OperationOf[kind] /\ worker' = [worker EXCEPT !.copy = {c}]
    BY <1>4 DEF updateMetadata, kubernetes
  <2>2. OperationOf[kind] \in Operations
    BY DEF OperationOf, Operations, Kinds
  <2>3. m \in Metadata
    <3>1. gsMetadata[kind] \in Metadata /\ cached.metadata[kind] \in Metadata
      BY <1>1, GameServerFields
    <3> QED BY <3>1, OverIsMetadata
  <2> HIDE DEF m
  <2>4. c \in GameServers
    BY <1>1, <2>3, ChangedGameServer
  <2> HIDE DEF c
  <2>5. IsWorker(worker') /\ worker'.operation = worker.operation
    BY <2>1, <2>2, <2>4, CopyIsTyped
  <2>6. StateInv'
    BY <1>1, <2>1, <2>5 DEF StateInv
  <2> QED BY <1>1, <2>1, <2>5, <2>6, WorkerKeepsTypes DEF reservation
<1>5. CASE patchGameServer
  <2> DEFINE copy == Or(worker.copy, cached)
  <2>1. /\ worker.copy # {} /\ Applied(copy)
        /\ worker' \in {NoWork, [NoWork EXCEPT !.operation = "armTimer"]}
        /\ UNCHANGED <<cached, client, calls, gsState, reservation, gsMetadata, workerqueue, used>>
    BY <1>5 DEF patchGameServer
  <2>2. copy \in GameServers
    BY <1>1, <2>1, OrPicks DEF IsWorker
  <2> HIDE DEF copy
  <2>3. gameServer' \in GameServers
    BY <2>1, <2>2, AppliedIsTyped
  <2>4. IsWorker(worker') /\ worker'.operation # "updateState"
    <3>1. IsWorker([NoWork EXCEPT !.operation = "armTimer"])
          /\ [NoWork EXCEPT !.operation = "armTimer"].operation = "armTimer"
      BY NoWorkIsAWorker DEF NoWork
    <3> QED BY <1>2, <2>1, <3>1
  <2>5. StateInv'
    BY <1>1, <2>1, <2>4 DEF StateInv
  <2> QED BY <1>1, <2>1, <2>3, <2>4, <2>5, WorkerKeepsTypes DEF reservation
<1>6. CASE PatchFails
  <2> DEFINE copy == Or(worker.copy, cached)
  <2>1. /\ worker.copy # {} /\ (gameServer' = gameServer \/ Applied(copy))
        /\ (UNCHANGED used \/ Use("disturbances", MaxDisturbances))
        /\ worker' = NoWork /\ workerqueue' = workerqueue \cup {worker.operation}
        /\ UNCHANGED <<cached, client, calls, gsState, reservation, gsMetadata>>
    BY <1>6 DEF PatchFails, TryAgain, Enqueue
  <2>2. copy \in GameServers
    BY <1>1, <2>1, OrPicks DEF IsWorker
  <2> HIDE DEF copy
  <2>3. gameServer' \in GameServers
    BY <1>1, <2>1, <2>2, AppliedIsTyped
  <2>4. used' \in [{"calls", "disturbances"} -> Nat]
    BY <1>1, <2>1, UseCounts
  <2>5. workerqueue' \subseteq Operations
    BY <1>1, <2>1 DEF IsWorker
  <2>6. StateInv'
    BY <1>1, <1>2, <2>1 DEF StateInv
  <2> QED BY <1>1, <1>2, <2>1, <2>3, <2>4, <2>5, <2>6, WorkerKeepsTypes DEF reservation
<1>7. CASE resetReserveAfter
  <2>1. /\ reserveTimer' \in BOOLEAN /\ worker' = NoWork
        /\ UNCHANGED <<gameServer, cached, client, calls, gsState, gsReserveDuration, gsMetadata,
                       workerqueue, used>>
    BY <1>7 DEF resetReserveAfter, kubernetes
  <2>2. StateInv'
    BY <1>1, <1>2, <2>1 DEF StateInv
  <2> QED BY <1>1, <1>2, <2>1, <2>2, WorkerKeepsTypes
<1> QED BY <1>3, <1>4, <1>5, <1>6, <1>7 DEF Work

LEMMA OthersKeepTypes ==
    ASSUME TypeInv, ControllerMakesReady \/ \E change \in Changes : Others(change)
    PROVE  TypeInv'
<1>1. \A gs \in GameServers : ChangeTo(gs) => gameServer' \in GameServers
  BY ChangedGameServer DEF ChangeTo
<1>2. /\ [gameServer EXCEPT !.state = "Ready"] \in GameServers
      /\ [gameServer EXCEPT !.state = "Allocated"] \in GameServers
      /\ [gameServer EXCEPT !.deleted = TRUE] \in GameServers
      /\ [gameServer EXCEPT !.state = "Unhealthy"] \in GameServers
  BY ChangedGameServer DEF TypeInv, States
<1>3. gameServer' \in GameServers
  BY <1>1, <1>2 DEF ControllerMakesReady, Others
<1>4. UNCHANGED used \/ Use("disturbances", MaxDisturbances)
  BY DEF ControllerMakesReady, Others
<1>5. used' \in [{"calls", "disturbances"} -> Nat]
  BY <1>4, UseCounts DEF TypeInv
<1>6. UNCHANGED <<cached, client, calls, gsState, reservation, gsMetadata, working>>
  BY DEF ControllerMakesReady, Others, ChangeTo
<1> QED BY <1>3, <1>5, <1>6 DEF TypeInv, StateInv, reservation, working

LEMMA TypeInit == Init => TypeInv
<1> SUFFICES ASSUME Init PROVE TypeInv
  OBVIOUS
<1>1. gameServer \in GameServers /\ cached \in GameServers
  BY EmptyIsMetadata DEF Init, GameServers, States, NotReady
<1>2. workerqueue = {} /\ IsWorker(worker) /\ worker.operation = "none"
  <2>1. worker = NoWork /\ NoWork.operation = "none"
    BY DEF Init, NoWork
  <2> QED BY <2>1, NoWorkIsAWorker DEF Init
<1>3. gsMetadata \in [Kinds -> Metadata]
  BY EmptyIsMetadata DEF Init
<1>4. DOMAIN calls = Slots \cup {Timer} /\ \A s \in DOMAIN calls : IsCall(calls[s])
  BY NoCallIsACall DEF Init
<1>5. used \in [{"calls", "disturbances"} -> Nat]
  <2>1. used = [calls |-> 0, disturbances |-> 0]
    BY DEF Init
  <2>2. /\ DOMAIN used = {"calls", "disturbances"} /\ used["calls"] = 0 /\ used["disturbances"] = 0
        /\ used = [x \in {"calls", "disturbances"} |-> used[x]]
    BY <2>1
  <2> QED BY <2>2
<1>6. StateInv
  BY <1>2 DEF Init, StateInv
<1>7. client.running \in BOOLEAN /\ gsReserveDuration \in BOOLEAN /\ reserveTimer \in BOOLEAN
  BY DEF Init
<1> QED BY <1>1, <1>2, <1>3, <1>4, <1>5, <1>6, <1>7 DEF TypeInv

LEMMA TypeNext ==
    ASSUME TypeInv, CallsInv, HealthInv, [Next]_vars
    PROVE  TypeInv'
<1>1. ASSUME NEW s \in Slots, NEW request \in Requests, Send(s, request) PROVE TypeInv'
  <2> DEFINE c == [method |-> request.method, wire |-> request.wire, phase |-> "sent"]
  <2>1. IsCall(c)
    BY RequestsAssumption DEF IsCall
  <2>2. calls' = [calls EXCEPT ![s] = c] /\ s \in DOMAIN calls
    BY <1>1 DEF Send, TypeInv
  <2> HIDE DEF c
  <2>3. DOMAIN calls' = Slots \cup {Timer} /\ \A t \in DOMAIN calls' : IsCall(calls'[t])
    BY <2>1, <2>2, SetCallKeepsCalls
  <2>4. used' \in [{"calls", "disturbances"} -> Nat]
    BY <1>1, UseCounts DEF Send, TypeInv
  <2>5. UNCHANGED <<kubernetes, client, gsState, reservation, gsMetadata, working>>
    BY <1>1 DEF Send
  <2> QED BY <2>3, <2>4, <2>5 DEF TypeInv, StateInv, kubernetes, reservation, working
<1>2. CASE healthPing \/ Stop
  <2>1. UNCHANGED <<kubernetes, calls, gsState, reservation, gsMetadata, working, used>>
    BY <1>2 DEF healthPing, Stop
  <2>2. client'.running \in BOOLEAN
    <3>1. PICK r, h, n : client = [running |-> r, healthStream |-> h, silence |-> n]
      BY DEF HealthInv, IsClient
    <3>2. r \in BOOLEAN
      BY <3>1 DEF TypeInv
    <3>3. CASE Stop
      BY <3>1, <3>3 DEF Stop
    <3>4. CASE healthPing
      <4>1. client'.running = client.running
        BY <3>1, <3>4 DEF healthPing
      <4> QED BY <4>1 DEF TypeInv
    <3> QED BY <1>2, <3>3, <3>4
  <2> QED BY <2>1, <2>2 DEF TypeInv, StateInv, kubernetes, reservation, working
<1>3. CASE SomeCall
  BY <1>3, HandleKeepsTypes DEF SomeCall
<1>4. CASE ReserveTimerFires
  <2> DEFINE c == [method |-> "Ready", wire |-> ready.wire, phase |-> "sent"]
  <2>1. IsCall(c)
    BY DEF IsCall
  <2>2. calls' = [calls EXCEPT ![Timer] = c] /\ Timer \in DOMAIN calls
    BY <1>4 DEF ReserveTimerFires, TypeInv
  <2> HIDE DEF c
  <2>3. DOMAIN calls' = Slots \cup {Timer} /\ \A t \in DOMAIN calls' : IsCall(calls'[t])
    BY <2>1, <2>2, SetCallKeepsCalls
  <2>4. /\ UNCHANGED <<kubernetes, client, gsState, gsReserveDuration, gsMetadata, working, used>>
        /\ reserveTimer' = FALSE
    BY <1>4 DEF ReserveTimerFires
  <2> QED BY <2>3, <2>4 DEF TypeInv, StateInv, kubernetes, working
<1>5. CASE checkHealthUpdateState
  <2>1. /\ UNCHANGED <<kubernetes, calls, reservation, gsMetadata, worker, used>>
        /\ \/ UNCHANGED <<gsState, workerqueue>>
           \/ gsState' = "Unhealthy" /\ workerqueue' = workerqueue \cup {"updateState"}
    BY <1>5 DEF checkHealthUpdateState, CountFailure, healthy, TurnUnhealthy, enqueueState,
                Enqueue, working
  <2>2. client'.running = client.running
    <3>1. PICK r, h, n : client = [running |-> r, healthStream |-> h, silence |-> n]
      BY DEF HealthInv, IsClient
    <3> QED BY <1>5, <3>1 DEF checkHealthUpdateState, CountFailure, healthy, TurnUnhealthy
  <2>3. StateInv' /\ workerqueue' \subseteq Operations
    BY <2>1 DEF TypeInv, StateInv, Operations, States
  <2> QED BY <2>1, <2>2, <2>3 DEF TypeInv, kubernetes, reservation
<1>6. ASSUME NEW operation \in workerqueue, StartWork(operation) PROVE TypeInv'
  <2>1. /\ worker' = [NoWork EXCEPT !.operation = operation] /\ worker'.operation = operation
        /\ workerqueue' = workerqueue \ {operation} /\ operation \in Operations
        /\ UNCHANGED <<kubernetes, client, calls, gsState, reservation, gsMetadata, used>>
    BY <1>6 DEF StartWork, NoWork, TypeInv
  <2>2. IsWorker(worker')
    BY <2>1, NoWorkIsAWorker
  <2>3. StateInv'
    BY <2>1 DEF TypeInv, StateInv
  <2> QED BY <2>1, <2>2, <2>3 DEF TypeInv, kubernetes, reservation
<1>7. CASE Work
  BY <1>7, WorkKeepsTypes
<1>8. CASE Sync
  BY <1>8 DEF Sync, TypeInv, StateInv, reservation, working
<1>9. CASE ControllerMakesReady \/ \E change \in Changes : Others(change)
  BY <1>9, OthersKeepTypes
<1>10. CASE Restart
  <2>1. /\ UNCHANGED gameServer /\ cached' = gameServer
        /\ calls' = [s \in DOMAIN calls |-> NoCall] /\ gsState' = "" /\ gsReserveDuration' = FALSE
        /\ reserveTimer' = TimerToResume /\ gsMetadata' = NoMetadata
        /\ workerqueue' = {} /\ worker' = NoWork /\ Use("disturbances", MaxDisturbances)
    BY <1>10 DEF Restart
  <2>2. client'.running = client.running
    <3>1. PICK r, h, n : client = [running |-> r, healthStream |-> h, silence |-> n]
      BY DEF HealthInv, IsClient
    <3> QED BY <1>10, <3>1 DEF Restart
  <2>3. reserveTimer' \in BOOLEAN
    <3>1. gameServer.until \in BOOLEAN
      BY GameServerFields DEF TypeInv
    <3> QED BY <2>1, <3>1 DEF TimerToResume
  <2>4. used' \in [{"calls", "disturbances"} -> Nat]
    BY <2>1, UseCounts DEF TypeInv
  <2>5. IsWorker(worker') /\ worker'.operation = "none"
    BY <2>1, NoWorkIsAWorker DEF NoWork
  <2>6. StateInv'
    BY <2>1, <2>5 DEF StateInv
  <2>7. DOMAIN calls' = Slots \cup {Timer} /\ \A s \in DOMAIN calls' : IsCall(calls'[s])
    BY <2>1, NoCallIsACall DEF TypeInv
  <2> QED BY <2>1, <2>2, <2>3, <2>4, <2>5, <2>6, <2>7, EmptyIsMetadata DEF TypeInv
<1>11. CASE UNCHANGED vars
  BY <1>11 DEF vars, TypeInv, StateInv, kubernetes, reservation, working
<1> QED BY <1>1, <1>2, <1>3, <1>4, <1>5, <1>6, <1>7, <1>8, <1>9, <1>10, <1>11 DEF Next

LEMMA TypeInvariant == Spec => [](TypeInv /\ HealthInv)
<1>1. TypeInv /\ (HealthInv /\ CallsInv) /\ [Next]_vars => TypeInv'
  BY TypeNext
<1> QED BY TypeInit, <1>1, HealthInvariant, PTL DEF Spec

LEMMA TypeInvImpliesTypeOK == TypeInv /\ HealthInv => TypeOK
<1> SUFFICES ASSUME TypeInv, HealthInv PROVE TypeOK
  OBVIOUS
<1>1. client \in [running : BOOLEAN, healthStream : {"undefined", "open", "broken"},
                  silence : 0..FailureThreshold]
  BY DEF TypeInv, HealthInv, IsClient
<1>2. \A s \in DOMAIN calls : calls[s].phase \in {"none", "sent", "timed", "stopped"}
  BY DEF TypeInv, IsCall
<1> QED BY <1>1, <1>2 DEF TypeOK, TypeInv, HealthInv, IsHealth, IsWorker, StateInv

\* Every variable keeps its type: only valid names get into the labels and annotations, and the
\* SDK server never asks for Ready or Scheduled.
THEOREM TypeCorrect == Spec => []TypeOK
BY TypeInvariant, TypeInvImpliesTypeOK, PTL
=============================================================================
