----------------------------- MODULE SDKSession -----------------------------
(***************************************************************************)
(* The life of a game server as its SDK drives it: the AgonesSDK class of  *)
(* the Node.js SDK and, in the SDK server, the state it was asked for, the *)
(* reservation and its timer, labels and annotations, the health check     *)
(* and the worker that patches the GameServer - while the controllers, the *)
(* allocator and users change it too, and the SDK server may be restarted. *)
(***************************************************************************)
EXTENDS SDKMessages, FiniteSets

CONSTANTS
    Requests,           \* the calls a game server may make, see Call below
    Slots,              \* the calls that can be under way at one time
    Keys, Values,       \* of labels and annotations: the valid names, and what they are set to
    Changes,            \* what others may do to it: "Allocate", "Delete", "Fail"
    FailureThreshold,   \* Spec.Health.FailureThreshold
    HealthDisabled,     \* Spec.Health.Disabled
    MaxCalls,           \* how many calls the game server makes
    MaxDisturbances     \* how many changes of others, faults and restarts there are

ASSUME SDKSessionAssumption ==
    /\ Changes \subseteq {"Allocate", "Delete", "Fail"} /\ FailureThreshold \in Nat \ {0}
    /\ HealthDisabled \in BOOLEAN /\ MaxCalls \in Nat /\ MaxDisturbances \in Nat

Timer == "timer"
ASSUME TimerAssumption == Timer \notin Slots

VARIABLES
    gameServer,         \* the GameServer in the API server
    cached,             \* the lister's copy
    client,             \* the game server process and its AgonesSDK object
    calls,              \* the calls that are under way, that of the timer included
    gsState,            \* s.gsState
    gsReserveDuration,  \* whether s.gsReserveDuration is set
    reserveTimer,       \* whether s.reserveTimer is running
    gsMetadata,         \* s.gsLabels and s.gsAnnotations
    health,             \* the health check
    workerqueue, worker,
    used                \* how many calls and disturbances there have been

kubernetes == <<gameServer, cached>>
reservation == <<gsReserveDuration, reserveTimer>>
working == <<workerqueue, worker>>
vars == <<kubernetes, client, calls, gsState, reservation, gsMetadata, health, working, used>>

NotReady == {"Scheduled", "RequestReady"}
States == NotReady \cup {"Ready", "Allocated", "Reserved", "Unhealthy", "Shutdown"}
Kinds == {"labels", "annotations"}
NoMetadata == [k \in Kinds |-> Blank]
MethodOf == [labels |-> "SetLabel", annotations |-> "SetAnnotation"]
OperationOf == [labels |-> "updateLabel", annotations |-> "updateAnnotation"]

NoCall == [method |-> "none", wire |-> Blank, phase |-> "none"]
NoWork == [operation |-> "none", copy |-> {}]

Use(what, bound) == used[what] < bound /\ used' = [used EXCEPT ![what] = @ + 1]

\* What f has, and what g has of the rest.
Over(f, g) == [x \in DOMAIN f \cup DOMAIN g |-> IF x \in DOMAIN f THEN f[x] ELSE g[x]]

IsBeingDeleted(gs) == gs.deleted \/ gs.state = "Shutdown"

-----------------------------------------------------------------------------
(* The client. *)

Call(method, message, blank) == [method |-> method, wire |-> Encode(message, blank)]

ready == Call("Ready", Empty, Empty)
allocate == Call("Allocate", Empty, Empty)
shutdown == Call("Shutdown", Empty, Empty)
reserve(duration) == Call("Reserve", [Duration EXCEPT !.seconds = duration], Duration)
setLabel(key, value) ==
    Call("SetLabel", [KeyValue EXCEPT !.key = key, !.value = value], KeyValue)
setAnnotation(key, value) ==
    Call("SetAnnotation", [KeyValue EXCEPT !.key = key, !.value = value], KeyValue)

\* A name that is not valid is "", see SetMetadata.
IsKeyValue(in) == in.key \in Keys \cup {""} /\ in.value \in Values

ASSUME RequestsAssumption ==
    \A request \in Requests :
        request.method \in {"SetLabel", "SetAnnotation"} => IsKeyValue(Decode(request.wire, KeyValue))

Send(s, request) ==
    /\ client.running /\ calls[s].phase = "none"
    /\ Use("calls", MaxCalls)
    /\ calls' = [calls EXCEPT ![s] = [method |-> request.method, wire |-> request.wire, phase |-> "sent"]]
    /\ UNCHANGED <<kubernetes, client, gsState, reservation, gsMetadata, health, working>>

\* A mutant: a ping does not make up for the checks that failed before it.
TouchedOnly == [health EXCEPT !.touched = TRUE]

touchHealthLastUpdated == [touched |-> TRUE, failureCount |-> 0, check |-> health.check]

\* The stream of pings is opened by the first one, and never again.  silence counts the
\* checks since the last ping.
healthPing ==
    /\ client.running
    /\ client' = [client EXCEPT !.silence = 0, !.healthStream = IF @ = "undefined" THEN "open" ELSE @]
    /\ IF client'.healthStream = "open"
          THEN health' = touchHealthLastUpdated
          ELSE UNCHANGED health
    /\ UNCHANGED <<kubernetes, calls, gsState, reservation, gsMetadata, working, used>>

\* close, or a process that hangs: it makes no more calls, but what it sent is handled.
Stop ==
    /\ client.running
    /\ client' = [client EXCEPT !.running = FALSE]
    /\ UNCHANGED <<kubernetes, calls, gsState, reservation, gsMetadata, health, working, used>>

-----------------------------------------------------------------------------
(* The handlers.  Each critical section of s.gsUpdateMutex is a step. *)

Enqueue(operation) == workerqueue' = workerqueue \cup {operation}
At(s, method, phase) == calls[s].method = method /\ calls[s].phase = phase
Goto(s, phase) == calls' = [calls EXCEPT ![s].phase = phase]
Settle(s) == calls' = [calls EXCEPT ![s] = NoCall]
In(s, blank) == Decode(calls[s].wire, blank)

stopReserveTimer(s) ==
    /\ calls[s].phase = "sent" /\ calls[s].method \in {"Ready", "Allocate", "Shutdown", "Reserve"}
    /\ reserveTimer' = FALSE /\ gsReserveDuration' = FALSE
    /\ Goto(s, IF calls[s].method = "Reserve" /\ In(s, Duration).seconds > 0 THEN "timed" ELSE "stopped")
    /\ UNCHANGED <<kubernetes, client, gsState, gsMetadata, health, working, used>>

\* 0 is forever.
SetReserveDuration(s) ==
    /\ At(s, "Reserve", "timed")
    /\ gsReserveDuration' = TRUE
    /\ Goto(s, "stopped")
    /\ UNCHANGED <<kubernetes, client, gsState, reserveTimer, gsMetadata, health, working, used>>

\* A mutant: the SDK server makes a GameServer Ready itself.
ReadyAtOnce == [Ready |-> "Ready", Allocate |-> "Allocated", Shutdown |-> "Shutdown",
                Reserve |-> "Reserved"]

Target == [Ready |-> "RequestReady", Allocate |-> "Allocated", Shutdown |-> "Shutdown",
           Reserve |-> "Reserved"]

\* Unhealthy stays.
enqueueState(state) ==
    /\ gsState' = IF gsState = "Unhealthy" THEN gsState ELSE state
    /\ Enqueue("updateState")

SetState(s) ==
    /\ calls[s].phase = "stopped"
    /\ enqueueState(Target[calls[s].method])
    /\ Settle(s)
    /\ UNCHANGED <<kubernetes, client, reservation, gsMetadata, health, worker, used>>

\* A key that is no qualified name is refused.
SetMetadata(s, kind) ==
    LET in == In(s, KeyValue)
    IN  /\ At(s, MethodOf[kind], "sent")
        /\ IF in.key = ""
              THEN UNCHANGED <<gsMetadata, workerqueue>>
              ELSE /\ gsMetadata' = [gsMetadata EXCEPT ![kind] = Over([k \in {in.key} |-> in.value], @)]
                   /\ Enqueue(OperationOf[kind])
        /\ Settle(s)
        /\ UNCHANGED <<kubernetes, client, gsState, reservation, health, worker, used>>

Handle(s) ==
    \/ stopReserveTimer(s) \/ SetReserveDuration(s) \/ SetState(s)
    \/ \E kind \in Kinds : SetMetadata(s, kind)

\* resetReserveAfter: the function of the timer is a call of Ready.
ReserveTimerFires ==
    /\ reserveTimer /\ calls[Timer].phase = "none"
    /\ reserveTimer' = FALSE
    /\ calls' = [calls EXCEPT ![Timer] = [method |-> "Ready", wire |-> ready.wire, phase |-> "sent"]]
    /\ UNCHANGED <<kubernetes, client, gsState, gsReserveDuration, gsMetadata, health, working, used>>

-----------------------------------------------------------------------------
(* The health check, once per Spec.Health.PeriodSeconds: checkHealth and    *)
(* healthy take s.healthMutex one after the other, enqueueState takes       *)
(* s.gsUpdateMutex.  Pings, calls and the worker come in between.           *)

AtMost(n, bound) == IF n > bound THEN bound ELSE n

\* A mutant: nothing is counted before the first ping.
FailuresSinceTheFirstPing ==
    {health.failureCount + n : n \in IF client.healthStream = "undefined" THEN {0}
                                     ELSE IF health.touched THEN {0, 1} ELSE {1}}

\* A ping that came right after a check is more than a period old at the next one.
checkHealth == {health.failureCount + n : n \in IF health.touched THEN {0, 1} ELSE {1}}

CountFailure ==
    /\ ~HealthDisabled /\ health.check = "none"
    /\ \E n \in checkHealth :
         health' = [touched |-> FALSE, failureCount |-> AtMost(n, FailureThreshold),
                    check |-> "counted"]
    /\ client' = [client EXCEPT !.silence = AtMost(@ + 1, FailureThreshold)]
    /\ UNCHANGED <<kubernetes, calls, gsState, reservation, gsMetadata, working, used>>

healthy ==
    /\ health.check = "counted"
    /\ health' = [health EXCEPT !.check =
                     IF health.failureCount < FailureThreshold THEN "none" ELSE "failed"]
    /\ UNCHANGED <<kubernetes, client, calls, gsState, reservation, gsMetadata, working, used>>

\* Whatever came since: a ping does not take it back.
TurnUnhealthy ==
    /\ health.check = "failed"
    /\ health' = [health EXCEPT !.check = "none"]
    /\ enqueueState("Unhealthy")
    /\ UNCHANGED <<kubernetes, client, calls, reservation, gsMetadata, worker, used>>

checkHealthUpdateState == CountFailure \/ healthy \/ TurnUnhealthy

-----------------------------------------------------------------------------
(* The worker: syncGameServer; a patch tests the resourceVersion.  The      *)
(* GameServer is read at the same moment as what is asked for: a lister     *)
(* that was read earlier is one that is further behind.                     *)

Operations == {"updateState", "updateLabel", "updateAnnotation"}

StartWork(operation) ==
    /\ worker = NoWork
    /\ operation \in workerqueue
    /\ workerqueue' = workerqueue \ {operation}
    /\ worker' = [NoWork EXCEPT !.operation = operation]
    /\ UNCHANGED <<kubernetes, client, calls, gsState, reservation, gsMetadata, health, used>>

\* There is no way back from these.
IsFinal(gs) == IsBeingDeleted(gs) \/ gs.state = "Unhealthy"

updateState ==
    /\ worker.operation = "updateState" /\ worker.copy = {}
    /\ worker' = IF IsFinal(cached) THEN NoWork
                 ELSE [worker EXCEPT !.copy =
                          {[cached EXCEPT !.state = gsState,
                                          !.until = gsState = "Reserved" /\ gsReserveDuration]}]
    /\ UNCHANGED <<kubernetes, client, calls, gsState, reservation, gsMetadata, health,
                   workerqueue, used>>

updateMetadata(kind) ==
    /\ worker.operation = OperationOf[kind] /\ worker.copy = {}
    /\ worker' = [worker EXCEPT !.copy =
                     {[cached EXCEPT !.metadata[kind] = Over(gsMetadata[kind], @)]}]
    /\ UNCHANGED <<kubernetes, client, calls, gsState, reservation, gsMetadata, health,
                   workerqueue, used>>

\* The times of a reservation and of an allocation are different in every patch.
SetsATime(copy) == worker.operation = "updateState" /\ (copy.until \/ copy.state = "Allocated")
Applied(copy) ==
    gameServer' = IF copy = gameServer /\ ~SetsATime(copy) THEN gameServer
                  ELSE [copy EXCEPT !.version = @ + 1]

\* A mutant: the patch does not test the resourceVersion.
NoTest(copy) == TRUE

PatchTests(copy) == copy.version = gameServer.version

patchGameServer ==
    LET copy == Or(worker.copy, cached)
    IN  /\ worker.copy # {}
        /\ PatchTests(copy) /\ Applied(copy)
        /\ worker' = IF worker.operation = "updateState" /\ copy.state = "Reserved"
                        THEN [NoWork EXCEPT !.operation = "armTimer"]
                        ELSE NoWork
        /\ UNCHANGED <<cached, client, calls, gsState, reservation, gsMetadata, health,
                       workerqueue, used>>

\* A mutant: an operation that failed is forgotten.
GiveUp == UNCHANGED workerqueue

TryAgain == Enqueue(worker.operation)

\* A conflict, a failed request, an answer that is lost after the patch was applied.
PatchFails ==
    LET copy == Or(worker.copy, cached)
    IN  /\ worker.copy # {}
        /\ \/ ~PatchTests(copy) /\ UNCHANGED <<gameServer, used>>
           \/ Use("disturbances", MaxDisturbances) /\ UNCHANGED gameServer
           \/ Use("disturbances", MaxDisturbances) /\ PatchTests(copy) /\ Applied(copy)
        /\ TryAgain
        /\ worker' = NoWork
        /\ UNCHANGED <<cached, client, calls, gsState, reservation, gsMetadata, health>>

\* What updateState does after a patch to Reserved.
resetReserveAfter ==
    /\ worker.operation = "armTimer"
    /\ reserveTimer' = (reserveTimer \/ gsReserveDuration)
    /\ worker' = NoWork
    /\ UNCHANGED <<kubernetes, client, calls, gsState, gsReserveDuration, gsMetadata, health,
                   workerqueue, used>>

Work ==
    \/ updateState
    \/ \E kind \in Kinds : updateMetadata(kind)
    \/ patchGameServer
    \/ PatchFails
    \/ resetReserveAfter

-----------------------------------------------------------------------------
(* The rest of the world. *)

Sync ==
    /\ cached # gameServer
    /\ cached' = gameServer
    /\ UNCHANGED <<gameServer, client, calls, gsState, reservation, gsMetadata, health,
                   working, used>>

ChangeTo(gs) ==
    /\ gameServer' = [gs EXCEPT !.version = @ + 1]
    /\ UNCHANGED <<cached, client, calls, gsState, reservation, gsMetadata, health, working>>

\* The controller; its step is not counted, a game server can ask only so often.
ControllerMakesReady ==
    /\ gameServer.state = "RequestReady" /\ ~gameServer.deleted
    /\ ChangeTo([gameServer EXCEPT !.state = "Ready"])
    /\ UNCHANGED used

Others(change) ==
    /\ Use("disturbances", MaxDisturbances)
    /\ \/ change = "Allocate" /\ gameServer.state = "Ready" /\ ~gameServer.deleted
          /\ ChangeTo([gameServer EXCEPT !.state = "Allocated"])
       \/ change = "Delete" /\ ~gameServer.deleted /\ ChangeTo([gameServer EXCEPT !.deleted = TRUE])
       \/ change = "Fail" /\ ~IsFinal(gameServer) /\ ChangeTo([gameServer EXCEPT !.state = "Unhealthy"])

\* A mutant: a restart loses the timer.
NoTimer == FALSE

TimerToResume == gameServer.state = "Reserved" /\ gameServer.until

\* Run after a restart of the SDK server: what it was told is gone; a reservation goes on.
Restart ==
    /\ Use("disturbances", MaxDisturbances)
    /\ cached' = gameServer
    /\ client' = [client EXCEPT !.healthStream = IF @ = "open" THEN "broken" ELSE @]
    /\ calls' = [s \in DOMAIN calls |-> NoCall]
    /\ gsState' = "" /\ gsReserveDuration' = FALSE
    /\ reserveTimer' = TimerToResume
    /\ gsMetadata' = NoMetadata
    /\ health' = [touchHealthLastUpdated EXCEPT !.check = "none"]
    /\ workerqueue' = {} /\ worker' = NoWork
    /\ UNCHANGED gameServer

-----------------------------------------------------------------------------
Init ==
    /\ gameServer = [state |-> "Scheduled", until |-> FALSE, deleted |-> FALSE, version |-> 1,
                     metadata |-> NoMetadata]
    /\ cached = gameServer
    /\ client = [running |-> TRUE, healthStream |-> "undefined", silence |-> 0]
    /\ calls = [s \in Slots \cup {Timer} |-> NoCall]
    /\ gsState = "" /\ gsReserveDuration = FALSE /\ reserveTimer = FALSE
    /\ gsMetadata = NoMetadata
    /\ health = [touched |-> TRUE, failureCount |-> 0, check |-> "none"]
    /\ workerqueue = {} /\ worker = NoWork
    /\ used = [calls |-> 0, disturbances |-> 0]

SomeCall == \E s \in DOMAIN calls : Handle(s)

Next ==
    \/ \E s \in Slots, request \in Requests : Send(s, request)
    \/ healthPing \/ Stop
    \/ SomeCall
    \/ ReserveTimerFires
    \/ checkHealthUpdateState
    \/ \E operation \in workerqueue : StartWork(operation)
    \/ Work
    \/ Sync
    \/ ControllerMakesReady \/ \E change \in Changes : Others(change)
    \/ Restart

\* Goroutines go on, timers fire, the kubelet probes; the work queue is served in
\* order, so no operation waits while another one comes back again and again.
Spec ==
    /\ Init /\ [][Next]_vars
    /\ WF_vars(SomeCall) /\ WF_vars(ReserveTimerFires)
    /\ WF_vars(checkHealthUpdateState)
    /\ \A operation \in Operations : SF_vars(StartWork(operation))
    /\ WF_vars(Work) /\ WF_vars(Sync)

-----------------------------------------------------------------------------
Metadata == UNION {[keys -> Values] : keys \in SUBSET Keys}
GameServers == [state : States, until : BOOLEAN, deleted : BOOLEAN, version : Nat,
                metadata : [Kinds -> Metadata]]

\* Every variable stays in its range: only valid names are in the metadata, and the SDK
\* server never asks for Ready itself, that is up to the controllers.
TypeOK ==
    /\ gameServer \in GameServers /\ cached \in GameServers
    /\ worker.copy \subseteq GameServers
    /\ worker.operation \in Operations \cup {"none", "armTimer"}
    /\ workerqueue \subseteq Operations
    /\ gsState \in {""} \cup (States \ {"Scheduled", "Ready"})
    /\ gsReserveDuration \in BOOLEAN /\ reserveTimer \in BOOLEAN
    /\ health \in [touched : BOOLEAN, failureCount : 0..FailureThreshold,
                   check : {"none", "counted", "failed"}]
    /\ client \in [running : BOOLEAN, healthStream : {"undefined", "open", "broken"},
                   silence : 0..FailureThreshold]
    /\ \A s \in DOMAIN calls : calls[s].phase \in {"none", "sent", "timed", "stopped"}
    /\ used \in [{"calls", "disturbances"} -> Nat]

\* "There is no escaping": however late the SDK server learns of it, it never moves a
\* GameServer that is Unhealthy, shut down or being deleted to another state
\* (updateState, sdkserver.go:375 and 389, and the test of the resourceVersion).
ThereIsNoEscaping ==
    [][Work => (IsFinal(gameServer) => gameServer'.state = gameServer.state)]_vars

\* The SDK server finds a game server unhealthy only after FailureThreshold checks since
\* the last ping, or once the stream that carries the pings is broken, and asks for
\* Unhealthy only when it has found that; with the checks disabled, never (checkHealth,
\* healthy and touchHealthLastUpdated, sdkserver.go:1448-1503).  A ping that comes
\* between healthy and enqueueState is too late.
OnlySilenceIsUnhealthy ==
    [][/\ health.check # "failed" /\ health'.check = "failed"
             => /\ ~HealthDisabled
                /\ client.silence >= FailureThreshold \/ client.healthStream = "broken"
       /\ gsState # "Unhealthy" /\ gsState' = "Unhealthy" => health.check = "failed"]_vars

\* What the SDK server has accepted gets to the GameServer, whatever conflicts, failures and
\* lost answers there are: the request to be shut down, unless something else is asked for
\* later or a restart forgets it, and the labels and annotations.
RequestsArrive ==
    /\ gsState = "Shutdown" ~> IsFinal(gameServer) \/ gsState # "Shutdown"
    /\ <>[](\A kind \in Kinds :
               gameServer.metadata[kind] = Over(gsMetadata[kind], gameServer.metadata[kind]))

\* A reservation for a time comes to its end, whatever restart, conflict or lost answer
\* there is between the patch and the timer (updateState, Run and resetReserveAfter).
ReservationEnds ==
    (gameServer.state = "Reserved" /\ gameServer.until)
        ~> (gameServer.state # "Reserved" \/ ~gameServer.until \/ gameServer.deleted)

\* A game server that hangs is found Unhealthy, whatever it was doing, unless the checks
\* are disabled.
HangIsNoticed == ~client.running /\ ~HealthDisabled ~> IsFinal(gameServer)

\* "Calling other state changing SDK commands such as Ready or Allocate will turn off the
\* timer" (Client SDKs/_index.md:118): a timer never overwrites another state that the
\* game server asked for.
TimerIsTurnedOff ==
    [][SetState(Timer) => gsState \in {"", "Reserved", "RequestReady", "Unhealthy"}]_vars
=============================================================================
