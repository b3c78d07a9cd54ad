------------------------------ MODULE SDKWatch ------------------------------
(***************************************************************************)
(* How a game server learns of its GameServer: getGameServer and           *)
(* watchGameServer of the Node.js SDK, and in the SDK server the two       *)
(* caches they are answered from, the streams of the watchers and the      *)
(* handler that sends them every update its informer has seen - while      *)
(* others and the SDK server itself change the GameServer.                 *)
(***************************************************************************)
EXTENDS SDKMessages, SequencesExt

CONSTANTS
    Watchers,               \* the calls of watchGameServer
    InitialGameServer,
    FeaturePlayerTracking,  \* the gate
    GameServerStates,       \* the states others may give it
    LabelValues,            \* the values they may give its label
    CounterKey, Counts,     \* the Counter, and what the SDK server may write to it
    MaxChanges, MaxRestarts

ASSUME SDKWatchAssumption ==
    /\ FeaturePlayerTracking \in BOOLEAN
    /\ MaxChanges \in Nat /\ MaxRestarts \in Nat
    /\ {"resourceVersion", "generation"} \subseteq DOMAIN InitialGameServer
    /\ InitialGameServer.resourceVersion \in Nat /\ InitialGameServer.generation \in Nat

VARIABLES
    gameServer,         \* the GameServer in the API server
    cached,             \* the lister's copy
    events,             \* the updates that the handler of the informer has still to see
    gsCopy,             \* s.gsCopy: {} or what the last batch made of the GameServer
    handlers,           \* [Watchers -> how far WatchGameServer is]
    connectedStreams,   \* s.connectedStreams
    open,               \* the streams that neither side has closed
    seen,               \* [Watchers -> {} or the last message on its stream]
    used                \* how many changes and restarts there have been

informer == <<cached, events>>
streams == <<handlers, connectedStreams, open, seen>>
vars == <<gameServer, informer, gsCopy, streams, used>>

Use(what, bound) == used[what] < bound /\ used' = [used EXCEPT ![what] = @ + 1]

-----------------------------------------------------------------------------
(* The GameServer as a message. *)

convert(gs) ==
    LET objectMeta ==
            [name |-> gs.name, namespace |-> gs.namespace, uid |-> gs.uid,
             resourceVersion |-> gs.resourceVersion, generation |-> gs.generation,
             creationTimestamp |-> gs.creationTimestamp,
             deletionTimestamp |-> Or(gs.deletionTimestamp, 0),
             annotationsMap |-> gs.annotations, labelsMap |-> gs.labels]
        status ==
            [state |-> gs.state, address |-> gs.address,
             addressesList |-> [i \in DOMAIN gs.addresses |-> Encode(gs.addresses[i], Address)],
             portsList |-> [i \in DOMAIN gs.ports |-> Encode(gs.ports[i], Port)],
             players |-> IF FeaturePlayerTracking THEN {Encode(p, PlayerStatus) : p \in gs.players} ELSE {},
             countersMap |-> [c \in DOMAIN gs.counters |-> Encode(gs.counters[c], CounterStatus)],
             listsMap |-> [l \in DOMAIN gs.lists |-> Encode(gs.lists[l], ListStatus)]]
    IN  Encode([objectMeta |-> {Encode(objectMeta, ObjectMeta)},
                spec |-> {Encode([health |-> {Encode(gs.health, Health)}], GameServerSpec)},
                status |-> {Encode(status, Status)}],
               GameServer)

\* What the callback gets.
toObject(encoded) ==
    LET Field(set, blank) == {Decode(m, blank) : m \in set}
        Each(messages, blank) == [i \in DOMAIN messages |-> Decode(messages[i], blank)]
        message == Decode(encoded, GameServer)
    IN  [objectMeta |-> Field(message.objectMeta, ObjectMeta),
         spec |-> {[health |-> Field(spec.health, Health)] : spec \in Field(message.spec, GameServerSpec)},
         status |-> {[status EXCEPT !.addressesList = Each(@, Address), !.portsList = Each(@, Port),
                                    !.players = Field(@, PlayerStatus),
                                    !.countersMap = Each(@, CounterStatus),
                                    !.listsMap = Each(@, ListStatus)] :
                         status \in Field(message.status, Status)}]

-----------------------------------------------------------------------------
(* The client. *)

watchGameServer(w) ==
    /\ handlers[w] = "none"
    /\ handlers' = [handlers EXCEPT ![w] = "called"]
    /\ open' = open \cup {w}
    /\ UNCHANGED <<gameServer, informer, gsCopy, connectedStreams, seen, used>>

\* A message on a stream, and the "data" event with it, whose callback gets toObject of it: a
\* stream keeps its messages in order, so that their time on the way makes no difference.
Sent(gs) == {convert(gs)}

\* close, or the end of its process.
close(w) ==
    /\ w \in open
    /\ open' = open \ {w}
    /\ UNCHANGED <<gameServer, informer, gsCopy, handlers, connectedStreams, seen, used>>

-----------------------------------------------------------------------------
(* The SDK server. *)

\* Mutants: the lister alone; the copy unless the lister is of a later generation.
OnlyTheLister == cached
CopyOfThisGeneration ==
    IF gsCopy # {} /\ cached.generation <= Or(gsCopy, cached).generation THEN Or(gsCopy, cached) ELSE cached

\* gameServer(), and so what getGameServer is answered with.
LatestGameServer ==
    IF gsCopy # {} /\ cached.generation < Or(gsCopy, cached).generation THEN Or(gsCopy, cached) ELSE cached

\* A mutant: the stream gets updates before its first message.
ConnectFirst(w) ==
    /\ handlers[w] = "called"
    /\ connectedStreams' = Append(connectedStreams, w)
    /\ seen' = [seen EXCEPT ![w] = Sent(LatestGameServer)]
    /\ handlers' = [handlers EXCEPT ![w] = "sent"]
    /\ UNCHANGED <<gameServer, informer, gsCopy, open, used>>

\* The first message goes out before the stream is one of those that get updates.
WatchGameServer(w) ==
    /\ handlers[w] = "called"
    /\ IF w \in open
          THEN /\ seen' = [seen EXCEPT ![w] = Sent(LatestGameServer)]
               /\ handlers' = [handlers EXCEPT ![w] = "sent"]
          ELSE handlers' = [handlers EXCEPT ![w] = "over"] /\ UNCHANGED seen
    /\ UNCHANGED <<gameServer, informer, gsCopy, connectedStreams, open, used>>

\* The handler then waits until the SDK server stops.
Connect(w) ==
    /\ handlers[w] = "sent"
    /\ connectedStreams' = Append(connectedStreams, w)
    /\ handlers' = [handlers EXCEPT ![w] = "over"]
    /\ UNCHANGED <<gameServer, informer, gsCopy, open, seen, used>>

\* A mutant: the first stream that is closed ends the loop.
UntilOneIsClosed ==
    LET closed == {i \in DOMAIN connectedStreams : connectedStreams[i] \notin open}
    IN  SelectSeq(connectedStreams,
                  LAMBDA w : \A i \in closed : \E j \in 1..(i - 1) : connectedStreams[j] = w)

remainingStreams ==
    FoldLeft(LAMBDA remaining, w : IF w \in open THEN Append(remaining, w) ELSE remaining,
             <<>>, connectedStreams)

\* Under s.streamMutex.
sendGameServerUpdate ==
    /\ events # <<>>
    /\ events' = Tail(events)
    /\ connectedStreams' = remainingStreams
    /\ seen' = [w \in Watchers |->
                   IF Contains(remainingStreams, w) THEN Sent(Head(events)) ELSE seen[w]]
    /\ UNCHANGED <<gameServer, cached, gsCopy, handlers, open, used>>

\* A mutant: what the client returned is kept before its error is looked at.
Nothing == {}

CopyAfterAnError == gsCopy

\* The worker writes a batch, and keeps the answer as gsCopy; a patch that meets a conflict
\* changes nothing, one whose answer is lost is like a change of somebody else.
updateCounter(count) ==
    LET copy == [LatestGameServer EXCEPT !.counters[CounterKey].count = count]
    IN  /\ Use("changes", MaxChanges)
        /\ copy.resourceVersion = gameServer.resourceVersion
        /\ gameServer' = IF copy = gameServer THEN gameServer
                         ELSE [copy EXCEPT !.resourceVersion = @ + 1, !.generation = @ + 1]
        /\ gsCopy' = {gameServer'} \/ gsCopy' = CopyAfterAnError
        /\ UNCHANGED <<informer, streams>>

-----------------------------------------------------------------------------
(* The rest of the world. *)

\* The informer stores what it has seen, and its handler is called later, without resyncs.
\* Versions that were overtaken are not shown one by one.
Sync ==
    /\ cached # gameServer
    /\ cached' = gameServer
    /\ events' = Append(events, gameServer)
    /\ UNCHANGED <<gameServer, gsCopy, streams, used>>

\* What others do to it; a generation ends with every change of something other than metadata.
ChangeTo(gs) ==
    /\ Use("changes", MaxChanges)
    /\ gs # gameServer
    /\ gameServer' = [gs EXCEPT !.resourceVersion = @ + 1]
    /\ UNCHANGED <<informer, gsCopy, streams>>

Labelled(value) == ChangeTo([gameServer EXCEPT !.labels = [key |-> value]])
Moved(state) ==
    /\ gameServer.state # state
    /\ ChangeTo([gameServer EXCEPT !.state = state, !.generation = @ + 1])
Deleted ==
    /\ gameServer.deletionTimestamp = {}
    /\ ChangeTo([gameServer EXCEPT !.deletionTimestamp = {1}, !.generation = @ + 1])

\* The SDK server stops, which ends all streams, and a new one lists the GameServer first.
Restart ==
    /\ Use("restarts", MaxRestarts)
    /\ cached' = gameServer /\ events' = <<>> /\ gsCopy' = {}
    /\ connectedStreams' = <<>> /\ open' = {}
    /\ handlers' = [w \in Watchers |-> IF handlers[w] = "none" THEN "none" ELSE "over"]
    /\ UNCHANGED <<gameServer, seen>>

-----------------------------------------------------------------------------
Init ==
    /\ gameServer = InitialGameServer
    /\ cached = gameServer /\ events = <<>> /\ gsCopy = {}
    /\ handlers = [w \in Watchers |-> "none"]
    /\ connectedStreams = <<>> /\ open = {}
    /\ seen = [w \in Watchers |-> {}]
    /\ used = [changes |-> 0, restarts |-> 0]

Next ==
    \/ \E w \in Watchers :
          watchGameServer(w) \/ close(w) \/ WatchGameServer(w) \/ Connect(w)
    \/ sendGameServerUpdate
    \/ \E count \in Counts : updateCounter(count)
    \/ Sync
    \/ \E value \in LabelValues : Labelled(value)
    \/ \E state \in GameServerStates : Moved(state)
    \/ Deleted
    \/ Restart

\* Handlers go on, and the informer follows the API server.
Spec ==
    /\ Init /\ [][Next]_vars
    /\ \A w \in Watchers : WF_vars(WatchGameServer(w)) /\ WF_vars(Connect(w))
    /\ WF_vars(sendGameServerUpdate) /\ WF_vars(Sync)

-----------------------------------------------------------------------------
\* Every variable stays in its range; a stream is connected once, and gets messages only
\* after its first one.
TypeOK ==
    /\ cached.resourceVersion \in 0..gameServer.resourceVersion
    /\ cached.generation \in 0..gameServer.generation
    /\ \A i \in DOMAIN events : events[i].resourceVersion <= cached.resourceVersion
    /\ \A copy \in gsCopy : copy.resourceVersion <= gameServer.resourceVersion
    /\ handlers \in [Watchers -> {"none", "called", "sent", "over"}]
    /\ ToSet(connectedStreams) \subseteq {w \in Watchers : handlers[w] = "over"}
    /\ IsInjective(connectedStreams)
    /\ open \subseteq {w \in Watchers : handlers[w] # "none"}
    /\ \A w \in Watchers : handlers[w] \in {"none", "called"} => seen[w] = {}
    /\ used \in [{"changes", "restarts"} -> Nat]

\* "Gets the GameServer from the cache, or from the local SDKServer if that version is more
\* recent" (sdkserver.go:445): what the batches of the SDK server have written is in its
\* answers, although it compares generations, which labels do not change.
AnswersHaveWhatWasWritten ==
    \A copy \in gsCopy : LatestGameServer.resourceVersion >= copy.resourceVersion

\* Two answers of getGameServer never go back in time, whichever of the two caches they are
\* from (gameServer, sdkserver.go:446).
AnswersNeverGoBack ==
    [][LatestGameServer'.resourceVersion >= LatestGameServer.resourceVersion]_vars

\* What others change gets into the answers: the copy of a batch hides it only for a time.
AnswersCatchUp == <>[](LatestGameServer = gameServer)

Shows(messages, gs) ==
    \E view \in {toObject(m) : m \in messages} : \E meta \in view.objectMeta, status \in view.status :
        /\ meta.resourceVersion = gs.resourceVersion /\ meta.labelsMap = gs.labels
        /\ (meta.deletionTimestamp # 0) = (gs.deletionTimestamp # {})
        /\ status.state = gs.state /\ status.countersMap = gs.counters

\* A watcher that is connected learns of every change that is still to come, or of a later
\* one, whatever becomes of the other watchers.
ConnectedWatchersLearn ==
    \A w \in Watchers :
        (Contains(connectedStreams, w) /\ cached # gameServer) ~> (Shows(seen[w], gameServer) \/ w \notin open)

\* "whenever the underlying `GameServer` configuration is updated" (Client SDKs/_index.md:190):
\* every watcher learns of every change in the end.
EveryWatcherLearns ==
    \A w \in Watchers : w \in open ~> (Shows(seen[w], gameServer) \/ w \notin open)

\* What a watcher is shown never goes back in time.
WatchersNeverGoBack ==
    [][\A w \in Watchers : \A old \in seen[w], new \in seen'[w] :
          \A meta \in toObject(old).objectMeta, later \in toObject(new).objectMeta :
              later.resourceVersion >= meta.resourceVersion]_vars
=============================================================================
