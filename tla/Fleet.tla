-------------------------------- MODULE Fleet --------------------------------
(***************************************************************************)
(* The Fleet controller (pkg/fleets): it moves the GameServers of a Fleet  *)
(* from the GameServerSets of old templates to that of the present one.    *)
(* It decides everything from lists that are behind the API server, and    *)
(* from the counts that the GameServerSets last reported, while users      *)
(* change the Fleet and its GameServers start, are allocated and end.      *)
(* The feature gates have their defaults (RollingUpdateFix is on).  The    *)
(* GameServerSet controller, a module of its own, is reduced to what it    *)
(* brings about.                                                           *)
(***************************************************************************)
EXTENDS Integers, FiniteSets, SequencesExt

CONSTANTS
    MaxSets,            \* how many GameServerSets are ever created
    InitialReplicas, Replicas,  \* the size of the Fleet, and those it is scaled to
    Templates,          \* the templates that it is given
    Strategy,           \* "RollingUpdate" or "Recreate"
    MaxSurge, MaxUnavailable,   \* of the strategy, as numbers of GameServers
    New,                \* whether the Fleet has just been created, or has come up
    SameSecond,         \* whether creationTimestamps, in seconds, are all the same
    MaxEarlySyncs,      \* how many syncs begin before the lister shows all the sets
    MaxChanges,         \* how often the Fleet is changed
    MaxDisturbances     \* allocations, requests that fail, restarts of the controller

ASSUME FleetAssumption ==
    /\ MaxSets \in Nat \ {0} /\ InitialReplicas \in Nat /\ Replicas \subseteq Nat /\ 1 \in Templates
    /\ Strategy \in {"RollingUpdate", "Recreate"} /\ MaxSurge \in Nat /\ MaxUnavailable \in Nat
    /\ New \in BOOLEAN /\ SameSecond \in BOOLEAN
    /\ MaxEarlySyncs \in Nat /\ MaxChanges \in Nat /\ MaxDisturbances \in Nat

Names == 1..MaxSets     \* in the order of their creation

VARIABLES
    fleet, fleetListed,     \* the Fleet in the API server and in the lister
    sets, listed,           \* its GameServerSets, likewise
    gameServers,            \* how many GameServers each set has, by state
    queued,                 \* whether the Fleet's key is in the work queue
    worker,                 \* the sync that is under way
    created,                \* how many sets were ever created
    used                    \* how many changes, allocations and faults there have been

vars == <<fleet, fleetListed, sets, listed, gameServers, queued, worker, created, used>>

Use(what, bound) == used[what] < bound /\ used' = [used EXCEPT ![what] = @ + 1]
Least(m, n) == IF m < n THEN m ELSE n

NoSet == [template |-> 0]
NoStatus == [replicas |-> 0, ready |-> 0, allocated |-> 0, shutdown |-> 0]
NewSet(template, replicas) == [template |-> template, replicas |-> replicas, status |-> NoStatus]
NoGameServers == [starting |-> 0, ready |-> 0, allocated |-> 0, shutdown |-> 0]
Up(s) == gameServers[s].starting + gameServers[s].ready + gameServers[s].allocated

Existing(list) == {s \in Names : list[s] # NoSet}
SumOver(S, value(_)) == FoldFunctionOnSet(+, 0, [s \in S |-> value(s)], S)

\* What is in S of a sequence.
Among(seq, S) == FoldLeft(LAMBDA kept, x : IF x \in S THEN Append(kept, x) ELSE kept, <<>>, seq)

NoWork == [busy |-> FALSE, template |-> 0, seen |-> [s \in Names |-> NoSet], requests |-> <<>>]

-----------------------------------------------------------------------------
(* applyDeploymentStrategy: `list` is what the lister shows, f the Fleet,  *)
(* active the set of its template (0 when there is none yet), rest the     *)
(* others.                                                                 *)

LowerBoundReplicas(i) == IF i < 0 THEN 0 ELSE i

Active(list, active, f) == IF active = 0 THEN NewSet(f.template, 0) ELSE list[active]

\* A mutant: no room is left for those that players are on.
NoRoom(list, rest) == 0

sumReplicas(list, rest) == SumOver(rest, LAMBDA s : list[s].status.replicas)
sumReady(list, rest) == SumOver(rest, LAMBDA s : list[s].status.ready)
sumAllocated(list, rest) == SumOver(rest, LAMBDA s : list[s].status.allocated)

\* A mutant: only the Ready GameServers of the old sets are counted.
CountsTheReadyOnes(list, active, rest, f) ==
    LET set == Active(list, active, f)
        up == Least(set.replicas + MaxSurge, f.replicas)
        total == up + sumReady(list, rest)
    IN  IF set.replicas # set.status.replicas THEN set.replicas
        ELSE LowerBoundReplicas(up - LowerBoundReplicas(total - (MaxSurge + f.replicas)))

rollingUpdateActive(list, active, rest, f) ==
    LET set == Active(list, active, f)
        wanted == f.replicas - sumAllocated(list, rest)
        up == Least(set.replicas + MaxSurge, f.replicas)
        total == up + sumReplicas(list, rest)
        within == IF total > MaxSurge + f.replicas
                  THEN LowerBoundReplicas(up - (total - (MaxSurge + f.replicas))) ELSE up
    IN  IF set.replicas # set.status.replicas THEN set.replicas
        ELSE IF f.replicas = 0 THEN 0
        ELSE IF set.replicas >= wanted THEN wanted
        ELSE IF within > wanted THEN LowerBoundReplicas(wanted) ELSE within

Update(set, replicas, what) == [what |-> what, set |-> set, replicas |-> replicas]

\* A mutant: a set whose status is behind has more healthy GameServers than it is to have.
CleanupWithoutGuard(list, rest, maxCleanupCount) ==
    FoldLeft(LAMBDA acc, s :
                LET set == list[s]
                    down == Least(maxCleanupCount - acc.down,
                                  set.replicas - set.status.ready - set.status.allocated)
                IN  IF set.replicas = 0 \/ down = 0 THEN acc
                    ELSE [down |-> acc.down + down,
                          list |-> [acc.list EXCEPT ![s].replicas = @ - down],
                          requests |-> Append(acc.requests,
                                              Update(s, set.replicas - down, "cleanup"))],
             [down |-> 0, list |-> list, requests |-> <<>>], rest)

\* cleanupUnhealthyReplicasRollingUpdateFix: the sets with their new sizes, and the requests.
cleanupUnhealthyReplicas(list, rest, maxCleanupCount) ==
    FoldLeft(LAMBDA acc, s :
                LET set == list[s]
                    down == Least(maxCleanupCount - acc.down,
                                  set.replicas - set.status.ready - set.status.allocated)
                IN  IF set.replicas = 0 \/ down <= 0 THEN acc
                    ELSE [down |-> acc.down + down,
                          list |-> [acc.list EXCEPT ![s].replicas = @ - down],
                          requests |-> Append(acc.requests,
                                              Update(s, set.replicas - down, "cleanup"))],
             [down |-> 0, list |-> list, requests |-> <<>>], rest)

\* The loop that scales the old sets down while enough GameServers are Ready.
scaleDown(list, rest, totalScaleDownCount) ==
    FoldLeft(LAMBDA acc, s :
                LET set == list[s]
                    down == Least(set.replicas, totalScaleDownCount - acc.down)
                    replicas == IF set.status.replicas = set.status.allocated
                                THEN 0 ELSE set.replicas - down
                IN  IF acc.stopped \/ down <= 0 THEN acc
                    ELSE IF set.replicas # set.status.replicas THEN [acc EXCEPT !.stopped = TRUE]
                    ELSE IF set.status.shutdown # 0 THEN acc
                    ELSE [acc EXCEPT !.down = @ + down,
                                     !.requests = Append(@, Update(s, replicas, "rest"))],
             [down |-> 0, stopped |-> FALSE, requests |-> <<>>], rest)

\* rollingUpdateRestFixedOnReadyRollingUpdateFix; rest is in the order of the lister.
rollingUpdateRest(list, active, rest, f) ==
    LET set == Active(list, active, f)
        unavailable == Least(IF MaxUnavailable = 0 THEN 1 ELSE MaxUnavailable, f.replicas)
        ready == set.status.ready + sumReady(list, ToSet(rest))
        minAvailable == Least(f.status.ready - unavailable, f.replicas)
        newUnavailable == set.replicas - set.status.ready - set.status.allocated - set.status.shutdown
        maxScaledDown == ready - minAvailable - newUnavailable
        cleaned == cleanupUnhealthyReplicas(list, rest, maxScaledDown)
    IN  IF maxScaledDown <= 0 THEN <<>>
        ELSE cleaned.requests \o scaleDown(cleaned.list, rest, ready - minAvailable).requests

recreateDeployment(list, rest) ==
    LET scaled == Among(rest, {s \in ToSet(rest) : list[s].replicas # 0})
    IN  [i \in DOMAIN scaled |-> Update(scaled[i], 0, "rest")]

\* The size of the active set, and the requests that come before it is set.
applyDeploymentStrategy(list, active, rest, f) ==
    LET others == ToSet(rest)
        wanted == f.replicas - sumAllocated(list, others)
    IN  IF others = {} THEN [replicas |-> f.replicas, requests |-> <<>>]
        ELSE IF \A s \in others : list[s].replicas = 0
             THEN [replicas |-> LowerBoundReplicas(wanted), requests |-> <<>>]
        ELSE IF Strategy = "Recreate"
             THEN [replicas |-> LowerBoundReplicas(wanted), requests |-> recreateDeployment(list, rest)]
        ELSE [replicas |-> rollingUpdateActive(list, active, others, f),
              requests |-> rollingUpdateRest(list, active, rest, f)]

\* A set that reports no GameServers is deleted.
Empty(set) == set.status.replicas = 0 /\ set.status.shutdown = 0

deleteEmptyGameServerSets(list, rest) ==
    LET empty == Among(rest, {s \in ToSet(rest) : Empty(list[s])})
    IN  [i \in DOMAIN empty |-> Update(empty[i], 0, "delete")]

upsertGameServerSet(list, active, replicas) ==
    IF active = 0 THEN <<Update(0, replicas, "create"), Update(0, replicas, "defaults")>>
    ELSE IF list[active].replicas # replicas THEN <<Update(active, replicas, "active")>>
    ELSE <<>>

\* filterGameServerSetByActive: the oldest of those that have the template.
MayBeActive(list, f) ==
    LET matching == {s \in Existing(list) : list[s].template = f.template}
        oldest == {s \in matching : SameSecond \/ \A t \in matching : s <= t}
    IN  IF matching = {} THEN {0} ELSE oldest

-----------------------------------------------------------------------------
(* syncFleet: all is decided from one look at the listers, and then asked  *)
(* for one request at a time.                                              *)

syncFleet ==
    /\ queued /\ ~worker.busy
    /\ queued' = FALSE
    /\ IF Existing(sets) \subseteq Existing(listed) THEN UNCHANGED used
       ELSE Use("earlySyncs", MaxEarlySyncs)
    /\ \E active \in MayBeActive(listed, fleetListed) :
       \E rest \in SetToSeqs(Existing(listed) \ {active}) :
          LET plan == applyDeploymentStrategy(listed, active, rest, fleetListed)
          IN  worker' = [busy |-> TRUE, template |-> fleetListed.template, seen |-> listed,
                         requests |-> plan.requests \o deleteEmptyGameServerSets(listed, rest)
                                        \o upsertGameServerSet(listed, active, plan.replicas)]
    /\ UNCHANGED <<fleet, fleetListed, sets, listed, gameServers, created>>

request == Head(worker.requests)
Requested(what) == worker.busy /\ worker.requests # <<>> /\ request.what \in what

Proceed == worker' = [worker EXCEPT !.requests = Tail(@)] /\ UNCHANGED queued
Retry == worker' = NoWork /\ queued' = TRUE

\* What could not be cleaned up is left for later, and so are the other old sets.
CleanupFails ==
    /\ worker' = [worker EXCEPT !.requests =
                     Among(@, {r \in ToSet(@) : r.what \notin {"cleanup", "rest"}})]
    /\ UNCHANGED queued

RequestFails == IF request.what = "cleanup" THEN CleanupFails ELSE Retry

\* An answer may be lost after the request was carried out.
Answered == (Proceed /\ UNCHANGED used) \/ (Use("disturbances", MaxDisturbances) /\ RequestFails)

UpdateTests(s) == sets[s] = worker.seen[s]

UpdateReplicas ==
    /\ Requested({"cleanup", "rest", "active"})
    /\ UpdateTests(request.set) /\ request.replicas >= 0
    /\ sets' = [sets EXCEPT ![request.set].replicas = request.replicas]
    /\ Answered
    /\ UNCHANGED <<fleet, fleetListed, listed, gameServers, created>>

\* Its GameServers go with a set (propagationPolicy Background), whatever their state.
DeleteSet ==
    /\ Requested({"delete"})
    /\ sets[request.set] # NoSet
    /\ sets' = [sets EXCEPT ![request.set] = NoSet]
    /\ gameServers' = [gameServers EXCEPT ![request.set] = NoGameServers]
    /\ Answered
    /\ UNCHANGED <<fleet, fleetListed, listed, created>>

CreateSet ==
    /\ Requested({"create"})
    /\ request.replicas >= 0 /\ created < MaxSets
    /\ sets' = [sets EXCEPT ![created + 1] = NewSet(worker.template, request.replicas)]
    /\ created' = created + 1
    /\ Answered
    /\ UNCHANGED <<fleet, fleetListed, listed, gameServers>>

\* The status of the new set is written once more, as it was created.
StatusDefaults ==
    /\ Requested({"defaults"})
    /\ sets[created] = NewSet(worker.template, request.replicas)
    /\ Answered
    /\ UNCHANGED <<fleet, fleetListed, sets, listed, gameServers, created>>

\* What the API server refuses: what is out of date or gone, and a size below zero.
Refused ==
    \/ Requested({"cleanup", "rest", "active"}) /\ ~UpdateTests(request.set)
    \/ Requested({"cleanup", "rest", "active", "create"}) /\ request.replicas < 0
    \/ Requested({"delete"}) /\ sets[request.set] = NoSet
    \/ Requested({"defaults"}) /\ sets[created] # NewSet(worker.template, request.replicas)

RequestIsRefused ==
    /\ worker.busy /\ worker.requests # <<>>
    /\ (Refused /\ UNCHANGED used) \/ Use("disturbances", MaxDisturbances)
    /\ RequestFails
    /\ UNCHANGED <<fleet, fleetListed, sets, listed, gameServers, created>>

\* A mutant: only the set of the present template counts.
StatusOfTheActive ==
    LET active == {s \in Existing(listed) : listed[s].replicas > 0}
    IN  /\ worker.busy /\ worker.requests = <<>>
        /\ fleet' = [fleet EXCEPT !.status =
              [replicas |-> sumReplicas(listed, active), ready |-> sumReady(listed, active),
               allocated |-> sumAllocated(listed, active)]]
        /\ worker' = NoWork
        /\ UNCHANGED <<fleetListed, sets, listed, gameServers, queued, created, used>>

\* The Fleet is read anew, the sets come from the lister.
updateFleetStatus ==
    LET existing == Existing(listed)
        status == [replicas |-> sumReplicas(listed, existing), ready |-> sumReady(listed, existing),
                   allocated |-> sumAllocated(listed, existing)]
    IN  /\ worker.busy /\ worker.requests = <<>>
        /\ \/ /\ fleet' = [fleet EXCEPT !.status = status]
              /\ worker' = NoWork /\ UNCHANGED <<queued, used>>
           \/ Use("disturbances", MaxDisturbances) /\ Retry /\ UNCHANGED fleet
        /\ UNCHANGED <<fleetListed, sets, listed, gameServers, created>>

Work ==
    \/ UpdateReplicas \/ DeleteSet \/ CreateSet \/ StatusDefaults
    \/ RequestIsRefused \/ updateFleetStatus

-----------------------------------------------------------------------------
(* The informers.  That a set is gone is not an event that queues the      *)
(* Fleet.                                                                  *)

FleetObserved ==
    /\ fleetListed # fleet
    /\ fleetListed' = fleet /\ queued' = TRUE
    /\ UNCHANGED <<fleet, sets, listed, gameServers, worker, used, created>>

SetsObserved ==
    /\ listed # sets
    /\ listed' = sets
    /\ queued' = (queued \/ \E s \in Existing(sets) : sets[s] # listed[s])
    /\ UNCHANGED <<fleet, fleetListed, sets, gameServers, worker, used, created>>

Resync ==
    /\ ~queued /\ queued' = TRUE
    /\ UNCHANGED <<fleet, fleetListed, sets, listed, gameServers, worker, used, created>>

Restart ==
    /\ Use("disturbances", MaxDisturbances)
    /\ fleetListed' = fleet /\ listed' = sets
    /\ queued' = TRUE /\ worker' = NoWork
    /\ UNCHANGED <<fleet, sets, gameServers, created>>

-----------------------------------------------------------------------------
(* The GameServerSet controller, the GameServers, and users.  No game ends *)
(* and no GameServer fails here: GameServerSet has those.                  *)

Counts(s, from, to, n) ==
    /\ gameServers' = [gameServers EXCEPT ![s] =
          [x \in DOMAIN @ |-> @[x] + (IF x = to THEN n ELSE 0) - (IF x = from THEN n ELSE 0)]]
    /\ UNCHANGED <<fleet, fleetListed, sets, listed, queued, worker, created>>

Grows(s) ==
    Up(s) < sets[s].replicas /\ Counts(s, "none", "starting", sets[s].replicas - Up(s)) /\ UNCHANGED used

\* A mutant: a GameServer that has started meanwhile is taken for one that starts.
ShrinksTheStarting(s) ==
    /\ Up(s) > sets[s].replicas
    /\ Counts(s, "starting", "shutdown", 1)
    /\ UNCHANGED used

Shrinks(s) ==
    /\ Up(s) > sets[s].replicas
    /\ \E from \in {"starting", "ready"} : gameServers[s][from] > 0 /\ Counts(s, from, "shutdown", 1)
    /\ UNCHANGED used

Starts(s) ==
    gameServers[s].starting > 0 /\ Counts(s, "starting", "ready", 1) /\ UNCHANGED used
IsRemoved(s) ==
    gameServers[s].shutdown > 0 /\ Counts(s, "shutdown", "none", gameServers[s].shutdown) /\ UNCHANGED used

Allocated(s) ==
    /\ gameServers[s].ready > 0
    /\ Use("disturbances", MaxDisturbances)
    /\ Counts(s, "ready", "allocated", 1)

StatusOf(s) == [replicas |-> Up(s), ready |-> gameServers[s].ready,
                allocated |-> gameServers[s].allocated, shutdown |-> gameServers[s].shutdown]

Reports(s) ==
    /\ sets[s].status # StatusOf(s)
    /\ sets' = [sets EXCEPT ![s].status = StatusOf(s)]
    /\ UNCHANGED <<fleet, fleetListed, listed, gameServers, queued, worker, used, created>>

Progresses(s) == Grows(s) \/ Shrinks(s) \/ Starts(s) \/ IsRemoved(s) \/ Reports(s)

ChangeFleet(replicas, template) ==
    /\ <<replicas, template>> # <<fleet.replicas, fleet.template>>
    /\ Use("changes", MaxChanges)
    /\ fleet' = [fleet EXCEPT !.replicas = replicas, !.template = template]
    /\ UNCHANGED <<fleetListed, sets, listed, gameServers, queued, worker, created>>

-----------------------------------------------------------------------------
Init ==
    LET n == IF New THEN 0 ELSE InitialReplicas
        status == [NoStatus EXCEPT !.replicas = n, !.ready = n]
    IN
    /\ fleet = [replicas |-> InitialReplicas, template |-> 1,
                status |-> [replicas |-> n, ready |-> n, allocated |-> 0]]
    /\ fleetListed = fleet
    /\ sets = [s \in Names |-> IF s > 1 \/ New THEN NoSet ELSE [NewSet(1, n) EXCEPT !.status = status]]
    /\ listed = sets
    /\ gameServers = [s \in Names |-> IF s > 1 THEN NoGameServers ELSE [NoGameServers EXCEPT !.ready = n]]
    /\ queued = TRUE /\ worker = NoWork
    /\ used = [earlySyncs |-> 0, changes |-> 0, disturbances |-> 0]
    /\ created = IF New THEN 0 ELSE 1

Next ==
    \/ syncFleet \/ Work
    \/ FleetObserved \/ SetsObserved \/ Resync \/ Restart
    \/ \E s \in Existing(sets) : Progresses(s) \/ Allocated(s)
    \/ \E replicas \in Replicas, template \in Templates : ChangeFleet(replicas, template)

\* The worker and the informers go on, and so do the GameServerSets and their GameServers;
\* nobody has to end a game.
Spec ==
    /\ Init /\ [][Next]_vars
    /\ WF_vars(syncFleet \/ Work)
    /\ WF_vars(FleetObserved) /\ WF_vars(SetsObserved) /\ WF_vars(Resync)
    /\ \A s \in Names : WF_vars(s \in Existing(sets) /\ Progresses(s))

-----------------------------------------------------------------------------
Total(value) == SumOver(Names, LAMBDA s : gameServers[s][value])
Played == Total("allocated")

SetStatuses == [replicas : Nat, ready : Nat, allocated : Nat, shutdown : Nat]
GameServerSets ==
    {NoSet} \cup [template : Templates, replicas : Nat, status : SetStatuses]
Fleets == [replicas : Nat, template : Templates, status : [replicas : Nat, ready : Nat, allocated : Nat]]

\* Every variable stays in its range; the lister shows only sets that were created, and
\* there are GameServers only in sets that exist.
TypeOK ==
    /\ fleet \in Fleets /\ fleetListed \in Fleets
    /\ \A s \in Names : sets[s] \in GameServerSets /\ listed[s] \in GameServerSets
    /\ Existing(sets) \cup Existing(listed) \subseteq 1..created
    /\ \A s \in Names :
          /\ gameServers[s] \in [starting : Nat, ready : Nat, allocated : Nat, shutdown : Nat]
          /\ sets[s] = NoSet => gameServers[s] = NoGameServers
    /\ queued \in BOOLEAN /\ worker.busy \in BOOLEAN
    /\ worker.requests \in Seq([what : {"cleanup", "rest", "active", "delete", "create", "defaults"},
                                set : {0} \cup Names, replicas : Int])
    /\ created \in 0..MaxSets
    /\ used \in [{"earlySyncs", "changes", "disturbances"} -> Nat]

\* "make sure we don't end up with more than the configured max surge" (rollingUpdateActive,
\* controller.go:499).
WithinSurge(S) == SumOver(S, LAMBDA s : sets[s].replicas) <= InitialReplicas + MaxSurge
AllWithinSurge == WithinSurge(Existing(sets))

NewSets == {s \in Existing(sets) : sets[s].template = fleet.template}

\* In one rollout the old sets, and any one of the new template, are to have at most maxSurge
\* GameServers above the size of the Fleet, though the old ones are counted by what they
\* reported; and there is one set of the new template, but for duplicates, of which a sync
\* that does not see the last set yet makes at most one.  (Only when the Fleet is edited again,
\* then sets that are still growing report less than they will have: FleetSurge.cfg.)
SizesWithinSurge ==
    used.changes <= 1 =>
        /\ Cardinality(NewSets) <= 1 + used.earlySyncs
        /\ \A s \in NewSets : WithinSurge((Existing(sets) \ NewSets) \cup {s})

\* Old sets are only ever scaled down, although what is taken from them is computed from
\* statuses that are behind, and by two loops in a row ("got invalid request to scale down",
\* controller_rollingupdatefix.go:38 and 138).
OldSetsOnlyShrink ==
    [][UpdateReplicas /\ request.what # "active"
          => sets'[request.set].replicas < sets[request.set].replicas]_vars

\* "This ensures that a Fleet cannot accidentally have zero `GameServers` in the `Ready` state
\* if something goes wrong during a Rolling Update or if `GameServers` have a long delay before
\* moving to the `Ready` state" (fleet-updates.md:36): the last one is never taken from an old
\* set while nobody plays.
NeverNoneReady ==
    [][\A s \in Existing(sets) :
          /\ sets[s].template # fleet.template
          /\ Shrinks(s) /\ gameServers'[s].ready < gameServers[s].ready
          => (Total("ready") + Played)' > 0]_vars

\* A rollout ends, whatever failed on the way: one set has the template of the Fleet and
\* all the GameServers that the others do not hold because players are on them.
RolloutCompletes ==
    <>[](\E s \in Existing(sets) :
            /\ sets[s].template = fleet.template
            /\ \A t \in Existing(sets) \ {s} : sets[t].replicas = 0 /\ gameServers[t].allocated > 0
            /\ sets[s].replicas = LowerBoundReplicas(fleet.replicas - (Played - gameServers[s].allocated)))

\* In the end the status of the Fleet tells the truth, though it is the sum of what the
\* sets reported when the lister last saw them.
StatusTellsTheTruth ==
    <>[](fleet.status = [replicas |-> Total("starting") + Total("ready") + Played,
                         ready |-> Total("ready"), allocated |-> Played])

\* "ensuring that `Allocated` `GameServers` are not deleted until they are specifically
\* shutdown" (fleet-updates.md:15).
AllocatedAreKept == [][DeleteSet => gameServers[request.set].allocated = 0]_vars

Decrease(s) ==
    listed[s].replicas - Min({listed[s].replicas} \cup
        {r.replicas : r \in {q \in ToSet(worker'.requests) : q.set = s /\ q.what # "delete"}})

\* A rolling update "will increment by `maxSurge` value on each iteration, while
\* decrementing by `maxUnavailable` on each iteration" (fleet.md:128).
DecrementsByMaxUnavailable ==
    [][syncFleet =>
          SumOver({s \in Existing(listed) : listed[s].template # fleetListed.template}, Decrease)
            <= MaxUnavailable]_vars
=============================================================================
