-------------------------- MODULE GameServerStates --------------------------
(***************************************************************************)
(* What the other parts of Agones and its users see of a GameServer: the   *)
(* states it goes through, whoever moves it.  This is the state diagram    *)
(* that apis/agones/v1 describes, with the moves that the SDK server and   *)
(* the controllers really make.  GameServerLifecycle implements it.        *)
(***************************************************************************)

VARIABLES
    state,      \* Status.State, or "Absent" once the object is gone
    deleting    \* has a deletion timestamp

vars == <<state, deleting>>

BeforeReady == {"PortAllocation", "Creating", "Starting", "Scheduled", "RequestReady"}
Active == {"Ready", "Reserved", "Allocated"}
States == BeforeReady \cup Active \cup {"Error", "Unhealthy", "Shutdown", "Absent"}

Init == state \in {"PortAllocation", "Creating"} /\ deleting = FALSE

IsBeingDeleted == deleting \/ state = "Shutdown"

\* The controller brings it up one state at a time: no state is skipped, but a
\* development GameServer has no Pod and goes from Creating to Ready.
BringUp ==
    /\ ~deleting
    /\ <<state, state'>> \in
         {<<"PortAllocation", "Creating">>, <<"Creating", "Starting">>,
          <<"Starting", "Scheduled">>, <<"RequestReady", "Ready">>, <<"Creating", "Ready">>}
    /\ UNCHANGED deleting

\* Its Pod is refused; that only happens where the Pod is created.
Fail == ~deleting /\ state = "Creating" /\ state' = "Error" /\ UNCHANGED deleting

\* Only the game server itself takes back an Allocated GameServer or ends a
\* reservation, and then by way of RequestReady.
GameServerAsks ==
    /\ state \notin {"PortAllocation", "Unhealthy", "Absent"} /\ ~IsBeingDeleted
    /\ state' \in {"RequestReady", "Reserved", "Allocated"}
    /\ UNCHANGED deleting

\* Only what is Ready is allocated.
Allocate == state = "Ready" /\ ~deleting /\ state' = "Allocated" /\ UNCHANGED deleting

GiveUp ==
    /\ state \notin {"Unhealthy", "Absent"} /\ ~IsBeingDeleted
    /\ state' = "Unhealthy" /\ UNCHANGED deleting

ShutDown == state # "Absent" /\ ~deleting /\ state' = "Shutdown" /\ UNCHANGED deleting

Delete == state # "Absent" /\ ~deleting /\ deleting' = TRUE /\ UNCHANGED state

\* The object goes away only after it was deleted.
Remove == deleting /\ state' = "Absent" /\ deleting' = FALSE

Next ==
    \/ BringUp \/ Fail \/ GameServerAsks \/ Allocate
    \/ GiveUp \/ ShutDown \/ Delete \/ Remove

Spec == Init /\ [][Next]_vars
=============================================================================
