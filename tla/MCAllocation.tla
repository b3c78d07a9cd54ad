---------------------------- MODULE MCAllocation ----------------------------
(* A small instance of Allocation: a client that wants a Ready GameServer   *)
(* and one that prefers to share an Allocated one.                          *)
EXTENDS Allocation, TLC

CONSTANTS r1, r2

ReadyOnly == [r \in Requests |-> <<"Ready">>]
ReadyOrShared == r1 :> <<"Ready">> @@ r2 :> <<"Allocated", "Ready">>
SameKey == [r \in Requests |-> 1]
OtherKey == r1 :> 1 @@ r2 :> 2
=============================================================================
