---------------------------- MODULE MCSDKBatches ----------------------------
(* Instances of SDKBatches: one Counter, one List, one or two players.      *)
EXTENDS SDKBatches

ACounter == [capacity |-> 2, count |-> 1]
AList == [capacity |-> 2, values |-> <<"a">>]
OnePlayer == [ids |-> <<"p">>, capacity |-> 1]

Everything ==
    {getCounter("rooms"), incrementCounter("rooms", 1), decrementCounter("rooms", 2),
     setCounterCount("rooms", 2), setCounterCapacity("rooms", 1),
     getList("list"), setListCapacity("list", 1), SetListCapacity("list", 1),
     SetListCapacity("other", 1), appendListValue("list", "b"), deleteListValue("list", "a"),
     playerConnect("p"), playerConnect("q"), playerDisconnect("p"), setPlayerCapacity(2)}
LeaveAndComeBack == {playerDisconnect("p"), playerConnect("p")}
OneForAnother == {playerDisconnect("p"), playerConnect("q")}
ReadAndWrite == {getCounter("rooms"), incrementCounter("rooms", 1)}
ListCapacity == {setListCapacity("list", 3), appendListValue("list", "b")}
=============================================================================
