----------------------------- MODULE MCSDKWatch -----------------------------
(* Instances of SDKWatch.                                                   *)
EXTENDS SDKWatch

ReadyGameServer ==
    [name |-> "gs", namespace |-> "default", uid |-> "u", resourceVersion |-> 1, generation |-> 1,
     creationTimestamp |-> 1, deletionTimestamp |-> {}, annotations |-> Blank, labels |-> Blank,
     health |-> [Health EXCEPT !.periodSeconds = 5], state |-> "Ready", address |-> "node",
     addresses |-> <<[type |-> "PodIP", address |-> "pod"]>>,
     ports |-> <<[name |-> "game", port |-> 7000]>>,
     players |-> {[PlayerStatus EXCEPT !.capacity = 2]},
     counters |-> [rooms |-> [count |-> 0, capacity |-> 2]],
     lists |-> [maps |-> [capacity |-> 1, valuesList |-> <<"m">>]]]
=============================================================================
