---------------------- MODULE MCGameServerLifecycle ----------------------
(* A small instance of GameServerLifecycle.                                *)
EXTENDS GameServerLifecycle, TLC

Symmetry == Permutations(Nodes)
=============================================================================
