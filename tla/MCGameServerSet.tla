--------------------------- MODULE MCGameServerSet ---------------------------
(* Instances of GameServerSet.                                              *)
EXTENDS GameServerSet
=============================================================================
