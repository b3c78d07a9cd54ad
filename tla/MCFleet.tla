------------------------------- MODULE MCFleet -------------------------------
(* Instances of Fleet.                                                      *)
EXTENDS Fleet
=============================================================================
