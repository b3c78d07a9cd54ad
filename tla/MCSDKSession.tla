---------------------------- MODULE MCSDKSession ----------------------------
(* Instances of SDKSession.                                                 *)
EXTENDS SDKSession

\* Labels stand for annotations, which are handled in the same way.
Everything ==
    {ready, allocate, shutdown, reserve(0), reserve(1), setLabel("key", "a"),
     setLabel("", "a")}
AllocateReserved == {reserve(1), allocate}
=============================================================================
