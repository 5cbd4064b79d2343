----------------------------- MODULE MCRotation -----------------------------
(***************************************************************************)
(* Two requests and a readiness check over a pool of one connection and    *)
(* one of overflow: it fills, it drains, a task waits while the others     *)
(* hold all there is, and a connection is dropped for lack of room.        *)
(***************************************************************************)
EXTENDS Rotation
=============================================================================
