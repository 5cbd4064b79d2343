-------------------------- MODULE MCRequestContext --------------------------
(***************************************************************************)
(* Requests that bring an id of their own, bring one that is refused, or   *)
(* bring none; two may well bring the same.                                *)
(***************************************************************************)
EXTENDS RequestContext, TLC

CONSTANTS good, bad

MCSanitise == (good :> good) @@ (bad :> None)
=============================================================================
