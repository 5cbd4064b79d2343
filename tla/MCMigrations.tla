---------------------------- MODULE MCMigrations ----------------------------
(***************************************************************************)
(* Two replicas that both upgrade as they start, a downgrade, and two      *)
(* requests.                                                               *)
(***************************************************************************)
EXTENDS Migrations, TLC

CONSTANTS up1, up2, down

MCDirection == (up1 :> "upgrade") @@ (up2 :> "upgrade") @@ (down :> "downgrade")
=============================================================================
