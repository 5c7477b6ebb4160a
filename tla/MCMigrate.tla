----------------------------- MODULE MCMigrate -----------------------------
(* A small instance of Migrate for TLC. *)
EXTENDS Migrate, TLC

CONSTANTS up1, up2, up3, status, blue, green

(* Two instances of a rolling deploy; one of them migrates twice, and      *)
(* somebody asks for the status from the other.                            *)
Deploy == up1 :> blue @@ up2 :> blue @@ up3 :> green @@ status :> green
=============================================================================
