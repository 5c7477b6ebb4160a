-------------------------- MODULE MCSlidingWindow --------------------------
(* Small instances of SlidingWindow for TLC. *)
EXTENDS SlidingWindow, TLC

CONSTANTS tight, loose

(* A tight tier and a loose one, as every limiter of main.go has. *)
TwoLimits == tight :> 2 @@ loose :> 3
TwoWindows == tight :> 2 @@ loose :> 5
=============================================================================
