---------------------------- MODULE MCLoginGuard ----------------------------
(* Small instances of LoginGuard for TLC. *)
EXTENDS LoginGuard, TLC

CONSTANTS alice, bob, home, a1, a2

(* Every bucket of DefaultLoginLimits has two tiers, a tight one and a     *)
(* loose one. Here the bucket under test keeps both.                       *)
Limits ==
    [k \in Keys |->
        IF k \in Addresses THEN {[limit |-> 1, window |-> 2], [limit |-> 2, window |-> 4]}
        ELSE {[limit |-> 2, window |-> 2]}]

Interchangeable == Permutations(Attempts)
=============================================================================
