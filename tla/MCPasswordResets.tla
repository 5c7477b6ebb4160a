-------------------------- MODULE MCPasswordResets --------------------------
(* Small instances of PasswordResets for TLC. *)
EXTENDS PasswordResets, TLC

CONSTANTS r1, r2, c1, c2, l1, l2, u1, u2, p1, p2

(* Requests of one kind are interchangeable. *)
Symmetry == Permutations(Requesters) \cup Permutations(Confirmers) \cup Permutations(Logins)

(* No guard reads an answer, so states that differ in ans only are explored *)
(* once.                                                                    *)
Unanswered ==
    <<now, pc, start, held, seenHash, applied, sessions,
      rowVars, userVars, requestVars, confirmVars, inputVars>>

(* The application's clock is one tick behind the database's. *)
AppBehind == -1
=============================================================================
