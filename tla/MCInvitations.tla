--------------------------- MODULE MCInvitations ---------------------------
(* Small instances of Invitations for TLC. *)
EXTENDS Invitations, TLC

CONSTANTS c1, c2, a1, a2, e1, e2

(* Requests of one kind, and addresses, are interchangeable; used by the   *)
(* runs that check safety only.                                            *)
Symmetry == Permutations(Creators) \cup Permutations(Accepters) \cup Permutations(Emails)

(* The application's clock is one tick behind the database's. *)
AppBehind == -1
=============================================================================
