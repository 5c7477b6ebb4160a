---------------------------- MODULE MCSessions ----------------------------
(* Small instances of Sessions for TLC. *)
EXTENDS Sessions, TLC

CONSTANTS s1, s2, u1, u2, r1, r2, r3

(* Sessions, accounts and requests are interchangeable. *)
Symmetry == Permutations(SessionIds) \cup Permutations(Users) \cup Permutations(Requests)

(* The application's clock is one tick behind the database's. *)
AppBehind == -1

(* What a request still reads, or a property of the run reads of it. *)
RequestView(r) ==
    <<pc[r], late[r],
      IF ans[r] \in {"ok", "notFound"} THEN "ok"
      ELSE IF ans[r] \in {"unauthenticated", "error"} THEN "refused" ELSE ans[r],
      IF pc[r] = "renew" THEN readAt[r] ELSE 0,
      IF pc[r] # "done" \/ ans[r] = "othersGone" THEN <<sess[r], before[r]>> ELSE <<>>>>

(* The columns of a row that is gone, the cookie (a run of its own asks    *)
(* about it) and what an answered request remembers are read by nothing:   *)
(* states that differ in them only are explored once.                      *)
Relevant ==
    <<now, sessions, issued, given, owner, masked, ended, lapsed \cap sessions,
      [s \in SessionIds |-> IF s \in sessions THEN <<created[s], expires[s], lastUse[s]>> ELSE <<>>],
      [r \in Requests |-> RequestView(r)]>>
=============================================================================
