------------------------ MODULE PasswordResetsProofs ------------------------
(* Proofs about PasswordResets, for any sets of requests, logins, accounts *)
(* and passwords, any window and any skew between the two clocks.          *)
EXTENDS PasswordResets, TLAPS

(* A confirmation with an open transaction. *)
ConfirmPC == {"read", "use", "password", "sessions", "commit"}

(* One transaction at a time holds a reset row, and while it does the row  *)
(* is committed, unused, and open by that transaction's clock.             *)
LockInv ==
    /\ \A p, q \in Requests : p # q => held[p] \cap held[q] = {}
    /\ \A p \in Requests : pc[p] = "idle" => held[p] = {}
    /\ \A p \in Requests : \A r \in held[p] :
          r \in resets /\ StillOpen(r, start[p])

(* Where a Request stands decides whether its row is committed; every row  *)
(* its scan knew is still to be visited, locked by it, or closed.          *)
RequestInv ==
    \A p \in Requesters :
        /\ p \in resets => pc[p] \in {"send", "done"} /\ account[p] \in Users
        /\ p \in mailed => p \in resets
        /\ pc[p] \in {"lookup", "scan", "expire", "commit"} => account[p] \in Users
        /\ pc[p] = "send" => p \in resets
        /\ known[p] \subseteq resets
        /\ todo[p] \subseteq known[p]
        /\ pc[p] = "commit" => todo[p] = {}
        /\ pc[p] \in {"expire", "commit"} \/ p \in resets =>
              \A r \in known[p] :
                  \/ p \notin resets /\ r \in todo[p] \cup held[p]
                  \/ r \in used
                  \/ expires[r] <= start[p]

(* Where a Confirm stands decides which row it holds and whether it was    *)
(* applied; a link superseded before it began is closed to it.             *)
ConfirmInv ==
    \A c \in Confirmers :
        /\ pc[c] = "idle" => tok[c] = NoOne
        /\ pc[c] \in {"password", "sessions", "commit"} => held[c] = {tok[c]}
        /\ pc[c] \in ConfirmPC => tok[c] \in resets
        /\ c \in applied => pc[c] = "done" /\ tok[c] \in resets
        /\ pc[c] = "idle" \/ c \in applied => ~late[c]
        /\ late[c] =>
              /\ tok[c] \in resets
              /\ tok[c] \in used \/ expires[tok[c]] <= start[c]

(* One confirmation at a time has written an account's row, and the        *)
(* account cannot be masked meanwhile.                                     *)
UserInv ==
    \A c \in Confirmers : pc[c] \in {"sessions", "commit"} =>
        /\ ResetAccount(c) \notin masked
        /\ \A d \in Confirmers : pc[d] \in {"sessions", "commit"} =>
              (ResetAccount(c) = ResetAccount(d) => c = d)

(* A session belongs to a login that has ended, so it is opened once; a    *)
(* confirmation that has run its DELETE doomed every session open when it  *)
(* began.                                                                  *)
SessionInv ==
    /\ \A l \in sessions : pc[l] = "done"
    /\ \A c \in Confirmers :
          /\ \A l \in before[c] : pc[l] = "done"
          /\ pc[c] \in ConfirmPC => \A l \in before[c] : account[l] = ResetAccount(c)
          /\ pc[c] = "commit" => before[c] \cap sessions \subseteq doomed[c]
    /\ ResetEndsEarlierSessions

(* A login about to rehash holds the password behind the hash it read. *)
RehashInv ==
    \A l \in Logins : pc[l] = "rehash" => seenHash[l].pw = secret[l]

(* No transaction's now() is ahead of the clock. *)
ClockInv == \A p \in Requests : start[p] <= now

IInv ==
    /\ TypeOK
    /\ LockInv
    /\ RequestInv
    /\ ConfirmInv
    /\ UserInv
    /\ SessionInv
    /\ RehashInv
    /\ ClockInv
    /\ OneConfirmationPerLink
-----------------------------------------------------------------------------
(* Every action keeps every variable in its type; the row a Confirm stamps *)
(* is a committed one.                                                     *)
LEMMA TypeStep ==
  ASSUME TypeOK, ConfirmInv, [Next]_vars
  PROVE  TypeOK'
<1> USE RequestsAssumption, WindowAssumption, SkewAssumption
    DEF TypeOK, Requests, AnswerKinds, TxPC, LoginPC, ConfirmPC, rowVars, userVars, requestVars, confirmVars,
        inputVars, Answer, Rollback, Goto
<1>1. ASSUME NEW p \in Requesters, RequestRefused(p)
      PROVE  TypeOK'
  BY <1>1 DEF RequestRefused
<1>2. ASSUME NEW p \in Requesters, NEW u \in Users, RequestBegin(p, u)
      PROVE  TypeOK'
  BY <1>2 DEF RequestBegin
<1>3. ASSUME NEW p \in Requesters, GetUserByEmail(p)
      PROVE  TypeOK'
  <2>1. CASE Answer(p, "ok")
    BY <1>3, <2>1 DEF GetUserByEmail
  <2>2. CASE Goto(p, "scan")
    BY <1>3, <2>2 DEF GetUserByEmail
  <2>3. QED
    BY <1>3, <2>1, <2>2 DEF GetUserByEmail
<1>4. ASSUME NEW p \in Requesters, ExpireOpenPasswordResetsForUser(p)
      PROVE  TypeOK'
  BY <1>4 DEF ExpireOpenPasswordResetsForUser
<1>5. ASSUME NEW p \in Requesters, NEW r \in Requesters, ExpireRow(p, r)
      PROVE  TypeOK'
  BY <1>5 DEF ExpireRow
<1>6. ASSUME NEW p \in Requesters, CreatePasswordReset(p)
      PROVE  TypeOK'
  BY <1>6 DEF CreatePasswordReset, NewPasswordResetExpiry, AppNow
<1>7. ASSUME NEW p \in Requesters, CommitRequest(p)
      PROVE  TypeOK'
  <2>1. pc' = [pc EXCEPT ![p] = "send"] \/ pc' = [pc EXCEPT ![p] = "done"]
    BY <1>7 DEF CommitRequest
  <2>2. pc' \in [Requests -> TxPC \cup LoginPC \cup {"idle", "send", "done"}]
    BY <2>1
  <2>3. ans' \in [Requests -> AnswerKinds]
    BY <1>7 DEF CommitRequest
  <2>4. held' \in [Requests -> SUBSET Requesters]
    BY <1>7 DEF CommitRequest
  <2>5. expires' \in [Requesters -> Int]
    BY <1>7 DEF CommitRequest
  <2>6. QED
    BY <1>7, <2>1, <2>2, <2>3, <2>4, <2>5 DEF CommitRequest
<1>8. ASSUME NEW p \in Requesters, Send(p)
      PROVE  TypeOK'
  BY <1>8 DEF Send
<1>9. ASSUME NEW c \in Confirmers, ConfirmRefused(c)
      PROVE  TypeOK'
  BY <1>9 DEF ConfirmRefused
<1>10. ASSUME NEW c \in Confirmers, NEW t \in Requesters, NEW w \in Passwords, ConfirmBegin(c, t, w)
      PROVE  TypeOK'
  BY <1>10 DEF ConfirmBegin, SessionsOf
<1>11. ASSUME NEW c \in Confirmers, GetPasswordResetByTokenHash(c)
      PROVE  TypeOK'
  <2>1. CASE Goto(c, "use")
    BY <1>11, <2>1 DEF GetPasswordResetByTokenHash
  <2>2. CASE Answer(c, "notUsable")
    BY <1>11, <2>2 DEF GetPasswordResetByTokenHash
  <2>3. QED
    BY <1>11, <2>1, <2>2 DEF GetPasswordResetByTokenHash
<1>12. ASSUME NEW c \in Confirmers, UsePasswordReset(c)
      PROVE  TypeOK'
  <2>1. tok[c] \in Requesters
    BY <1>12 DEF UsePasswordReset, ConfirmInv
  <2>2. held' \in [Requests -> SUBSET Requesters]
    BY <1>12, <2>1 DEF UsePasswordReset
  <2>3. pc' = [pc EXCEPT ![c] = "password"] \/ pc' = [pc EXCEPT ![c] = "done"]
    BY <1>12 DEF UsePasswordReset
  <2>4. pc' \in [Requests -> TxPC \cup LoginPC \cup {"idle", "send", "done"}]
    BY <2>3
  <2>5. ans' \in [Requests -> AnswerKinds]
    BY <1>12 DEF UsePasswordReset
  <2>6. QED
    BY <1>12, <2>2, <2>4, <2>5 DEF UsePasswordReset
<1>13. ASSUME NEW c \in Confirmers, SetUserPasswordHash(c)
      PROVE  TypeOK'
  <2>1. pc' \in [Requests -> TxPC \cup LoginPC \cup {"idle", "send", "done"}]
    BY <1>13 DEF SetUserPasswordHash
  <2>2. ans' \in [Requests -> AnswerKinds]
    BY <1>13 DEF SetUserPasswordHash
  <2>3. held' \in [Requests -> SUBSET Requesters]
    BY <1>13 DEF SetUserPasswordHash
  <2>4. QED
    BY <1>13, <2>1, <2>2, <2>3 DEF SetUserPasswordHash
<1>14. ASSUME NEW c \in Confirmers, DeleteAllSessionsForUser(c)
      PROVE  TypeOK'
  BY <1>14 DEF DeleteAllSessionsForUser, SessionsOf
<1>15. ASSUME NEW c \in Confirmers, CommitConfirm(c)
      PROVE  TypeOK'
  <2>1. HashPassword(c, secret[c]) \in Hashes
    BY <1>15 DEF HashPassword, Hashes
  <2>2. hash' \in [Users -> Hashes]
    BY <1>15, <2>1 DEF CommitConfirm
  <2>3. pc' = [pc EXCEPT ![c] = "done"]
    BY <1>15 DEF CommitConfirm
  <2>4. ans' \in [Requests -> AnswerKinds]
    BY <1>15 DEF CommitConfirm
  <2>5. held' \in [Requests -> SUBSET Requesters]
    BY <1>15 DEF CommitConfirm
  <2>6. QED
    BY <1>15, <2>1, <2>2, <2>3, <2>4, <2>5 DEF CommitConfirm
<1>16. ASSUME NEW l \in Logins, NEW u \in Users, NEW w \in Passwords, Authenticate(l, u, w)
      PROVE  TypeOK'
  <2>1. pc' = [pc EXCEPT ![l] = "rehash"] \/ pc' = [pc EXCEPT ![l] = "issue"] \/ pc' = [pc EXCEPT ![l] = "done"]
    BY <1>16 DEF Authenticate
  <2>2. seenHash' \in [Logins -> Hashes]
    <3>1. seenHash' = seenHash \/ seenHash' = [seenHash EXCEPT ![l] = hash[u]]
      BY <1>16 DEF Authenticate
    <3>2. hash[u] \in Hashes
      OBVIOUS
    <3>3. QED
      BY <3>1, <3>2
  <2>3. pc' \in [Requests -> TxPC \cup LoginPC \cup {"idle", "send", "done"}]
    BY <2>1
  <2>4. ans' \in [Requests -> AnswerKinds]
    BY <1>16 DEF Authenticate
  <2>5. QED
    BY <1>16, <2>1, <2>2, <2>3, <2>4 DEF Authenticate
<1>17. ASSUME NEW l \in Logins, UpdateUserPasswordHash(l)
      PROVE  TypeOK'
  <2>1. HashPassword(l, secret[l]) \in Hashes
    BY <1>17 DEF HashPassword, Hashes
  <2>2. hash' \in [Users -> Hashes]
    BY <1>17, <2>1 DEF UpdateUserPasswordHash
  <2>3. pc' \in [Requests -> TxPC \cup LoginPC \cup {"idle", "send", "done"}]
    BY <1>17 DEF UpdateUserPasswordHash
  <2>4. QED
    BY <1>17, <2>1, <2>2, <2>3 DEF UpdateUserPasswordHash
<1>18. ASSUME NEW l \in Logins, Issue(l)
      PROVE  TypeOK'
  <2>1. pc' \in [Requests -> TxPC \cup LoginPC \cup {"idle", "send", "done"}]
    BY <1>18 DEF Issue
  <2>2. ans' \in [Requests -> AnswerKinds]
    BY <1>18 DEF Issue
  <2>3. QED
    BY <1>18, <2>1, <2>2 DEF Issue
<1>19. ASSUME NEW l \in Logins, Revoke(l)
      PROVE  TypeOK'
  BY <1>19 DEF Revoke
<1>20. ASSUME NEW p \in Requesters \cup Confirmers, Abort(p)
      PROVE  TypeOK'
  BY <1>20 DEF Abort
<1>21. ASSUME NEW u \in Users, SoftDeleteUser(u)
      PROVE  TypeOK'
  BY <1>21 DEF SoftDeleteUser
<1>22. CASE Tick
  BY <1>22 DEF Tick
<1>23. CASE UNCHANGED vars
  BY <1>23 DEF vars
<1>24. QED
  BY <1>1, <1>2, <1>3, <1>4, <1>5, <1>6, <1>7, <1>8, <1>9, <1>10,
     <1>11, <1>12, <1>13, <1>14, <1>15, <1>16, <1>17, <1>18, <1>19, <1>20,
     <1>21, <1>22, <1>23
     DEF Next, RequestStep, ConfirmStep, LoginStep, Terminated

(* now() never runs ahead of the clock. *)
LEMMA ClockStep ==
  ASSUME TypeOK, ClockInv, [Next]_vars
  PROVE  ClockInv'
<1> USE RequestsAssumption, MaxTimeAssumption
    DEF TypeOK, ClockInv, Requests, AnswerKinds, TxPC, LoginPC, ConfirmPC, rowVars, userVars, requestVars, confirmVars,
        inputVars, Answer, Rollback, Goto
<1>1. ASSUME NEW p \in Requesters, RequestRefused(p)
      PROVE  ClockInv'
  BY <1>1 DEF RequestRefused
<1>2. ASSUME NEW p \in Requesters, NEW u \in Users, RequestBegin(p, u)
      PROVE  ClockInv'
  BY <1>2 DEF RequestBegin
<1>3. ASSUME NEW p \in Requesters, GetUserByEmail(p)
      PROVE  ClockInv'
  BY <1>3 DEF GetUserByEmail
<1>4. ASSUME NEW p \in Requesters, ExpireOpenPasswordResetsForUser(p)
      PROVE  ClockInv'
  BY <1>4 DEF ExpireOpenPasswordResetsForUser
<1>5. ASSUME NEW p \in Requesters, NEW r \in Requesters, ExpireRow(p, r)
      PROVE  ClockInv'
  BY <1>5 DEF ExpireRow
<1>6. ASSUME NEW p \in Requesters, CreatePasswordReset(p)
      PROVE  ClockInv'
  BY <1>6 DEF CreatePasswordReset, NewPasswordResetExpiry, AppNow
<1>7. ASSUME NEW p \in Requesters, CommitRequest(p)
      PROVE  ClockInv'
  BY <1>7 DEF CommitRequest
<1>8. ASSUME NEW p \in Requesters, Send(p)
      PROVE  ClockInv'
  BY <1>8 DEF Send
<1>9. ASSUME NEW c \in Confirmers, ConfirmRefused(c)
      PROVE  ClockInv'
  BY <1>9 DEF ConfirmRefused
<1>10. ASSUME NEW c \in Confirmers, NEW t \in Requesters, NEW w \in Passwords, ConfirmBegin(c, t, w)
      PROVE  ClockInv'
  BY <1>10 DEF ConfirmBegin, SessionsOf
<1>11. ASSUME NEW c \in Confirmers, GetPasswordResetByTokenHash(c)
      PROVE  ClockInv'
  BY <1>11 DEF GetPasswordResetByTokenHash
<1>12. ASSUME NEW c \in Confirmers, UsePasswordReset(c)
      PROVE  ClockInv'
  BY <1>12 DEF UsePasswordReset
<1>13. ASSUME NEW c \in Confirmers, SetUserPasswordHash(c)
      PROVE  ClockInv'
  BY <1>13 DEF SetUserPasswordHash
<1>14. ASSUME NEW c \in Confirmers, DeleteAllSessionsForUser(c)
      PROVE  ClockInv'
  BY <1>14 DEF DeleteAllSessionsForUser, SessionsOf
<1>15. ASSUME NEW c \in Confirmers, CommitConfirm(c)
      PROVE  ClockInv'
  BY <1>15 DEF CommitConfirm, HashPassword, Hashes
<1>16. ASSUME NEW l \in Logins, NEW u \in Users, NEW w \in Passwords, Authenticate(l, u, w)
      PROVE  ClockInv'
  BY <1>16 DEF Authenticate
<1>17. ASSUME NEW l \in Logins, UpdateUserPasswordHash(l)
      PROVE  ClockInv'
  BY <1>17 DEF UpdateUserPasswordHash, HashPassword, Hashes
<1>18. ASSUME NEW l \in Logins, Issue(l)
      PROVE  ClockInv'
  BY <1>18 DEF Issue
<1>19. ASSUME NEW l \in Logins, Revoke(l)
      PROVE  ClockInv'
  BY <1>19 DEF Revoke
<1>20. ASSUME NEW p \in Requesters \cup Confirmers, Abort(p)
      PROVE  ClockInv'
  BY <1>20 DEF Abort
<1>21. ASSUME NEW u \in Users, SoftDeleteUser(u)
      PROVE  ClockInv'
  BY <1>21 DEF SoftDeleteUser
<1>22. CASE Tick
  BY <1>22 DEF Tick
<1>23. CASE UNCHANGED vars
  BY <1>23 DEF vars
<1>24. QED
  BY <1>1, <1>2, <1>3, <1>4, <1>5, <1>6, <1>7, <1>8, <1>9, <1>10,
     <1>11, <1>12, <1>13, <1>14, <1>15, <1>16, <1>17, <1>18, <1>19, <1>20,
     <1>21, <1>22, <1>23
     DEF Next, RequestStep, ConfirmStep, LoginStep, Terminated

(* Row locks stay exclusive, and what a holder saw of its row stays true.  *)
LEMMA LockStep ==
  ASSUME TypeOK, LockInv, RequestInv, ConfirmInv, [Next]_vars
  PROVE  LockInv'
<1> USE RequestsAssumption
    DEF TypeOK, LockInv, RequestInv, ConfirmInv, LockedByOther, StillOpen,
        Requests, AnswerKinds, TxPC, LoginPC, ConfirmPC, rowVars, userVars, requestVars, confirmVars,
        inputVars, Answer, Rollback, Goto
<1>1. ASSUME NEW p \in Requesters, RequestRefused(p)
      PROVE  LockInv'
  BY <1>1 DEF RequestRefused
<1>2. ASSUME NEW p \in Requesters, NEW u \in Users, RequestBegin(p, u)
      PROVE  LockInv'
  BY <1>2 DEF RequestBegin
<1>3. ASSUME NEW p \in Requesters, GetUserByEmail(p)
      PROVE  LockInv'
  BY <1>3 DEF GetUserByEmail
<1>4. ASSUME NEW p \in Requesters, ExpireOpenPasswordResetsForUser(p)
      PROVE  LockInv'
  BY <1>4 DEF ExpireOpenPasswordResetsForUser
<1>5. ASSUME NEW p \in Requesters, NEW r \in Requesters, ExpireRow(p, r)
      PROVE  LockInv'
  BY <1>5 DEF ExpireRow
<1>6. ASSUME NEW p \in Requesters, CreatePasswordReset(p)
      PROVE  LockInv'
  BY <1>6 DEF CreatePasswordReset, NewPasswordResetExpiry, AppNow
<1>7. ASSUME NEW p \in Requesters, CommitRequest(p)
      PROVE  LockInv'
  BY <1>7 DEF CommitRequest
<1>8. ASSUME NEW p \in Requesters, Send(p)
      PROVE  LockInv'
  BY <1>8 DEF Send
<1>9. ASSUME NEW c \in Confirmers, ConfirmRefused(c)
      PROVE  LockInv'
  BY <1>9 DEF ConfirmRefused
<1>10. ASSUME NEW c \in Confirmers, NEW t \in Requesters, NEW w \in Passwords, ConfirmBegin(c, t, w)
      PROVE  LockInv'
  BY <1>10 DEF ConfirmBegin, SessionsOf
<1>11. ASSUME NEW c \in Confirmers, GetPasswordResetByTokenHash(c)
      PROVE  LockInv'
  BY <1>11 DEF GetPasswordResetByTokenHash
<1>12. ASSUME NEW c \in Confirmers, UsePasswordReset(c)
      PROVE  LockInv'
  <2>1. tok[c] \in resets
    BY <1>12 DEF UsePasswordReset
  <2>2. CASE ~StillOpen(tok[c], start[c])
    <3>1. \A q \in Requests : held'[q] \subseteq held[q] /\ (pc'[q] = "idle" => pc[q] = "idle")
      BY <1>12, <2>2 DEF UsePasswordReset
    <3>2. UNCHANGED <<resets, used, expires, start>>
      BY <1>12 DEF UsePasswordReset
    <3>3. QED
      BY <3>1, <3>2
  <2>3. CASE held' = [held EXCEPT ![c] = {tok[c]}] /\ StillOpen(tok[c], start[c])
    BY <1>12, <2>1, <2>3 DEF UsePasswordReset
  <2>4. QED
    BY <1>12, <2>2, <2>3 DEF UsePasswordReset
<1>13. ASSUME NEW c \in Confirmers, SetUserPasswordHash(c)
      PROVE  LockInv'
  <2>1. \A q \in Requests : held'[q] \subseteq held[q] /\ (pc'[q] = "idle" => pc[q] = "idle")
    BY <1>13 DEF SetUserPasswordHash
  <2>2. UNCHANGED <<resets, used, expires, start>>
    BY <1>13 DEF SetUserPasswordHash
  <2>3. QED
    BY <2>1, <2>2
<1>14. ASSUME NEW c \in Confirmers, DeleteAllSessionsForUser(c)
      PROVE  LockInv'
  BY <1>14 DEF DeleteAllSessionsForUser, SessionsOf
<1>15. ASSUME NEW c \in Confirmers, CommitConfirm(c)
      PROVE  LockInv'
  BY <1>15 DEF CommitConfirm, HashPassword, Hashes
<1>16. ASSUME NEW l \in Logins, NEW u \in Users, NEW w \in Passwords, Authenticate(l, u, w)
      PROVE  LockInv'
  BY <1>16 DEF Authenticate
<1>17. ASSUME NEW l \in Logins, UpdateUserPasswordHash(l)
      PROVE  LockInv'
  BY <1>17 DEF UpdateUserPasswordHash, HashPassword, Hashes
<1>18. ASSUME NEW l \in Logins, Issue(l)
      PROVE  LockInv'
  BY <1>18 DEF Issue
<1>19. ASSUME NEW l \in Logins, Revoke(l)
      PROVE  LockInv'
  BY <1>19 DEF Revoke
<1>20. ASSUME NEW p \in Requesters \cup Confirmers, Abort(p)
      PROVE  LockInv'
  BY <1>20 DEF Abort
<1>21. ASSUME NEW u \in Users, SoftDeleteUser(u)
      PROVE  LockInv'
  BY <1>21 DEF SoftDeleteUser
<1>22. CASE Tick
  BY <1>22 DEF Tick
<1>23. CASE UNCHANGED vars
  BY <1>23 DEF vars
<1>24. QED
  BY <1>1, <1>2, <1>3, <1>4, <1>5, <1>6, <1>7, <1>8, <1>9, <1>10,
     <1>11, <1>12, <1>13, <1>14, <1>15, <1>16, <1>17, <1>18, <1>19, <1>20,
     <1>21, <1>22, <1>23
     DEF Next, RequestStep, ConfirmStep, LoginStep, Terminated

(* Every row a Request's scan knew stays accounted for.                    *)
LEMMA RequestStepInv ==
  ASSUME TypeOK, LockInv, RequestInv, [Next]_vars
  PROVE  RequestInv'
<1> USE RequestsAssumption
    DEF TypeOK, LockInv, RequestInv, StillOpen,
        Requests, AnswerKinds, TxPC, LoginPC, ConfirmPC, rowVars, userVars, requestVars, confirmVars,
        inputVars, Answer, Rollback, Goto
<1>1. ASSUME NEW p \in Requesters, RequestRefused(p)
      PROVE  RequestInv'
  BY <1>1 DEF RequestRefused
<1>2. ASSUME NEW p \in Requesters, NEW u \in Users, RequestBegin(p, u)
      PROVE  RequestInv'
  BY <1>2 DEF RequestBegin
<1>3. ASSUME NEW p \in Requesters, GetUserByEmail(p)
      PROVE  RequestInv'
  BY <1>3 DEF GetUserByEmail
<1>4. ASSUME NEW p \in Requesters, ExpireOpenPasswordResetsForUser(p)
      PROVE  RequestInv'
  BY <1>4 DEF ExpireOpenPasswordResetsForUser
<1>5. ASSUME NEW p \in Requesters, NEW r \in Requesters, ExpireRow(p, r)
      PROVE  RequestInv'
  BY <1>5 DEF ExpireRow
<1>6. ASSUME NEW p \in Requesters, CreatePasswordReset(p)
      PROVE  RequestInv'
  BY <1>6 DEF CreatePasswordReset, NewPasswordResetExpiry, AppNow
<1>7. ASSUME NEW p \in Requesters, CommitRequest(p)
      PROVE  RequestInv'
  BY <1>7 DEF CommitRequest
<1>8. ASSUME NEW p \in Requesters, Send(p)
      PROVE  RequestInv'
  BY <1>8 DEF Send
<1>9. ASSUME NEW c \in Confirmers, ConfirmRefused(c)
      PROVE  RequestInv'
  BY <1>9 DEF ConfirmRefused
<1>10. ASSUME NEW c \in Confirmers, NEW t \in Requesters, NEW w \in Passwords, ConfirmBegin(c, t, w)
      PROVE  RequestInv'
  BY <1>10 DEF ConfirmBegin, SessionsOf
<1>11. ASSUME NEW c \in Confirmers, GetPasswordResetByTokenHash(c)
      PROVE  RequestInv'
  BY <1>11 DEF GetPasswordResetByTokenHash
<1>12. ASSUME NEW c \in Confirmers, UsePasswordReset(c)
      PROVE  RequestInv'
  BY <1>12 DEF UsePasswordReset
<1>13. ASSUME NEW c \in Confirmers, SetUserPasswordHash(c)
      PROVE  RequestInv'
  BY <1>13 DEF SetUserPasswordHash
<1>14. ASSUME NEW c \in Confirmers, DeleteAllSessionsForUser(c)
      PROVE  RequestInv'
  BY <1>14 DEF DeleteAllSessionsForUser, SessionsOf
<1>15. ASSUME NEW c \in Confirmers, CommitConfirm(c)
      PROVE  RequestInv'
  BY <1>15 DEF CommitConfirm, HashPassword, Hashes
<1>16. ASSUME NEW l \in Logins, NEW u \in Users, NEW w \in Passwords, Authenticate(l, u, w)
      PROVE  RequestInv'
  BY <1>16 DEF Authenticate
<1>17. ASSUME NEW l \in Logins, UpdateUserPasswordHash(l)
      PROVE  RequestInv'
  BY <1>17 DEF UpdateUserPasswordHash, HashPassword, Hashes
<1>18. ASSUME NEW l \in Logins, Issue(l)
      PROVE  RequestInv'
  BY <1>18 DEF Issue
<1>19. ASSUME NEW l \in Logins, Revoke(l)
      PROVE  RequestInv'
  BY <1>19 DEF Revoke
<1>20. ASSUME NEW p \in Requesters \cup Confirmers, Abort(p)
      PROVE  RequestInv'
  BY <1>20 DEF Abort
<1>21. ASSUME NEW u \in Users, SoftDeleteUser(u)
      PROVE  RequestInv'
  BY <1>21 DEF SoftDeleteUser
<1>22. CASE Tick
  BY <1>22 DEF Tick
<1>23. CASE UNCHANGED vars
  BY <1>23 DEF vars
<1>24. QED
  BY <1>1, <1>2, <1>3, <1>4, <1>5, <1>6, <1>7, <1>8, <1>9, <1>10,
     <1>11, <1>12, <1>13, <1>14, <1>15, <1>16, <1>17, <1>18, <1>19, <1>20,
     <1>21, <1>22, <1>23
     DEF Next, RequestStep, ConfirmStep, LoginStep, Terminated

(* Where a Confirm stands keeps deciding which row it holds.               *)
LEMMA ConfirmStepInv ==
  ASSUME TypeOK, LockInv, RequestInv, ConfirmInv, ClockInv, [Next]_vars
  PROVE  ConfirmInv'
<1> USE RequestsAssumption
    DEF TypeOK, LockInv, RequestInv, ConfirmInv, ClockInv, StillOpen,
        Requests, AnswerKinds, TxPC, LoginPC, ConfirmPC, rowVars, userVars, requestVars, confirmVars,
        inputVars, Answer, Rollback, Goto
<1>1. ASSUME NEW p \in Requesters, RequestRefused(p)
      PROVE  ConfirmInv'
  BY <1>1 DEF RequestRefused
<1>2. ASSUME NEW p \in Requesters, NEW u \in Users, RequestBegin(p, u)
      PROVE  ConfirmInv'
  BY <1>2 DEF RequestBegin
<1>3. ASSUME NEW p \in Requesters, GetUserByEmail(p)
      PROVE  ConfirmInv'
  BY <1>3 DEF GetUserByEmail
<1>4. ASSUME NEW p \in Requesters, ExpireOpenPasswordResetsForUser(p)
      PROVE  ConfirmInv'
  BY <1>4 DEF ExpireOpenPasswordResetsForUser
<1>5. ASSUME NEW p \in Requesters, NEW r \in Requesters, ExpireRow(p, r)
      PROVE  ConfirmInv'
  BY <1>5 DEF ExpireRow
<1>6. ASSUME NEW p \in Requesters, CreatePasswordReset(p)
      PROVE  ConfirmInv'
  <2>1. p \notin resets
    BY <1>6 DEF CreatePasswordReset
  <2>2. \A r \in resets : expires'[r] = expires[r]
    BY <1>6, <2>1 DEF CreatePasswordReset
  <2>3. QED
    BY <1>6, <2>2 DEF CreatePasswordReset
<1>7. ASSUME NEW p \in Requesters, CommitRequest(p)
      PROVE  ConfirmInv'
  BY <1>7 DEF CommitRequest
<1>8. ASSUME NEW p \in Requesters, Send(p)
      PROVE  ConfirmInv'
  BY <1>8 DEF Send
<1>9. ASSUME NEW c \in Confirmers, ConfirmRefused(c)
      PROVE  ConfirmInv'
  BY <1>9 DEF ConfirmRefused
<1>10. ASSUME NEW c \in Confirmers, NEW t \in Requesters, NEW w \in Passwords, ConfirmBegin(c, t, w)
      PROVE  ConfirmInv'
  BY <1>10 DEF ConfirmBegin, SessionsOf
<1>11. ASSUME NEW c \in Confirmers, GetPasswordResetByTokenHash(c)
      PROVE  ConfirmInv'
  BY <1>11 DEF GetPasswordResetByTokenHash
<1>12. ASSUME NEW c \in Confirmers, UsePasswordReset(c)
      PROVE  ConfirmInv'
  BY <1>12 DEF UsePasswordReset
<1>13. ASSUME NEW c \in Confirmers, SetUserPasswordHash(c)
      PROVE  ConfirmInv'
  BY <1>13 DEF SetUserPasswordHash
<1>14. ASSUME NEW c \in Confirmers, DeleteAllSessionsForUser(c)
      PROVE  ConfirmInv'
  BY <1>14 DEF DeleteAllSessionsForUser, SessionsOf
<1>15. ASSUME NEW c \in Confirmers, CommitConfirm(c)
      PROVE  ConfirmInv'
  BY <1>15 DEF CommitConfirm, HashPassword, Hashes
<1>16. ASSUME NEW l \in Logins, NEW u \in Users, NEW w \in Passwords, Authenticate(l, u, w)
      PROVE  ConfirmInv'
  BY <1>16 DEF Authenticate
<1>17. ASSUME NEW l \in Logins, UpdateUserPasswordHash(l)
      PROVE  ConfirmInv'
  BY <1>17 DEF UpdateUserPasswordHash, HashPassword, Hashes
<1>18. ASSUME NEW l \in Logins, Issue(l)
      PROVE  ConfirmInv'
  BY <1>18 DEF Issue
<1>19. ASSUME NEW l \in Logins, Revoke(l)
      PROVE  ConfirmInv'
  BY <1>19 DEF Revoke
<1>20. ASSUME NEW p \in Requesters \cup Confirmers, Abort(p)
      PROVE  ConfirmInv'
  BY <1>20 DEF Abort
<1>21. ASSUME NEW u \in Users, SoftDeleteUser(u)
      PROVE  ConfirmInv'
  BY <1>21 DEF SoftDeleteUser
<1>22. CASE Tick
  BY <1>22 DEF Tick
<1>23. CASE UNCHANGED vars
  BY <1>23 DEF vars
<1>24. QED
  BY <1>1, <1>2, <1>3, <1>4, <1>5, <1>6, <1>7, <1>8, <1>9, <1>10,
     <1>11, <1>12, <1>13, <1>14, <1>15, <1>16, <1>17, <1>18, <1>19, <1>20,
     <1>21, <1>22, <1>23
     DEF Next, RequestStep, ConfirmStep, LoginStep, Terminated

(* The users row of an account stays with one confirmation.                *)
LEMMA UserStep ==
  ASSUME TypeOK, RequestInv, ConfirmInv, UserInv, [Next]_vars
  PROVE  UserInv'
<1> USE RequestsAssumption
    DEF TypeOK, RequestInv, ConfirmInv, UserInv, UserLocked, ResetAccount,
        Requests, AnswerKinds, TxPC, LoginPC, ConfirmPC, rowVars, userVars, requestVars, confirmVars,
        inputVars, Answer, Rollback, Goto
<1>1. ASSUME NEW p \in Requesters, RequestRefused(p)
      PROVE  UserInv'
  BY <1>1 DEF RequestRefused
<1>2. ASSUME NEW p \in Requesters, NEW u \in Users, RequestBegin(p, u)
      PROVE  UserInv'
  BY <1>2 DEF RequestBegin
<1>3. ASSUME NEW p \in Requesters, GetUserByEmail(p)
      PROVE  UserInv'
  BY <1>3 DEF GetUserByEmail
<1>4. ASSUME NEW p \in Requesters, ExpireOpenPasswordResetsForUser(p)
      PROVE  UserInv'
  BY <1>4 DEF ExpireOpenPasswordResetsForUser
<1>5. ASSUME NEW p \in Requesters, NEW r \in Requesters, ExpireRow(p, r)
      PROVE  UserInv'
  BY <1>5 DEF ExpireRow
<1>6. ASSUME NEW p \in Requesters, CreatePasswordReset(p)
      PROVE  UserInv'
  BY <1>6 DEF CreatePasswordReset, NewPasswordResetExpiry, AppNow
<1>7. ASSUME NEW p \in Requesters, CommitRequest(p)
      PROVE  UserInv'
  BY <1>7 DEF CommitRequest
<1>8. ASSUME NEW p \in Requesters, Send(p)
      PROVE  UserInv'
  BY <1>8 DEF Send
<1>9. ASSUME NEW c \in Confirmers, ConfirmRefused(c)
      PROVE  UserInv'
  BY <1>9 DEF ConfirmRefused
<1>10. ASSUME NEW c \in Confirmers, NEW t \in Requesters, NEW w \in Passwords, ConfirmBegin(c, t, w)
      PROVE  UserInv'
  BY <1>10 DEF ConfirmBegin, SessionsOf
<1>11. ASSUME NEW c \in Confirmers, GetPasswordResetByTokenHash(c)
      PROVE  UserInv'
  BY <1>11 DEF GetPasswordResetByTokenHash
<1>12. ASSUME NEW c \in Confirmers, UsePasswordReset(c)
      PROVE  UserInv'
  BY <1>12 DEF UsePasswordReset
<1>13. ASSUME NEW c \in Confirmers, SetUserPasswordHash(c)
      PROVE  UserInv'
  BY <1>13 DEF SetUserPasswordHash
<1>14. ASSUME NEW c \in Confirmers, DeleteAllSessionsForUser(c)
      PROVE  UserInv'
  BY <1>14 DEF DeleteAllSessionsForUser, SessionsOf
<1>15. ASSUME NEW c \in Confirmers, CommitConfirm(c)
      PROVE  UserInv'
  BY <1>15 DEF CommitConfirm, HashPassword, Hashes
<1>16. ASSUME NEW l \in Logins, NEW u \in Users, NEW w \in Passwords, Authenticate(l, u, w)
      PROVE  UserInv'
  BY <1>16 DEF Authenticate
<1>17. ASSUME NEW l \in Logins, UpdateUserPasswordHash(l)
      PROVE  UserInv'
  BY <1>17 DEF UpdateUserPasswordHash, HashPassword, Hashes
<1>18. ASSUME NEW l \in Logins, Issue(l)
      PROVE  UserInv'
  BY <1>18 DEF Issue
<1>19. ASSUME NEW l \in Logins, Revoke(l)
      PROVE  UserInv'
  BY <1>19 DEF Revoke
<1>20. ASSUME NEW p \in Requesters \cup Confirmers, Abort(p)
      PROVE  UserInv'
  BY <1>20 DEF Abort
<1>21. ASSUME NEW u \in Users, SoftDeleteUser(u)
      PROVE  UserInv'
  BY <1>21 DEF SoftDeleteUser
<1>22. CASE Tick
  BY <1>22 DEF Tick
<1>23. CASE UNCHANGED vars
  BY <1>23 DEF vars
<1>24. QED
  BY <1>1, <1>2, <1>3, <1>4, <1>5, <1>6, <1>7, <1>8, <1>9, <1>10,
     <1>11, <1>12, <1>13, <1>14, <1>15, <1>16, <1>17, <1>18, <1>19, <1>20,
     <1>21, <1>22, <1>23
     DEF Next, RequestStep, ConfirmStep, LoginStep, Terminated

(* A step that opens no session, and moves no confirmation past its DELETE, *)
(* keeps the sessions' invariant.                                          *)
LEMMA SessionFrame ==
  ASSUME TypeOK, SessionInv,
         UNCHANGED <<before, doomed, applied, tok, sessions>>,
         \A l \in Logins : pc'[l] = pc[l] /\ account'[l] = account[l],
         \A c \in Confirmers :
            /\ pc'[c] \in ConfirmPC =>
                  pc[c] \in ConfirmPC /\ account'[tok[c]] = account[tok[c]]
            /\ pc'[c] = "commit" => pc[c] = "commit"
  PROVE  SessionInv'
BY DEF TypeOK, SessionInv, ResetEndsEarlierSessions, ResetAccount

(* A session doomed by a confirmation never comes back.                    *)
LEMMA SessionStep ==
  ASSUME TypeOK, RequestInv, ConfirmInv, SessionInv, [Next]_vars
  PROVE  SessionInv'
<1> USE RequestsAssumption
    DEF TypeOK, RequestInv, ConfirmInv, SessionInv, ResetEndsEarlierSessions,
        ResetAccount, Requests, AnswerKinds, TxPC, LoginPC, ConfirmPC, rowVars, userVars, requestVars, confirmVars,
        inputVars, Answer, Rollback, Goto
<1>1. ASSUME NEW p \in Requesters, RequestRefused(p)
      PROVE  SessionInv'
  BY <1>1 DEF RequestRefused
<1>2. ASSUME NEW p \in Requesters, NEW u \in Users, RequestBegin(p, u)
      PROVE  SessionInv'
  <2>1. UNCHANGED <<before, doomed, applied, tok, sessions>>
    BY <1>2 DEF RequestBegin
  <2>2. \A l \in Logins : pc'[l] = pc[l] /\ account'[l] = account[l]
    BY <1>2 DEF RequestBegin
  <2>3. \A c \in Confirmers :
            /\ pc'[c] \in ConfirmPC =>
                  pc[c] \in ConfirmPC /\ account'[tok[c]] = account[tok[c]]
            /\ pc'[c] = "commit" => pc[c] = "commit"
    BY <1>2 DEF RequestBegin
  <2>4. QED
    BY <2>1, <2>2, <2>3, SessionFrame
<1>3. ASSUME NEW p \in Requesters, GetUserByEmail(p)
      PROVE  SessionInv'
  <2>1. UNCHANGED <<before, doomed, applied, tok, sessions>>
    BY <1>3 DEF GetUserByEmail
  <2>2. \A l \in Logins : pc'[l] = pc[l] /\ account'[l] = account[l]
    BY <1>3 DEF GetUserByEmail
  <2>3. \A c \in Confirmers :
            /\ pc'[c] \in ConfirmPC =>
                  pc[c] \in ConfirmPC /\ account'[tok[c]] = account[tok[c]]
            /\ pc'[c] = "commit" => pc[c] = "commit"
    BY <1>3 DEF GetUserByEmail
  <2>4. QED
    BY <2>1, <2>2, <2>3, SessionFrame
<1>4. ASSUME NEW p \in Requesters, ExpireOpenPasswordResetsForUser(p)
      PROVE  SessionInv'
  BY <1>4 DEF ExpireOpenPasswordResetsForUser
<1>5. ASSUME NEW p \in Requesters, NEW r \in Requesters, ExpireRow(p, r)
      PROVE  SessionInv'
  BY <1>5 DEF ExpireRow
<1>6. ASSUME NEW p \in Requesters, CreatePasswordReset(p)
      PROVE  SessionInv'
  BY <1>6 DEF CreatePasswordReset, NewPasswordResetExpiry, AppNow
<1>7. ASSUME NEW p \in Requesters, CommitRequest(p)
      PROVE  SessionInv'
  <2>1. UNCHANGED <<before, doomed, applied, tok, sessions>>
    BY <1>7 DEF CommitRequest
  <2>2. \A l \in Logins : pc'[l] = pc[l] /\ account'[l] = account[l]
    BY <1>7 DEF CommitRequest
  <2>3. \A c \in Confirmers :
            /\ pc'[c] \in ConfirmPC =>
                  pc[c] \in ConfirmPC /\ account'[tok[c]] = account[tok[c]]
            /\ pc'[c] = "commit" => pc[c] = "commit"
    BY <1>7 DEF CommitRequest
  <2>4. QED
    BY <2>1, <2>2, <2>3, SessionFrame
<1>8. ASSUME NEW p \in Requesters, Send(p)
      PROVE  SessionInv'
  BY <1>8 DEF Send
<1>9. ASSUME NEW c \in Confirmers, ConfirmRefused(c)
      PROVE  SessionInv'
  BY <1>9 DEF ConfirmRefused
<1>10. ASSUME NEW c \in Confirmers, NEW t \in Requesters, NEW w \in Passwords, ConfirmBegin(c, t, w)
      PROVE  SessionInv'
  BY <1>10 DEF ConfirmBegin, SessionsOf
<1>11. ASSUME NEW c \in Confirmers, GetPasswordResetByTokenHash(c)
      PROVE  SessionInv'
  <2>1. UNCHANGED <<before, doomed, applied, tok, sessions>>
    BY <1>11 DEF GetPasswordResetByTokenHash
  <2>2. \A l \in Logins : pc'[l] = pc[l] /\ account'[l] = account[l]
    BY <1>11 DEF GetPasswordResetByTokenHash
  <2>3. \A d \in Confirmers :
            /\ pc'[d] \in ConfirmPC =>
                  pc[d] \in ConfirmPC /\ account'[tok[d]] = account[tok[d]]
            /\ pc'[d] = "commit" => pc[d] = "commit"
    BY <1>11 DEF GetPasswordResetByTokenHash
  <2>4. QED
    BY <2>1, <2>2, <2>3, SessionFrame
<1>12. ASSUME NEW c \in Confirmers, UsePasswordReset(c)
      PROVE  SessionInv'
  <2>1. UNCHANGED <<before, doomed, applied, tok, sessions>>
    BY <1>12 DEF UsePasswordReset
  <2>2. \A l \in Logins : pc'[l] = pc[l] /\ account'[l] = account[l]
    BY <1>12 DEF UsePasswordReset
  <2>3. \A d \in Confirmers :
            /\ pc'[d] \in ConfirmPC =>
                  pc[d] \in ConfirmPC /\ account'[tok[d]] = account[tok[d]]
            /\ pc'[d] = "commit" => pc[d] = "commit"
    BY <1>12 DEF UsePasswordReset
  <2>4. QED
    BY <2>1, <2>2, <2>3, SessionFrame
<1>13. ASSUME NEW c \in Confirmers, SetUserPasswordHash(c)
      PROVE  SessionInv'
  <2>1. UNCHANGED <<before, doomed, applied, tok, sessions>>
    BY <1>13 DEF SetUserPasswordHash
  <2>2. \A l \in Logins : pc'[l] = pc[l] /\ account'[l] = account[l]
    BY <1>13 DEF SetUserPasswordHash
  <2>3. \A d \in Confirmers :
            /\ pc'[d] \in ConfirmPC =>
                  pc[d] \in ConfirmPC /\ account'[tok[d]] = account[tok[d]]
            /\ pc'[d] = "commit" => pc[d] = "commit"
    BY <1>13 DEF SetUserPasswordHash
  <2>4. QED
    BY <2>1, <2>2, <2>3, SessionFrame
<1>14. ASSUME NEW c \in Confirmers, DeleteAllSessionsForUser(c)
      PROVE  SessionInv'
  BY <1>14 DEF DeleteAllSessionsForUser, SessionsOf
<1>15. ASSUME NEW c \in Confirmers, CommitConfirm(c)
      PROVE  SessionInv'
  <2>1. pc'[c] = "done" /\ \A x \in Requests \ {c} : pc'[x] = pc[x]
    BY <1>15 DEF CommitConfirm
  <2>2. UNCHANGED <<before, doomed, tok, account>>
    BY <1>15 DEF CommitConfirm
  <2>3. sessions' = sessions \ doomed[c] /\ applied' = applied \cup {c}
    BY <1>15 DEF CommitConfirm
  <2>4. before[c] \cap sessions \subseteq doomed[c]
    BY <1>15 DEF CommitConfirm
  <2>5. \A l \in Logins : pc[l] = "done" => pc'[l] = "done"
    BY <2>1
  <2>6. \A d \in Confirmers : pc'[d] \in ConfirmPC => d # c /\ pc'[d] = pc[d]
    BY <2>1
  <2>7. \A d \in applied' : before'[d] \cap sessions' = {}
    BY <2>2, <2>3, <2>4
  <2>8. QED
    BY <2>2, <2>3, <2>5, <2>6, <2>7
<1>16. ASSUME NEW l \in Logins, NEW u \in Users, NEW w \in Passwords, Authenticate(l, u, w)
      PROVE  SessionInv'
  BY <1>16 DEF Authenticate
<1>17. ASSUME NEW l \in Logins, UpdateUserPasswordHash(l)
      PROVE  SessionInv'
  BY <1>17 DEF UpdateUserPasswordHash, HashPassword, Hashes
<1>18. ASSUME NEW l \in Logins, Issue(l)
      PROVE  SessionInv'
  BY <1>18 DEF Issue
<1>19. ASSUME NEW l \in Logins, Revoke(l)
      PROVE  SessionInv'
  BY <1>19 DEF Revoke
<1>20. ASSUME NEW p \in Requesters \cup Confirmers, Abort(p)
      PROVE  SessionInv'
  BY <1>20 DEF Abort
<1>21. ASSUME NEW u \in Users, SoftDeleteUser(u)
      PROVE  SessionInv'
  BY <1>21 DEF SoftDeleteUser
<1>22. CASE Tick
  BY <1>22 DEF Tick
<1>23. CASE UNCHANGED vars
  BY <1>23 DEF vars
<1>24. QED
  BY <1>1, <1>2, <1>3, <1>4, <1>5, <1>6, <1>7, <1>8, <1>9, <1>10,
     <1>11, <1>12, <1>13, <1>14, <1>15, <1>16, <1>17, <1>18, <1>19, <1>20,
     <1>21, <1>22, <1>23
     DEF Next, RequestStep, ConfirmStep, LoginStep, Terminated

(* What a login verified stays with it.                                    *)
LEMMA RehashStep ==
  ASSUME TypeOK, RehashInv, [Next]_vars
  PROVE  RehashInv'
<1> USE RequestsAssumption
    DEF TypeOK, RehashInv, Requests, AnswerKinds, TxPC, LoginPC, ConfirmPC, rowVars, userVars, requestVars, confirmVars,
        inputVars, Answer, Rollback, Goto
<1>1. ASSUME NEW p \in Requesters, RequestRefused(p)
      PROVE  RehashInv'
  BY <1>1 DEF RequestRefused
<1>2. ASSUME NEW p \in Requesters, NEW u \in Users, RequestBegin(p, u)
      PROVE  RehashInv'
  BY <1>2 DEF RequestBegin
<1>3. ASSUME NEW p \in Requesters, GetUserByEmail(p)
      PROVE  RehashInv'
  BY <1>3 DEF GetUserByEmail
<1>4. ASSUME NEW p \in Requesters, ExpireOpenPasswordResetsForUser(p)
      PROVE  RehashInv'
  BY <1>4 DEF ExpireOpenPasswordResetsForUser
<1>5. ASSUME NEW p \in Requesters, NEW r \in Requesters, ExpireRow(p, r)
      PROVE  RehashInv'
  BY <1>5 DEF ExpireRow
<1>6. ASSUME NEW p \in Requesters, CreatePasswordReset(p)
      PROVE  RehashInv'
  BY <1>6 DEF CreatePasswordReset, NewPasswordResetExpiry, AppNow
<1>7. ASSUME NEW p \in Requesters, CommitRequest(p)
      PROVE  RehashInv'
  BY <1>7 DEF CommitRequest
<1>8. ASSUME NEW p \in Requesters, Send(p)
      PROVE  RehashInv'
  BY <1>8 DEF Send
<1>9. ASSUME NEW c \in Confirmers, ConfirmRefused(c)
      PROVE  RehashInv'
  BY <1>9 DEF ConfirmRefused
<1>10. ASSUME NEW c \in Confirmers, NEW t \in Requesters, NEW w \in Passwords, ConfirmBegin(c, t, w)
      PROVE  RehashInv'
  BY <1>10 DEF ConfirmBegin, SessionsOf
<1>11. ASSUME NEW c \in Confirmers, GetPasswordResetByTokenHash(c)
      PROVE  RehashInv'
  BY <1>11 DEF GetPasswordResetByTokenHash
<1>12. ASSUME NEW c \in Confirmers, UsePasswordReset(c)
      PROVE  RehashInv'
  BY <1>12 DEF UsePasswordReset
<1>13. ASSUME NEW c \in Confirmers, SetUserPasswordHash(c)
      PROVE  RehashInv'
  BY <1>13 DEF SetUserPasswordHash
<1>14. ASSUME NEW c \in Confirmers, DeleteAllSessionsForUser(c)
      PROVE  RehashInv'
  BY <1>14 DEF DeleteAllSessionsForUser, SessionsOf
<1>15. ASSUME NEW c \in Confirmers, CommitConfirm(c)
      PROVE  RehashInv'
  BY <1>15 DEF CommitConfirm, HashPassword, Hashes
<1>16. ASSUME NEW l \in Logins, NEW u \in Users, NEW w \in Passwords, Authenticate(l, u, w)
      PROVE  RehashInv'
  BY <1>16 DEF Authenticate
<1>17. ASSUME NEW l \in Logins, UpdateUserPasswordHash(l)
      PROVE  RehashInv'
  BY <1>17 DEF UpdateUserPasswordHash, HashPassword, Hashes
<1>18. ASSUME NEW l \in Logins, Issue(l)
      PROVE  RehashInv'
  BY <1>18 DEF Issue
<1>19. ASSUME NEW l \in Logins, Revoke(l)
      PROVE  RehashInv'
  BY <1>19 DEF Revoke
<1>20. ASSUME NEW p \in Requesters \cup Confirmers, Abort(p)
      PROVE  RehashInv'
  BY <1>20 DEF Abort
<1>21. ASSUME NEW u \in Users, SoftDeleteUser(u)
      PROVE  RehashInv'
  BY <1>21 DEF SoftDeleteUser
<1>22. CASE Tick
  BY <1>22 DEF Tick
<1>23. CASE UNCHANGED vars
  BY <1>23 DEF vars
<1>24. QED
  BY <1>1, <1>2, <1>3, <1>4, <1>5, <1>6, <1>7, <1>8, <1>9, <1>10,
     <1>11, <1>12, <1>13, <1>14, <1>15, <1>16, <1>17, <1>18, <1>19, <1>20,
     <1>21, <1>22, <1>23
     DEF Next, RequestStep, ConfirmStep, LoginStep, Terminated

(* A commit of a Confirm spends a fresh link.                              *)
LEMMA SingleUseStep ==
  ASSUME TypeOK, LockInv, ConfirmInv, OneConfirmationPerLink, [Next]_vars
  PROVE  OneConfirmationPerLink'
<1> USE RequestsAssumption
    DEF TypeOK, ConfirmInv, OneConfirmationPerLink, Requests, AnswerKinds, TxPC, LoginPC, ConfirmPC,
        rowVars, userVars, requestVars, confirmVars,
        inputVars, Answer, Rollback, Goto
<1>1. ASSUME NEW p \in Requesters, RequestRefused(p)
      PROVE  OneConfirmationPerLink'
  BY <1>1 DEF RequestRefused
<1>2. ASSUME NEW p \in Requesters, NEW u \in Users, RequestBegin(p, u)
      PROVE  OneConfirmationPerLink'
  BY <1>2 DEF RequestBegin
<1>3. ASSUME NEW p \in Requesters, GetUserByEmail(p)
      PROVE  OneConfirmationPerLink'
  BY <1>3 DEF GetUserByEmail
<1>4. ASSUME NEW p \in Requesters, ExpireOpenPasswordResetsForUser(p)
      PROVE  OneConfirmationPerLink'
  BY <1>4 DEF ExpireOpenPasswordResetsForUser
<1>5. ASSUME NEW p \in Requesters, NEW r \in Requesters, ExpireRow(p, r)
      PROVE  OneConfirmationPerLink'
  BY <1>5 DEF ExpireRow
<1>6. ASSUME NEW p \in Requesters, CreatePasswordReset(p)
      PROVE  OneConfirmationPerLink'
  BY <1>6 DEF CreatePasswordReset, NewPasswordResetExpiry, AppNow
<1>7. ASSUME NEW p \in Requesters, CommitRequest(p)
      PROVE  OneConfirmationPerLink'
  BY <1>7 DEF CommitRequest
<1>8. ASSUME NEW p \in Requesters, Send(p)
      PROVE  OneConfirmationPerLink'
  BY <1>8 DEF Send
<1>9. ASSUME NEW c \in Confirmers, ConfirmRefused(c)
      PROVE  OneConfirmationPerLink'
  BY <1>9 DEF ConfirmRefused
<1>10. ASSUME NEW c \in Confirmers, NEW t \in Requesters, NEW w \in Passwords, ConfirmBegin(c, t, w)
      PROVE  OneConfirmationPerLink'
  BY <1>10 DEF ConfirmBegin, SessionsOf
<1>11. ASSUME NEW c \in Confirmers, GetPasswordResetByTokenHash(c)
      PROVE  OneConfirmationPerLink'
  BY <1>11 DEF GetPasswordResetByTokenHash
<1>12. ASSUME NEW c \in Confirmers, UsePasswordReset(c)
      PROVE  OneConfirmationPerLink'
  BY <1>12 DEF UsePasswordReset
<1>13. ASSUME NEW c \in Confirmers, SetUserPasswordHash(c)
      PROVE  OneConfirmationPerLink'
  BY <1>13 DEF SetUserPasswordHash
<1>14. ASSUME NEW c \in Confirmers, DeleteAllSessionsForUser(c)
      PROVE  OneConfirmationPerLink'
  BY <1>14 DEF DeleteAllSessionsForUser, SessionsOf
<1>15. ASSUME NEW c \in Confirmers, CommitConfirm(c)
      PROVE  OneConfirmationPerLink'
  <2>1. held[c] = {tok[c]}
    BY <1>15 DEF CommitConfirm
  <2>2. tok[c] \notin used
    BY <2>1 DEF LockInv, StillOpen
  <2>3. used' = used \cup {tok[c]} /\ applied' = applied \cup {c} /\ tok' = tok
    BY <1>15, <2>1 DEF CommitConfirm
  <2>4. QED
    BY <2>2, <2>3
<1>16. ASSUME NEW l \in Logins, NEW u \in Users, NEW w \in Passwords, Authenticate(l, u, w)
      PROVE  OneConfirmationPerLink'
  BY <1>16 DEF Authenticate
<1>17. ASSUME NEW l \in Logins, UpdateUserPasswordHash(l)
      PROVE  OneConfirmationPerLink'
  BY <1>17 DEF UpdateUserPasswordHash, HashPassword, Hashes
<1>18. ASSUME NEW l \in Logins, Issue(l)
      PROVE  OneConfirmationPerLink'
  BY <1>18 DEF Issue
<1>19. ASSUME NEW l \in Logins, Revoke(l)
      PROVE  OneConfirmationPerLink'
  BY <1>19 DEF Revoke
<1>20. ASSUME NEW p \in Requesters \cup Confirmers, Abort(p)
      PROVE  OneConfirmationPerLink'
  BY <1>20 DEF Abort
<1>21. ASSUME NEW u \in Users, SoftDeleteUser(u)
      PROVE  OneConfirmationPerLink'
  BY <1>21 DEF SoftDeleteUser
<1>22. CASE Tick
  BY <1>22 DEF Tick
<1>23. CASE UNCHANGED vars
  BY <1>23 DEF vars
<1>24. QED
  BY <1>1, <1>2, <1>3, <1>4, <1>5, <1>6, <1>7, <1>8, <1>9, <1>10,
     <1>11, <1>12, <1>13, <1>14, <1>15, <1>16, <1>17, <1>18, <1>19, <1>20,
     <1>21, <1>22, <1>23
     DEF Next, RequestStep, ConfirmStep, LoginStep, Terminated

(* The invariant of passwords, links and sessions is inductive. *)
THEOREM Inductive == Spec => []IInv
<1>1. Init => IInv
  <2> SUFFICES ASSUME Init PROVE IInv
    OBVIOUS
  <2>1. TypeOK
    <3>1. HashPassword(NoOne, FirstPassword) \in Hashes
      BY FirstPasswordAssumption DEF HashPassword, Hashes
    <3>2. hash \in [Users -> Hashes]
      BY FirstPasswordAssumption DEF Init, Hashes
    <3>3. QED
      BY <3>1, <3>2, FirstPasswordAssumption
         DEF Init, TypeOK, AnswerKinds
  <2>2. QED
    BY <2>1, RequestsAssumption
       DEF Init, IInv, LockInv, RequestInv, ConfirmInv, UserInv, SessionInv, RehashInv,
           ClockInv, OneConfirmationPerLink, ResetEndsEarlierSessions, Requests, ConfirmPC
<1>2. IInv /\ [Next]_vars => IInv'
  BY TypeStep, LockStep, RequestStepInv, ConfirmStepInv, UserStep, SessionStep,
     RehashStep, ClockStep, SingleUseStep
     DEF IInv
<1>3. QED
  BY <1>1, <1>2, PTL DEF Spec

(* Request, Confirm and Login keep every variable in its type. *)
THEOREM TypeCorrect == Spec => []TypeOK
<1>1. IInv => TypeOK
  BY DEF IInv
<1>2. QED
  BY <1>1, Inductive, PTL

(* However many confirmations race on a link, one of them sets a password, *)
(* and the stamp on the row says so.                                       *)
THEOREM LinkIsSingleUse == Spec => []OneConfirmationPerLink
<1>1. IInv => OneConfirmationPerLink
  BY DEF IInv
<1>2. QED
  BY <1>1, Inductive, PTL

(* A confirmation begun after its link was superseded sets no password,    *)
(* whatever the skew of the application's clock.                           *)
THEOREM SupersededIsRefused == Spec => []SupersededLinkRefused
<1>1. IInv => SupersededLinkRefused
  BY DEF IInv, TypeOK, ConfirmInv, SupersededLinkRefused
<1>2. QED
  BY <1>1, Inductive, PTL

(* A committed confirmation has ended every session that was open when it  *)
(* began, for good.                                                        *)
THEOREM EarlierSessionsEnd == Spec => []ResetEndsEarlierSessions
<1>1. IInv => ResetEndsEarlierSessions
  BY DEF IInv, SessionInv
<1>2. QED
  BY <1>1, Inductive, PTL

(* The two statements that write password_hash: a rehash keeps the         *)
(* password behind it, a confirmation spends a link of a live account.     *)
LEMMA HashWrites ==
  ASSUME IInv, [Next]_vars, NEW u \in Users, hash'[u] # hash[u]
  PROVE  /\ u \notin masked
         /\ hash'[u].pw # hash[u].pw => \E r \in used' \ used : account[r] = u
<1> USE DEF IInv, rowVars, userVars
<1>1. ASSUME NEW c \in Confirmers, CommitConfirm(c)
      PROVE  u \notin masked /\ \E r \in used' \ used : account[r] = u
  <2>1. u = ResetAccount(c)
    BY <1>1 DEF CommitConfirm, TypeOK
  <2>2. u \notin masked
    BY <1>1, <2>1 DEF CommitConfirm, UserInv
  <2>3. held[c] = {tok[c]}
    BY <1>1 DEF CommitConfirm, ConfirmInv
  <2>4. tok[c] \notin used
    BY <2>3 DEF LockInv, StillOpen, Requests
  <2>5. tok[c] \in used'
    BY <1>1, <2>3 DEF CommitConfirm
  <2>6. QED
    BY <2>1, <2>2, <2>4, <2>5 DEF ResetAccount
<1>2. ASSUME NEW l \in Logins, UpdateUserPasswordHash(l)
      PROVE  u \notin masked /\ hash'[u].pw = hash[u].pw
  <2>1. /\ u = account[l] /\ u \notin masked
        /\ hash[u] = seenHash[l]
        /\ hash'[u] = HashPassword(l, secret[l])
    BY <1>2 DEF UpdateUserPasswordHash, TypeOK
  <2>2. seenHash[l].pw = secret[l]
    BY <1>2 DEF UpdateUserPasswordHash, RehashInv
  <2>3. QED
    BY <2>1, <2>2 DEF HashPassword
<1>3. QED
  BY <1>1, <1>2
     DEF Next, RequestStep, ConfirmStep, LoginStep, Terminated, RequestRefused, RequestBegin,
         GetUserByEmail, ExpireOpenPasswordResetsForUser, ExpireRow, CreatePasswordReset,
         CommitRequest, Send, ConfirmRefused, ConfirmBegin, GetPasswordResetByTokenHash,
         UsePasswordReset, SetUserPasswordHash, DeleteAllSessionsForUser, Authenticate,
         Issue, Revoke, Abort, SoftDeleteUser, Tick, vars

(* Only a spent reset link changes the password of an account: a login's   *)
(* rehash that lost the race against a reset does not bring the old        *)
(* password back.                                                          *)
THEOREM PasswordsNeverRevert == Spec => PasswordChangesOnlyByReset
<1>1. IInv /\ [Next]_vars =>
        [\A u \in Users : hash'[u].pw # hash[u].pw =>
            \E r \in used' \ used : account[r] = u]_vars
  BY HashWrites
<1>2. QED
  BY <1>1, Inductive, PTL DEF Spec, PasswordChangesOnlyByReset

(* Nothing writes the hash of a masked account, and masking is for good. *)
THEOREM MaskedIsFinal == Spec => MaskedAccountUntouched
<1>1. IInv /\ [Next]_vars =>
        [\A u \in masked : u \in masked' /\ hash'[u] = hash[u]]_vars
  <2> SUFFICES ASSUME IInv, [Next]_vars, NEW u \in masked
               PROVE  u \in masked' /\ hash'[u] = hash[u]
    OBVIOUS
  <2>1. hash'[u] = hash[u]
    BY HashWrites DEF IInv, TypeOK
  <2>2. u \in masked'
    BY DEF Next, RequestStep, ConfirmStep, LoginStep, Terminated, RequestRefused, RequestBegin,
           GetUserByEmail, ExpireOpenPasswordResetsForUser, ExpireRow, CreatePasswordReset,
           CommitRequest, Send, ConfirmRefused, ConfirmBegin, GetPasswordResetByTokenHash,
           UsePasswordReset, SetUserPasswordHash, DeleteAllSessionsForUser, CommitConfirm,
           Authenticate, UpdateUserPasswordHash, Issue, Revoke, Abort, SoftDeleteUser, Tick,
           vars, userVars
  <2>3. QED
    BY <2>1, <2>2
<1>2. QED
  BY <1>1, Inductive, PTL DEF Spec, MaskedAccountUntouched

(* What a step that neither commits nor receives a link leaves alone, and  *)
(* with it the whole state of the abstract specification.                  *)
LEMMA LinkFrame ==
  ASSUME IInv, UNCHANGED <<resets, tok, late, used, applied>>,
         \A p \in resets : known'[p] = known[p]
  PROVE  UNCHANGED Link!vars
<1>1. {r \in Requesters : \E q \in resets : r \in known[q]}'
        = {r \in Requesters : \E q \in resets : r \in known[q]}
  OBVIOUS
<1>2. QED
  BY <1>1 DEF Link!vars

(* Request and Confirm implement the single-use link: a commit of Request  *)
(* publishes, a Confirm that arrives presents, a commit of Confirm         *)
(* redeems, and every other statement is a step nobody sees.               *)
THEOREM ImplementsSingleUse == Spec => ImplementsLink
<1>1. Init => Link!Init
  BY DEF Init, Link!Init
<1>2. IInv /\ [Next]_vars => [Link!Next]_(Link!vars)
  <2> SUFFICES ASSUME IInv, [Next]_vars
               PROVE  Link!Next \/ UNCHANGED Link!vars
    OBVIOUS
  <2> USE RequestsAssumption DEF IInv
  <2>1. ASSUME NEW p \in Requesters, CommitRequest(p)
        PROVE  Link!Next
    <3>1. p \notin resets /\ known[p] \in SUBSET resets
      BY <2>1 DEF CommitRequest, RequestInv
    <3>2. PICK old \in SUBSET resets : old = known[p]
      BY <3>1
    <3>3. {r \in Requesters : \E q \in resets : r \in known[q]}'
            = {r \in Requesters : \E q \in resets : r \in known[q]} \cup old
      BY <2>1, <3>1, <3>2 DEF CommitRequest, TypeOK, requestVars
    <3>4. Link!Publish(p, old)
      BY <2>1, <3>1, <3>3 DEF CommitRequest, Link!Publish, confirmVars
    <3>5. QED
      BY <3>4 DEF Link!Next
  <2>2. ASSUME NEW c \in Confirmers, NEW t \in Requesters, NEW w \in Passwords,
               ConfirmBegin(c, t, w)
        PROVE  Link!Next
    <3>1. tok[c] = NoOne /\ t \in resets
      BY <2>2 DEF ConfirmBegin, ConfirmInv, RequestInv
    <3>2. {d \in Confirmers : late[d]}'
            = {d \in Confirmers : late[d]}
              \cup {x \in {c} : t \in {r \in Requesters : \E q \in resets : r \in known[q]}}
      BY <2>2 DEF ConfirmBegin, ConfirmInv, TypeOK
    <3>3. {r \in Requesters : \E q \in resets : r \in known[q]}'
            = {r \in Requesters : \E q \in resets : r \in known[q]}
      BY <2>2 DEF ConfirmBegin, rowVars, requestVars
    <3>4. Link!Present(c, t)
      BY <2>2, <3>1, <3>2, <3>3 DEF ConfirmBegin, Link!Present, rowVars
    <3>5. QED
      BY <3>4 DEF Link!Next
  <2>3. ASSUME NEW c \in Confirmers, CommitConfirm(c)
        PROVE  Link!Next
    <3>1. held[c] = {tok[c]} /\ tok[c] \in resets /\ tok[c] \notin used
      BY <2>3 DEF CommitConfirm, ConfirmInv, ConfirmPC, LockInv, StillOpen, Requests
    <3>2. c \notin applied
      BY <2>3 DEF CommitConfirm, ConfirmInv
    <3>3. expires[tok[c]] \in Int /\ start[c] \in Int /\ expires[tok[c]] > start[c]
      <4>1. c \in Requests /\ tok[c] \in Requesters
        BY <3>1 DEF Requests, TypeOK
      <4>2. StillOpen(tok[c], start[c])
        BY <3>1, <4>1 DEF LockInv
      <4>3. QED
        BY <4>1, <4>2 DEF StillOpen, TypeOK
    <3>4. ~late[c]
      BY <3>1, <3>3 DEF ConfirmInv
    <3>5. UNCHANGED <<{r \in Requesters : \E q \in resets : r \in known[q]},
                      {d \in Confirmers : late[d]}>>
      BY <2>3 DEF CommitConfirm, confirmVars, requestVars
    <3>6. Link!Redeem(c)
      BY <2>3, <3>1, <3>2, <3>4, <3>5 DEF CommitConfirm, Link!Redeem, confirmVars
    <3>7. QED
      BY <3>6 DEF Link!Next
  <2>4. ASSUME NEW p \in Requesters, ExpireOpenPasswordResetsForUser(p)
        PROVE  UNCHANGED Link!vars
    BY <2>4, LinkFrame
       DEF ExpireOpenPasswordResetsForUser, RequestInv, TypeOK, rowVars, confirmVars
  <2>5. CASE UNCHANGED <<resets, tok, late, used, applied, known>>
    BY <2>5, LinkFrame
  <2>6. QED
    BY <2>1, <2>2, <2>3, <2>4, <2>5
       DEF Next, RequestStep, ConfirmStep, LoginStep, RequestRefused, RequestBegin,
           GetUserByEmail, ExpireRow, CreatePasswordReset, Send, ConfirmRefused,
           GetPasswordResetByTokenHash, UsePasswordReset, SetUserPasswordHash,
           DeleteAllSessionsForUser, Authenticate, UpdateUserPasswordHash, Issue, Revoke,
           Abort, SoftDeleteUser, Tick, Terminated, vars, rowVars, requestVars, confirmVars
<1>3. QED
  BY <1>1, <1>2, Inductive, PTL DEF Spec, ImplementsLink, Link!Spec
=============================================================================
