------------------------- MODULE InvitationsProofs -------------------------
(* Proofs about Invitations, for any sets of requests and addresses, any   *)
(* window and any skew between the two clocks.                             *)
EXTENDS Invitations, TLAPS

(* One transaction at a time holds a row, and while it does the row is     *)
(* committed, not accepted, and open by that transaction's clock.          *)
LockInv ==
    /\ \A p, q \in Requests : p # q => held[p] \cap held[q] = {}
    /\ \A p \in Requests : pc[p] = "idle" => held[p] = {}
    /\ \A p \in Requests : \A r \in held[p] :
          r \in invitations /\ StillOpen(r, start[p])

(* Where a Create stands decides whether its row is committed; every row   *)
(* its scan knew is still to be visited, locked by it, or closed.          *)
CreateInv ==
    \A p \in Creators :
        /\ p \in invitations => pc[p] \in {"send", "done"}
        /\ p \in mailed => p \in invitations
        /\ pc[p] = "send" => p \in invitations
        /\ known[p] \subseteq invitations
        /\ todo[p] \subseteq known[p]
        /\ pc[p] = "commit" => todo[p] = {}
        /\ pc[p] \in {"expire", "commit"} \/ p \in invitations =>
              \A r \in known[p] :
                  \/ p \notin invitations /\ r \in todo[p] \cup held[p]
                  \/ r \in accepted
                  \/ expires[r] <= start[p]

(* Where an Accept stands decides which row it holds and whether its       *)
(* account exists.                                                         *)
AcceptInv ==
    \A a \in Accepters :
        /\ pc[a] = "idle" => tok[a] = NoToken
        /\ pc[a] \in {"user", "commit"} => held[a] = {tok[a]}
        /\ pc[a] \in AcceptPC \cup {"issue"} => tok[a] \in invitations
        /\ a \in accounts => pc[a] \in {"issue", "done"} /\ tok[a] \in invitations
        /\ pc[a] = "idle" \/ a \in accounts => ~late[a]
        /\ late[a] =>
              /\ tok[a] \in invitations
              /\ tok[a] \in accepted \/ expires[tok[a]] <= start[a]

(* An address about to be committed is free, and no other transaction is   *)
(* about to commit it.                                                     *)
AddressInv ==
    \A a \in Accepters : pc[a] = "commit" =>
        /\ ~AddressTaken(AccountEmail(a))
        /\ ~AddressPending(a)

(* A redemption is answered once, after its account was decided. *)
AnswerInv ==
    /\ \A a \in Accepters :
          /\ pc[a] # "done" => ans[a] = "none"
          /\ pc[a] = "issue" => a \in accounts
    /\ RefusalCreatesNothing

(* No transaction's now() is ahead of the clock. *)
ClockInv == \A p \in Requests : start[p] <= now

IInv ==
    /\ TypeOK
    /\ LockInv
    /\ CreateInv
    /\ AcceptInv
    /\ AddressInv
    /\ ClockInv
    /\ OneAccountPerLink
    /\ OneLiveAccountPerAddress
    /\ AnswerInv
-----------------------------------------------------------------------------
(* Every action keeps every variable in its type; the row an Accept stamps *)
(* is a committed one.                                                     *)
LEMMA TypeStep ==
  ASSUME TypeOK, AcceptInv, [Next]_vars
  PROVE  TypeOK'
<1> USE RequestsAssumption, WindowAssumption, SkewAssumption
    DEF TypeOK, Requests, AnswerKinds, CreatePC, AcceptPC,
        rowVars, userVars, inputVars, scanVars, Answer, Rollback, Goto
<1>1. ASSUME NEW p \in Creators, CreateRefused(p) PROVE TypeOK'
  BY <1>1 DEF CreateRefused
<1>2. ASSUME NEW p \in Creators, NEW e \in Emails, CreateBegin(p, e) PROVE TypeOK'
  BY <1>2 DEF CreateBegin
<1>3. ASSUME NEW p \in Creators, GetUserByEmail(p) PROVE TypeOK'
  BY <1>3 DEF GetUserByEmail
<1>4. ASSUME NEW p \in Creators, ExpireOpenInvitationsForEmail(p) PROVE TypeOK'
  BY <1>4 DEF ExpireOpenInvitationsForEmail
<1>5. ASSUME NEW p \in Creators, NEW r \in Creators, ExpireRow(p, r) PROVE TypeOK'
  BY <1>5 DEF ExpireRow
<1>6. ASSUME NEW p \in Creators, CreateInvitation(p) PROVE TypeOK'
  BY <1>6 DEF CreateInvitation, NewInvitationExpiry, AppNow
<1>7. ASSUME NEW p \in Creators, CommitCreate(p) PROVE TypeOK'
  <2>1. pc' \in [Requests -> CreatePC \cup AcceptPC \cup {"idle", "send", "issue", "done"}]
    BY <1>7 DEF CommitCreate, Committed
  <2>2. ans' \in [Requests -> AnswerKinds]
    BY <1>7 DEF CommitCreate, Committed
  <2>3. expires' \in [Creators -> Int]
    BY <1>7 DEF CommitCreate
  <2>4. QED
    BY <1>7, <2>1, <2>2, <2>3 DEF CommitCreate, Committed
<1>8. ASSUME NEW p \in Creators, Send(p) PROVE TypeOK'
  BY <1>8 DEF Send
<1>9. ASSUME NEW a \in Accepters, AcceptRefused(a) PROVE TypeOK'
  BY <1>9 DEF AcceptRefused
<1>10. ASSUME NEW a \in Accepters, NEW t \in Creators, AcceptBegin(a, t) PROVE TypeOK'
  BY <1>10 DEF AcceptBegin
<1>11. ASSUME NEW a \in Accepters, GetInvitationByTokenHash(a) PROVE TypeOK'
  BY <1>11 DEF GetInvitationByTokenHash
<1>12. ASSUME NEW a \in Accepters, AcceptInvitation(a) PROVE TypeOK'
  <2>1. tok[a] \in Creators
    BY <1>12 DEF AcceptInvitation, AcceptInv
  <2>2. pc' \in [Requests -> CreatePC \cup AcceptPC \cup {"idle", "send", "issue", "done"}]
    BY <1>12 DEF AcceptInvitation
  <2>3. ans' \in [Requests -> AnswerKinds]
    BY <1>12 DEF AcceptInvitation
  <2>4. held' \in [Requests -> SUBSET Creators]
    BY <1>12, <2>1 DEF AcceptInvitation
  <2>5. QED
    BY <1>12, <2>2, <2>3, <2>4 DEF AcceptInvitation
<1>13. ASSUME NEW a \in Accepters, CreateUser(a) PROVE TypeOK'
  <2>1. pc' \in [Requests -> CreatePC \cup AcceptPC \cup {"idle", "send", "issue", "done"}]
    BY <1>13 DEF CreateUser
  <2>2. ans' \in [Requests -> AnswerKinds]
    BY <1>13 DEF CreateUser
  <2>3. held' \in [Requests -> SUBSET Creators]
    BY <1>13 DEF CreateUser
  <2>4. QED
    BY <1>13, <2>1, <2>2, <2>3 DEF CreateUser
<1>14. ASSUME NEW a \in Accepters, CommitAccept(a) PROVE TypeOK'
  BY <1>14 DEF CommitAccept, Committed
<1>15. ASSUME NEW a \in Accepters, IssueSession(a) PROVE TypeOK'
  BY <1>15 DEF IssueSession
<1>16. ASSUME NEW p \in Requests, Abort(p) PROVE TypeOK'
  BY <1>16 DEF Abort
<1>17. ASSUME NEW a \in Accepters, SoftDeleteUser(a) PROVE TypeOK'
  BY <1>17 DEF SoftDeleteUser
<1>18. CASE Tick
  BY <1>18 DEF Tick
<1>19. CASE UNCHANGED vars
  BY <1>19 DEF vars
<1>20. QED
  BY <1>1, <1>2, <1>3, <1>4, <1>5, <1>6, <1>7, <1>8, <1>9, <1>10,
     <1>11, <1>12, <1>13, <1>14, <1>15, <1>16, <1>17, <1>18, <1>19
     DEF Next, CreateStep, AcceptStep, Terminated

(* now() never runs ahead of the clock. *)
LEMMA ClockStep ==
  ASSUME TypeOK, ClockInv, [Next]_vars
  PROVE  ClockInv'
<1> USE RequestsAssumption, MaxTimeAssumption
    DEF TypeOK, ClockInv, Requests, AnswerKinds, CreatePC, AcceptPC,
        rowVars, userVars, inputVars, scanVars, Answer, Rollback, Goto
<1>1. ASSUME NEW p \in Creators, CreateRefused(p) PROVE ClockInv'
  BY <1>1 DEF CreateRefused
<1>2. ASSUME NEW p \in Creators, NEW e \in Emails, CreateBegin(p, e) PROVE ClockInv'
  BY <1>2 DEF CreateBegin
<1>3. ASSUME NEW p \in Creators, GetUserByEmail(p) PROVE ClockInv'
  BY <1>3 DEF GetUserByEmail
<1>4. ASSUME NEW p \in Creators, ExpireOpenInvitationsForEmail(p) PROVE ClockInv'
  BY <1>4 DEF ExpireOpenInvitationsForEmail
<1>5. ASSUME NEW p \in Creators, NEW r \in Creators, ExpireRow(p, r) PROVE ClockInv'
  BY <1>5 DEF ExpireRow
<1>6. ASSUME NEW p \in Creators, CreateInvitation(p) PROVE ClockInv'
  BY <1>6 DEF CreateInvitation, NewInvitationExpiry, AppNow
<1>7. ASSUME NEW p \in Creators, CommitCreate(p) PROVE ClockInv'
  BY <1>7 DEF CommitCreate, Committed
<1>8. ASSUME NEW p \in Creators, Send(p) PROVE ClockInv'
  BY <1>8 DEF Send
<1>9. ASSUME NEW a \in Accepters, AcceptRefused(a) PROVE ClockInv'
  BY <1>9 DEF AcceptRefused
<1>10. ASSUME NEW a \in Accepters, NEW t \in Creators, AcceptBegin(a, t) PROVE ClockInv'
  BY <1>10 DEF AcceptBegin
<1>11. ASSUME NEW a \in Accepters, GetInvitationByTokenHash(a) PROVE ClockInv'
  BY <1>11 DEF GetInvitationByTokenHash
<1>12. ASSUME NEW a \in Accepters, AcceptInvitation(a) PROVE ClockInv'
  BY <1>12 DEF AcceptInvitation
<1>13. ASSUME NEW a \in Accepters, CreateUser(a) PROVE ClockInv'
  BY <1>13 DEF CreateUser
<1>14. ASSUME NEW a \in Accepters, CommitAccept(a) PROVE ClockInv'
  BY <1>14 DEF CommitAccept, Committed
<1>15. ASSUME NEW a \in Accepters, IssueSession(a) PROVE ClockInv'
  BY <1>15 DEF IssueSession
<1>16. ASSUME NEW p \in Requests, Abort(p) PROVE ClockInv'
  BY <1>16 DEF Abort
<1>17. ASSUME NEW a \in Accepters, SoftDeleteUser(a) PROVE ClockInv'
  BY <1>17 DEF SoftDeleteUser
<1>18. CASE Tick
  BY <1>18 DEF Tick
<1>19. CASE UNCHANGED vars
  BY <1>19 DEF vars
<1>20. QED
  BY <1>1, <1>2, <1>3, <1>4, <1>5, <1>6, <1>7, <1>8, <1>9, <1>10,
     <1>11, <1>12, <1>13, <1>14, <1>15, <1>16, <1>17, <1>18, <1>19
     DEF Next, CreateStep, AcceptStep, Terminated

(* Row locks stay exclusive, and what a holder saw of its row stays true.  *)
LEMMA LockStep ==
  ASSUME TypeOK, LockInv, CreateInv, AcceptInv, [Next]_vars
  PROVE  LockInv'
<1> USE RequestsAssumption
    DEF TypeOK, LockInv, CreateInv, AcceptInv, LockedByOther, StillOpen,
        Requests, AnswerKinds, CreatePC, AcceptPC, rowVars, userVars, inputVars, scanVars, Answer, Rollback, Goto
<1>1. ASSUME NEW p \in Creators, CreateRefused(p) PROVE LockInv'
  BY <1>1 DEF CreateRefused
<1>2. ASSUME NEW p \in Creators, NEW e \in Emails, CreateBegin(p, e) PROVE LockInv'
  BY <1>2 DEF CreateBegin
<1>3. ASSUME NEW p \in Creators, GetUserByEmail(p) PROVE LockInv'
  BY <1>3 DEF GetUserByEmail
<1>4. ASSUME NEW p \in Creators, ExpireOpenInvitationsForEmail(p) PROVE LockInv'
  BY <1>4 DEF ExpireOpenInvitationsForEmail
<1>5. ASSUME NEW p \in Creators, NEW r \in Creators, ExpireRow(p, r) PROVE LockInv'
  BY <1>5 DEF ExpireRow
<1>6. ASSUME NEW p \in Creators, CreateInvitation(p) PROVE LockInv'
  BY <1>6 DEF CreateInvitation, NewInvitationExpiry, AppNow
<1>7. ASSUME NEW p \in Creators, CommitCreate(p) PROVE LockInv'
  BY <1>7 DEF CommitCreate, Committed
<1>8. ASSUME NEW p \in Creators, Send(p) PROVE LockInv'
  BY <1>8 DEF Send
<1>9. ASSUME NEW a \in Accepters, AcceptRefused(a) PROVE LockInv'
  BY <1>9 DEF AcceptRefused
<1>10. ASSUME NEW a \in Accepters, NEW t \in Creators, AcceptBegin(a, t) PROVE LockInv'
  BY <1>10 DEF AcceptBegin
<1>11. ASSUME NEW a \in Accepters, GetInvitationByTokenHash(a) PROVE LockInv'
  BY <1>11 DEF GetInvitationByTokenHash
<1>12. ASSUME NEW a \in Accepters, AcceptInvitation(a) PROVE LockInv'
  <2>1. tok[a] \in invitations
    BY <1>12 DEF AcceptInvitation
  <2>2. CASE pc'[a] = "done"
    BY <1>12, <2>2 DEF AcceptInvitation
  <2>3. CASE held' = [held EXCEPT ![a] = {tok[a]}] /\ StillOpen(tok[a], start[a])
    BY <1>12, <2>1, <2>3 DEF AcceptInvitation
  <2>4. QED
    BY <1>12, <2>2, <2>3 DEF AcceptInvitation
<1>13. ASSUME NEW a \in Accepters, CreateUser(a) PROVE LockInv'
  BY <1>13 DEF CreateUser
<1>14. ASSUME NEW a \in Accepters, CommitAccept(a) PROVE LockInv'
  BY <1>14 DEF CommitAccept, Committed
<1>15. ASSUME NEW a \in Accepters, IssueSession(a) PROVE LockInv'
  BY <1>15 DEF IssueSession
<1>16. ASSUME NEW p \in Requests, Abort(p) PROVE LockInv'
  BY <1>16 DEF Abort
<1>17. ASSUME NEW a \in Accepters, SoftDeleteUser(a) PROVE LockInv'
  BY <1>17 DEF SoftDeleteUser
<1>18. CASE Tick
  BY <1>18 DEF Tick
<1>19. CASE UNCHANGED vars
  BY <1>19 DEF vars
<1>20. QED
  BY <1>1, <1>2, <1>3, <1>4, <1>5, <1>6, <1>7, <1>8, <1>9, <1>10,
     <1>11, <1>12, <1>13, <1>14, <1>15, <1>16, <1>17, <1>18, <1>19
     DEF Next, CreateStep, AcceptStep, Terminated

(* Every row a Create's scan knew stays accounted for.                     *)
LEMMA CreateStepInv ==
  ASSUME TypeOK, LockInv, CreateInv, AcceptInv, ClockInv, [Next]_vars
  PROVE  CreateInv'
<1> USE RequestsAssumption
    DEF TypeOK, LockInv, CreateInv, AcceptInv, StillOpen,
        Requests, AnswerKinds, CreatePC, AcceptPC, rowVars, userVars, inputVars, scanVars, Answer, Rollback, Goto
<1>1. ASSUME NEW p \in Creators, CreateRefused(p) PROVE CreateInv'
  BY <1>1 DEF CreateRefused
<1>2. ASSUME NEW p \in Creators, NEW e \in Emails, CreateBegin(p, e) PROVE CreateInv'
  BY <1>2 DEF CreateBegin
<1>3. ASSUME NEW p \in Creators, GetUserByEmail(p) PROVE CreateInv'
  BY <1>3 DEF GetUserByEmail
<1>4. ASSUME NEW p \in Creators, ExpireOpenInvitationsForEmail(p) PROVE CreateInv'
  BY <1>4 DEF ExpireOpenInvitationsForEmail
<1>5. ASSUME NEW p \in Creators, NEW r \in Creators, ExpireRow(p, r) PROVE CreateInv'
  BY <1>5 DEF ExpireRow
<1>6. ASSUME NEW p \in Creators, CreateInvitation(p) PROVE CreateInv'
  BY <1>6 DEF CreateInvitation, NewInvitationExpiry, AppNow
<1>7. ASSUME NEW p \in Creators, CommitCreate(p) PROVE CreateInv'
  BY <1>7 DEF CommitCreate, Committed
<1>8. ASSUME NEW p \in Creators, Send(p) PROVE CreateInv'
  BY <1>8 DEF Send
<1>9. ASSUME NEW a \in Accepters, AcceptRefused(a) PROVE CreateInv'
  BY <1>9 DEF AcceptRefused
<1>10. ASSUME NEW a \in Accepters, NEW t \in Creators, AcceptBegin(a, t) PROVE CreateInv'
  BY <1>10 DEF AcceptBegin
<1>11. ASSUME NEW a \in Accepters, GetInvitationByTokenHash(a) PROVE CreateInv'
  BY <1>11 DEF GetInvitationByTokenHash
<1>12. ASSUME NEW a \in Accepters, AcceptInvitation(a) PROVE CreateInv'
  BY <1>12 DEF AcceptInvitation
<1>13. ASSUME NEW a \in Accepters, CreateUser(a) PROVE CreateInv'
  BY <1>13 DEF CreateUser
<1>14. ASSUME NEW a \in Accepters, CommitAccept(a) PROVE CreateInv'
  BY <1>14 DEF CommitAccept, Committed
<1>15. ASSUME NEW a \in Accepters, IssueSession(a) PROVE CreateInv'
  BY <1>15 DEF IssueSession
<1>16. ASSUME NEW p \in Requests, Abort(p) PROVE CreateInv'
  BY <1>16 DEF Abort
<1>17. ASSUME NEW a \in Accepters, SoftDeleteUser(a) PROVE CreateInv'
  BY <1>17 DEF SoftDeleteUser
<1>18. CASE Tick
  BY <1>18 DEF Tick
<1>19. CASE UNCHANGED vars
  BY <1>19 DEF vars
<1>20. QED
  BY <1>1, <1>2, <1>3, <1>4, <1>5, <1>6, <1>7, <1>8, <1>9, <1>10,
     <1>11, <1>12, <1>13, <1>14, <1>15, <1>16, <1>17, <1>18, <1>19
     DEF Next, CreateStep, AcceptStep, Terminated

(* Where an Accept stands keeps deciding which row it holds.               *)
LEMMA AcceptStepInv ==
  ASSUME TypeOK, LockInv, CreateInv, AcceptInv, ClockInv, [Next]_vars
  PROVE  AcceptInv'
<1> USE RequestsAssumption
    DEF TypeOK, LockInv, CreateInv, AcceptInv, ClockInv, StillOpen,
        Requests, AnswerKinds, CreatePC, AcceptPC, rowVars, userVars, inputVars, scanVars, Answer, Rollback, Goto
<1>1. ASSUME NEW p \in Creators, CreateRefused(p) PROVE AcceptInv'
  BY <1>1 DEF CreateRefused
<1>2. ASSUME NEW p \in Creators, NEW e \in Emails, CreateBegin(p, e) PROVE AcceptInv'
  BY <1>2 DEF CreateBegin
<1>3. ASSUME NEW p \in Creators, GetUserByEmail(p) PROVE AcceptInv'
  BY <1>3 DEF GetUserByEmail
<1>4. ASSUME NEW p \in Creators, ExpireOpenInvitationsForEmail(p) PROVE AcceptInv'
  BY <1>4 DEF ExpireOpenInvitationsForEmail
<1>5. ASSUME NEW p \in Creators, NEW r \in Creators, ExpireRow(p, r) PROVE AcceptInv'
  BY <1>5 DEF ExpireRow
<1>6. ASSUME NEW p \in Creators, CreateInvitation(p) PROVE AcceptInv'
  <2>1. p \notin invitations
    BY <1>6 DEF CreateInvitation
  <2>2. \A r \in invitations : expires'[r] = expires[r]
    BY <1>6, <2>1 DEF CreateInvitation
  <2>3. QED
    BY <1>6, <2>2 DEF CreateInvitation
<1>7. ASSUME NEW p \in Creators, CommitCreate(p) PROVE AcceptInv'
  BY <1>7 DEF CommitCreate, Committed
<1>8. ASSUME NEW p \in Creators, Send(p) PROVE AcceptInv'
  BY <1>8 DEF Send
<1>9. ASSUME NEW a \in Accepters, AcceptRefused(a) PROVE AcceptInv'
  BY <1>9 DEF AcceptRefused
<1>10. ASSUME NEW a \in Accepters, NEW t \in Creators, AcceptBegin(a, t) PROVE AcceptInv'
  BY <1>10 DEF AcceptBegin
<1>11. ASSUME NEW a \in Accepters, GetInvitationByTokenHash(a) PROVE AcceptInv'
  BY <1>11 DEF GetInvitationByTokenHash
<1>12. ASSUME NEW a \in Accepters, AcceptInvitation(a) PROVE AcceptInv'
  BY <1>12 DEF AcceptInvitation
<1>13. ASSUME NEW a \in Accepters, CreateUser(a) PROVE AcceptInv'
  BY <1>13 DEF CreateUser
<1>14. ASSUME NEW a \in Accepters, CommitAccept(a) PROVE AcceptInv'
  BY <1>14 DEF CommitAccept, Committed
<1>15. ASSUME NEW a \in Accepters, IssueSession(a) PROVE AcceptInv'
  <2>1. \A b \in Accepters : pc'[b] = pc[b] \/ (b = a /\ pc[b] = "issue" /\ pc'[b] = "done")
    BY <1>15 DEF IssueSession
  <2>2. UNCHANGED <<held, tok, late, start, accounts, invitations, accepted, expires>>
    BY <1>15 DEF IssueSession
  <2>3. QED
    BY <2>1, <2>2
<1>16. ASSUME NEW p \in Requests, Abort(p) PROVE AcceptInv'
  BY <1>16 DEF Abort
<1>17. ASSUME NEW a \in Accepters, SoftDeleteUser(a) PROVE AcceptInv'
  BY <1>17 DEF SoftDeleteUser
<1>18. CASE Tick
  BY <1>18 DEF Tick
<1>19. CASE UNCHANGED vars
  BY <1>19 DEF vars
<1>20. QED
  BY <1>1, <1>2, <1>3, <1>4, <1>5, <1>6, <1>7, <1>8, <1>9, <1>10,
     <1>11, <1>12, <1>13, <1>14, <1>15, <1>16, <1>17, <1>18, <1>19
     DEF Next, CreateStep, AcceptStep, Terminated

(* No two transactions are about to commit one address.                    *)
LEMMA AddressStep ==
  ASSUME TypeOK, CreateInv, AcceptInv, AddressInv, [Next]_vars
  PROVE  AddressInv'
<1> USE RequestsAssumption
    DEF TypeOK, CreateInv, AcceptInv, AddressInv, AddressTaken, AddressPending,
        AccountEmail, Requests, AnswerKinds, CreatePC, AcceptPC, rowVars, userVars, inputVars, scanVars, Answer, Rollback, Goto
<1>1. ASSUME NEW p \in Creators, CreateRefused(p) PROVE AddressInv'
  BY <1>1 DEF CreateRefused
<1>2. ASSUME NEW p \in Creators, NEW e \in Emails, CreateBegin(p, e) PROVE AddressInv'
  <2>1. p \notin invitations
    BY <1>2 DEF CreateBegin
  <2>2. \A r \in invitations : addr'[r] = addr[r]
    BY <1>2, <2>1 DEF CreateBegin
  <2>3. UNCHANGED <<tok, accounts, masked>> /\ \A b \in Accepters : pc'[b] = pc[b]
    BY <1>2 DEF CreateBegin
  <2>4. QED
    BY <2>2, <2>3
<1>3. ASSUME NEW p \in Creators, GetUserByEmail(p) PROVE AddressInv'
  BY <1>3 DEF GetUserByEmail
<1>4. ASSUME NEW p \in Creators, ExpireOpenInvitationsForEmail(p) PROVE AddressInv'
  BY <1>4 DEF ExpireOpenInvitationsForEmail
<1>5. ASSUME NEW p \in Creators, NEW r \in Creators, ExpireRow(p, r) PROVE AddressInv'
  BY <1>5 DEF ExpireRow
<1>6. ASSUME NEW p \in Creators, CreateInvitation(p) PROVE AddressInv'
  BY <1>6 DEF CreateInvitation, NewInvitationExpiry, AppNow
<1>7. ASSUME NEW p \in Creators, CommitCreate(p) PROVE AddressInv'
  BY <1>7 DEF CommitCreate, Committed
<1>8. ASSUME NEW p \in Creators, Send(p) PROVE AddressInv'
  BY <1>8 DEF Send
<1>9. ASSUME NEW a \in Accepters, AcceptRefused(a) PROVE AddressInv'
  BY <1>9 DEF AcceptRefused
<1>10. ASSUME NEW a \in Accepters, NEW t \in Creators, AcceptBegin(a, t) PROVE AddressInv'
  BY <1>10 DEF AcceptBegin
<1>11. ASSUME NEW a \in Accepters, GetInvitationByTokenHash(a) PROVE AddressInv'
  BY <1>11 DEF GetInvitationByTokenHash
<1>12. ASSUME NEW a \in Accepters, AcceptInvitation(a) PROVE AddressInv'
  BY <1>12 DEF AcceptInvitation
<1>13. ASSUME NEW a \in Accepters, CreateUser(a) PROVE AddressInv'
  BY <1>13 DEF CreateUser
<1>14. ASSUME NEW a \in Accepters, CommitAccept(a) PROVE AddressInv'
  BY <1>14 DEF CommitAccept, Committed
<1>15. ASSUME NEW a \in Accepters, IssueSession(a) PROVE AddressInv'
  BY <1>15 DEF IssueSession
<1>16. ASSUME NEW p \in Requests, Abort(p) PROVE AddressInv'
  BY <1>16 DEF Abort
<1>17. ASSUME NEW a \in Accepters, SoftDeleteUser(a) PROVE AddressInv'
  BY <1>17 DEF SoftDeleteUser
<1>18. CASE Tick
  BY <1>18 DEF Tick
<1>19. CASE UNCHANGED vars
  BY <1>19 DEF vars
<1>20. QED
  BY <1>1, <1>2, <1>3, <1>4, <1>5, <1>6, <1>7, <1>8, <1>9, <1>10,
     <1>11, <1>12, <1>13, <1>14, <1>15, <1>16, <1>17, <1>18, <1>19
     DEF Next, CreateStep, AcceptStep, Terminated

(* A commit of an Accept adds one account on a fresh link and a free       *)
(* address.                                                                *)
LEMMA AccountStep ==
  ASSUME TypeOK, LockInv, CreateInv, AcceptInv, AddressInv,
         OneAccountPerLink, OneLiveAccountPerAddress, [Next]_vars
  PROVE  (OneAccountPerLink /\ OneLiveAccountPerAddress)'
<1> USE RequestsAssumption
    DEF TypeOK, CreateInv, AcceptInv, OneAccountPerLink,
        OneLiveAccountPerAddress, AccountEmail, Requests, AnswerKinds, CreatePC, AcceptPC, rowVars, userVars, inputVars, scanVars, Answer, Rollback, Goto
<1>1. ASSUME NEW p \in Creators, CreateRefused(p) PROVE (OneAccountPerLink /\ OneLiveAccountPerAddress)'
  BY <1>1 DEF CreateRefused
<1>2. ASSUME NEW p \in Creators, NEW e \in Emails, CreateBegin(p, e) PROVE (OneAccountPerLink /\ OneLiveAccountPerAddress)'
  BY <1>2 DEF CreateBegin
<1>3. ASSUME NEW p \in Creators, GetUserByEmail(p) PROVE (OneAccountPerLink /\ OneLiveAccountPerAddress)'
  BY <1>3 DEF GetUserByEmail
<1>4. ASSUME NEW p \in Creators, ExpireOpenInvitationsForEmail(p) PROVE (OneAccountPerLink /\ OneLiveAccountPerAddress)'
  BY <1>4 DEF ExpireOpenInvitationsForEmail
<1>5. ASSUME NEW p \in Creators, NEW r \in Creators, ExpireRow(p, r) PROVE (OneAccountPerLink /\ OneLiveAccountPerAddress)'
  BY <1>5 DEF ExpireRow
<1>6. ASSUME NEW p \in Creators, CreateInvitation(p) PROVE (OneAccountPerLink /\ OneLiveAccountPerAddress)'
  BY <1>6 DEF CreateInvitation, NewInvitationExpiry, AppNow
<1>7. ASSUME NEW p \in Creators, CommitCreate(p) PROVE (OneAccountPerLink /\ OneLiveAccountPerAddress)'
  BY <1>7 DEF CommitCreate, Committed
<1>8. ASSUME NEW p \in Creators, Send(p) PROVE (OneAccountPerLink /\ OneLiveAccountPerAddress)'
  BY <1>8 DEF Send
<1>9. ASSUME NEW a \in Accepters, AcceptRefused(a) PROVE (OneAccountPerLink /\ OneLiveAccountPerAddress)'
  BY <1>9 DEF AcceptRefused
<1>10. ASSUME NEW a \in Accepters, NEW t \in Creators, AcceptBegin(a, t) PROVE (OneAccountPerLink /\ OneLiveAccountPerAddress)'
  BY <1>10 DEF AcceptBegin
<1>11. ASSUME NEW a \in Accepters, GetInvitationByTokenHash(a) PROVE (OneAccountPerLink /\ OneLiveAccountPerAddress)'
  BY <1>11 DEF GetInvitationByTokenHash
<1>12. ASSUME NEW a \in Accepters, AcceptInvitation(a) PROVE (OneAccountPerLink /\ OneLiveAccountPerAddress)'
  BY <1>12 DEF AcceptInvitation
<1>13. ASSUME NEW a \in Accepters, CreateUser(a) PROVE (OneAccountPerLink /\ OneLiveAccountPerAddress)'
  BY <1>13 DEF CreateUser
<1>14. ASSUME NEW a \in Accepters, CommitAccept(a) PROVE (OneAccountPerLink /\ OneLiveAccountPerAddress)'
  BY <1>14 DEF CommitAccept, Committed, LockInv, AddressInv, AddressTaken, StillOpen
<1>15. ASSUME NEW a \in Accepters, IssueSession(a) PROVE (OneAccountPerLink /\ OneLiveAccountPerAddress)'
  BY <1>15 DEF IssueSession
<1>16. ASSUME NEW p \in Requests, Abort(p) PROVE (OneAccountPerLink /\ OneLiveAccountPerAddress)'
  BY <1>16 DEF Abort
<1>17. ASSUME NEW a \in Accepters, SoftDeleteUser(a) PROVE (OneAccountPerLink /\ OneLiveAccountPerAddress)'
  BY <1>17 DEF SoftDeleteUser
<1>18. CASE Tick
  BY <1>18 DEF Tick
<1>19. CASE UNCHANGED vars
  BY <1>19 DEF vars
<1>20. QED
  BY <1>1, <1>2, <1>3, <1>4, <1>5, <1>6, <1>7, <1>8, <1>9, <1>10,
     <1>11, <1>12, <1>13, <1>14, <1>15, <1>16, <1>17, <1>18, <1>19
     DEF Next, CreateStep, AcceptStep, Terminated

(* No answer is given before its outcome is decided.                       *)
LEMMA AnswerStep ==
  ASSUME TypeOK, AcceptInv, AnswerInv, [Next]_vars
  PROVE  AnswerInv'
<1> USE RequestsAssumption
    DEF TypeOK, AcceptInv, AnswerInv, RefusalCreatesNothing, Requests, AnswerKinds, CreatePC, AcceptPC,
        rowVars, userVars, inputVars, scanVars, Answer, Rollback, Goto
<1>1. ASSUME NEW p \in Creators, CreateRefused(p) PROVE AnswerInv'
  BY <1>1 DEF CreateRefused
<1>2. ASSUME NEW p \in Creators, NEW e \in Emails, CreateBegin(p, e) PROVE AnswerInv'
  BY <1>2 DEF CreateBegin
<1>3. ASSUME NEW p \in Creators, GetUserByEmail(p) PROVE AnswerInv'
  BY <1>3 DEF GetUserByEmail
<1>4. ASSUME NEW p \in Creators, ExpireOpenInvitationsForEmail(p) PROVE AnswerInv'
  BY <1>4 DEF ExpireOpenInvitationsForEmail
<1>5. ASSUME NEW p \in Creators, NEW r \in Creators, ExpireRow(p, r) PROVE AnswerInv'
  BY <1>5 DEF ExpireRow
<1>6. ASSUME NEW p \in Creators, CreateInvitation(p) PROVE AnswerInv'
  BY <1>6 DEF CreateInvitation, NewInvitationExpiry, AppNow
<1>7. ASSUME NEW p \in Creators, CommitCreate(p) PROVE AnswerInv'
  BY <1>7 DEF CommitCreate, Committed
<1>8. ASSUME NEW p \in Creators, Send(p) PROVE AnswerInv'
  BY <1>8 DEF Send
<1>9. ASSUME NEW a \in Accepters, AcceptRefused(a) PROVE AnswerInv'
  BY <1>9 DEF AcceptRefused
<1>10. ASSUME NEW a \in Accepters, NEW t \in Creators, AcceptBegin(a, t) PROVE AnswerInv'
  BY <1>10 DEF AcceptBegin
<1>11. ASSUME NEW a \in Accepters, GetInvitationByTokenHash(a) PROVE AnswerInv'
  BY <1>11 DEF GetInvitationByTokenHash
<1>12. ASSUME NEW a \in Accepters, AcceptInvitation(a) PROVE AnswerInv'
  BY <1>12 DEF AcceptInvitation
<1>13. ASSUME NEW a \in Accepters, CreateUser(a) PROVE AnswerInv'
  BY <1>13 DEF CreateUser
<1>14. ASSUME NEW a \in Accepters, CommitAccept(a) PROVE AnswerInv'
  BY <1>14 DEF CommitAccept, Committed
<1>15. ASSUME NEW a \in Accepters, IssueSession(a) PROVE AnswerInv'
  BY <1>15 DEF IssueSession
<1>16. ASSUME NEW p \in Requests, Abort(p) PROVE AnswerInv'
  BY <1>16 DEF Abort
<1>17. ASSUME NEW a \in Accepters, SoftDeleteUser(a) PROVE AnswerInv'
  BY <1>17 DEF SoftDeleteUser
<1>18. CASE Tick
  BY <1>18 DEF Tick
<1>19. CASE UNCHANGED vars
  BY <1>19 DEF vars
<1>20. QED
  BY <1>1, <1>2, <1>3, <1>4, <1>5, <1>6, <1>7, <1>8, <1>9, <1>10,
     <1>11, <1>12, <1>13, <1>14, <1>15, <1>16, <1>17, <1>18, <1>19
     DEF Next, CreateStep, AcceptStep, Terminated

(* The invariant of the invitation service is inductive. *)
THEOREM Inductive == Spec => []IInv
<1>1. Init => IInv
  BY RequestsAssumption
     DEF Init, IInv, TypeOK, LockInv, CreateInv, AcceptInv, AddressInv, AnswerInv, ClockInv,
         OneAccountPerLink, OneLiveAccountPerAddress, RefusalCreatesNothing,
         Requests, AnswerKinds, CreatePC, AcceptPC
<1>2. IInv /\ [Next]_vars => IInv'
  BY TypeStep, LockStep, CreateStepInv, AcceptStepInv, AddressStep, ClockStep,
     AccountStep, AnswerStep
     DEF IInv
<1>3. QED
  BY <1>1, <1>2, PTL DEF Spec

(* Invitations.Create and Accept keep every variable in its type. *)
THEOREM TypeCorrect == Spec => []TypeOK
<1>1. IInv => TypeOK
  BY DEF IInv
<1>2. QED
  BY <1>1, Inductive, PTL

(* However many clicks race on a link, it makes one account, and the stamp *)
(* on the invitation and the account exist together or not at all.         *)
THEOREM LinkIsSingleUse == Spec => []OneAccountPerLink
<1>1. IInv => OneAccountPerLink
  BY DEF IInv
<1>2. QED
  BY <1>1, Inductive, PTL

(* However many invitations to one address are redeemed at once, the       *)
(* address has one live account.                                           *)
THEOREM AddressIsUnique == Spec => []OneLiveAccountPerAddress
<1>1. IInv => OneLiveAccountPerAddress
  BY DEF IInv
<1>2. QED
  BY <1>1, Inductive, PTL

(* A committed Create has closed every earlier invitation its statement    *)
(* could see.                                                              *)
THEOREM SupersedeCloses == Spec => []SupersededClosed
<1>1. IInv => SupersededClosed
  BY DEF IInv, TypeOK, CreateInv, SupersededClosed
<1>2. QED
  BY <1>1, Inductive, PTL

(* A redemption begun after its link was superseded makes no account,      *)
(* whatever the skew of the application's clock.                           *)
THEOREM SupersededIsRefused == Spec => []SupersededLinkRefused
<1>1. IInv => SupersededLinkRefused
  BY DEF IInv, TypeOK, AcceptInv, SupersededLinkRefused
<1>2. QED
  BY <1>1, Inductive, PTL

(* A refused redemption made nothing; a successful one made an account and *)
(* a session.                                                              *)
THEOREM RefusalIsClean == Spec => []RefusalCreatesNothing
<1>1. IInv => RefusalCreatesNothing
  BY DEF IInv, AnswerInv
<1>2. QED
  BY <1>1, Inductive, PTL

(* No step rewrites the deadline of an accepted invitation or takes the    *)
(* acceptance back.                                                        *)
THEOREM AcceptedRowsAreKept == Spec => AcceptedRowsKept
<1>1. IInv /\ [Next]_vars => [\A r \in accepted : r \in accepted' /\ expires'[r] = expires[r]]_vars
  <2> SUFFICES ASSUME IInv, [Next]_vars, NEW r \in accepted
               PROVE  (r \in accepted' /\ expires'[r] = expires[r]) \/ UNCHANGED vars
    OBVIOUS
  <2> USE DEF IInv, rowVars
  <2>1. r \in invitations /\ r \in Creators
    BY DEF TypeOK, OneAccountPerLink, AcceptInv
  <2>2. ASSUME NEW p \in Creators, CreateInvitation(p)
        PROVE  r \in accepted' /\ expires'[r] = expires[r]
    BY <2>1, <2>2 DEF TypeOK, CreateInv, CreateInvitation
  <2>3. ASSUME NEW p \in Creators, CommitCreate(p)
        PROVE  r \in accepted' /\ expires'[r] = expires[r]
    BY <2>1, <2>3 DEF LockInv, StillOpen, CommitCreate, Requests
  <2>4. ASSUME NEW a \in Accepters, AcceptStep(a)
        PROVE  r \in accepted' /\ expires'[r] = expires[r]
    BY <2>4 DEF AcceptStep, GetInvitationByTokenHash, AcceptInvitation, CreateUser,
                CommitAccept, IssueSession
  <2>5. QED
    BY <2>2, <2>3, <2>4
       DEF Next, CreateStep, CreateRefused, CreateBegin, GetUserByEmail,
           ExpireOpenInvitationsForEmail, ExpireRow, Send, AcceptRefused, AcceptBegin,
           SoftDeleteUser, Abort, Tick, Terminated
<1>2. QED
  BY <1>1, Inductive, PTL DEF Spec, AcceptedRowsKept

(* What a step that neither commits nor receives a link leaves alone, and  *)
(* with it the whole state of the abstract specification.                  *)
LEMMA LinkFrame ==
  ASSUME IInv, UNCHANGED <<invitations, tok, late, accepted, accounts>>,
         \A p \in invitations : known'[p] = known[p]
  PROVE  UNCHANGED Link!vars
<1>1. {r \in Creators : \E p \in invitations : r \in known[p]}'
        = {r \in Creators : \E p \in invitations : r \in known[p]}
  OBVIOUS
<1>2. QED
  BY <1>1 DEF Link!vars

(* Create and Accept implement the single-use link: a commit of Create     *)
(* publishes, an Accept that arrives presents, a commit of Accept redeems, *)
(* and every other statement is a step nobody sees.                        *)
THEOREM ImplementsSingleUse == Spec => ImplementsLink
<1>1. Init => Link!Init
  BY DEF Init, Link!Init
<1>2. IInv /\ [Next]_vars => [Link!Next]_(Link!vars)
  <2> SUFFICES ASSUME IInv, [Next]_vars
               PROVE  Link!Next \/ UNCHANGED Link!vars
    OBVIOUS
  <2> USE RequestsAssumption DEF IInv
  <2>1. ASSUME NEW p \in Creators, CommitCreate(p)
        PROVE  Link!Next
    <3>1. p \notin invitations /\ known[p] \in SUBSET invitations
      BY <2>1 DEF CommitCreate, CreateInv
    <3>2. PICK old \in SUBSET invitations : old = known[p]
      BY <3>1
    <3>3. {r \in Creators : \E q \in invitations : r \in known[q]}'
            = {r \in Creators : \E q \in invitations : r \in known[q]} \cup old
      BY <2>1, <3>1, <3>2 DEF CommitCreate, TypeOK, scanVars
    <3>4. Link!Publish(p, old)
      BY <2>1, <3>1, <3>3 DEF CommitCreate, Link!Publish, userVars, inputVars
    <3>5. QED
      BY <3>4 DEF Link!Next
  <2>2. ASSUME NEW a \in Accepters, NEW t \in Creators, AcceptBegin(a, t)
        PROVE  Link!Next
    <3>1. tok[a] = NoToken /\ t \in invitations
      BY <2>2 DEF AcceptBegin, AcceptInv, CreateInv
    <3>2. {b \in Accepters : late[b]}'
            = {b \in Accepters : late[b]}
              \cup {x \in {a} : t \in {r \in Creators : \E q \in invitations : r \in known[q]}}
      BY <2>2 DEF AcceptBegin, AcceptInv, TypeOK
    <3>3. {r \in Creators : \E q \in invitations : r \in known[q]}'
            = {r \in Creators : \E q \in invitations : r \in known[q]}
      BY <2>2 DEF AcceptBegin, rowVars, scanVars
    <3>4. Link!Present(a, t)
      BY <2>2, <3>1, <3>2, <3>3 DEF AcceptBegin, Link!Present, rowVars, userVars
    <3>5. QED
      BY <3>4 DEF Link!Next
  <2>3. ASSUME NEW a \in Accepters, CommitAccept(a)
        PROVE  Link!Next
    <3>1. held[a] = {tok[a]} /\ tok[a] \in invitations /\ tok[a] \notin accepted
      BY <2>3 DEF CommitAccept, AcceptInv, AcceptPC, LockInv, StillOpen, Requests
    <3>2. ~late[a] /\ a \notin accounts
      BY <2>3, <3>1 DEF CommitAccept, AcceptInv, LockInv, StillOpen, Requests, TypeOK
    <3>3. UNCHANGED <<{r \in Creators : \E q \in invitations : r \in known[q]},
                      {b \in Accepters : late[b]}>>
      BY <2>3 DEF CommitAccept, inputVars, scanVars
    <3>4. Link!Redeem(a)
      BY <2>3, <3>1, <3>2, <3>3 DEF CommitAccept, Link!Redeem, inputVars
    <3>5. QED
      BY <3>4 DEF Link!Next
  <2>4. ASSUME NEW p \in Creators, ExpireOpenInvitationsForEmail(p)
        PROVE  UNCHANGED Link!vars
    BY <2>4, LinkFrame
       DEF ExpireOpenInvitationsForEmail, CreateInv, TypeOK, rowVars, userVars, inputVars
  <2>5. CASE UNCHANGED <<invitations, tok, late, accepted, accounts, known>>
    BY <2>5, LinkFrame
  <2>6. QED
    BY <2>1, <2>2, <2>3, <2>4, <2>5
       DEF Next, CreateStep, AcceptStep, CreateRefused, CreateBegin, GetUserByEmail, ExpireRow,
           CreateInvitation, Send, AcceptRefused, GetInvitationByTokenHash, AcceptInvitation,
           CreateUser, IssueSession, SoftDeleteUser, Abort, Tick, Terminated,
           vars, rowVars, userVars, inputVars, scanVars
<1>3. QED
  BY <1>1, <1>2, Inductive, PTL DEF Spec, ImplementsLink, Link!Spec
=============================================================================
