--------------------------- MODULE SessionsProofs ---------------------------
(***************************************************************************)
(* Proofs about Sessions, for every set of users, sessions and requests,   *)
(* every pair of windows the assumptions admit and every skew between the  *)
(* two clocks.                                                             *)
(***************************************************************************)
EXTENDS Sessions, TLAPS

(* A request under way was let in by a session that was issued; its        *)
(* renewal is no older than MaxDelay; it remembers sessions of its own     *)
(* account only.                                                           *)
RequestInv ==
    \A r \in Requests :
        /\ before[r] \subseteq issued
        /\ pc[r] # "done" => ans[r] = "none"
        /\ pc[r] \in {"renew", "handle"} =>
              /\ sess[r] \in issued
              /\ \A s \in before[r] : owner[s] = owner[sess[r]]
        /\ pc[r] = "renew" => AppNow - readAt[r] <= MaxDelay

(* A session was last used in the past. *)
UseInv == \A s \in issued : lastUse[s] <= AppNow

(* A session that was ended has no row, and its id is not given out again. *)
EndedInv == ended \subseteq issued /\ ended \cap sessions = {}

IInv ==
    /\ TypeOK
    /\ RequestInv
    /\ UseInv
    /\ EndedInv
    /\ AbsoluteCeiling
    /\ IdlePromise
    /\ EndedSessionRefused
    /\ OthersEnded
-----------------------------------------------------------------------------
(* Every action keeps every variable in its type. *)
LEMMA TypeStep ==
  ASSUME TypeOK, RequestInv, [Next]_vars
  PROVE  TypeOK'
<1> USE WindowsAssumption
    DEF TypeOK, AnswerKinds, rowVars, browserVars, useVars, requestVars, Answer, Goto, End
<1>1. ASSUME NEW s \in SessionIds, NEW u \in Users, Issue(s, u)
      PROVE  TypeOK'
  BY <1>1 DEF Issue, NewSessionExpiry, AppNow
<1>2. ASSUME NEW r \in Requests, NEW s \in SessionIds, Authenticate(r, s)
      PROVE  TypeOK'
  <2>1. pc' \in [Requests -> {"idle", "renew", "handle", "done"}]
    BY <1>2 DEF Authenticate
  <2>2. ans' \in [Requests -> AnswerKinds]
    BY <1>2 DEF Authenticate
  <2>3. readAt' \in [Requests -> Int] /\ lastUse' \in [SessionIds -> Int]
    BY <1>2 DEF Authenticate, AppNow
  <2>4. before' \in [Requests -> SUBSET SessionIds]
    BY <1>2 DEF Authenticate, SessionsOf
  <2>5. QED
    BY <1>2, <2>1, <2>2, <2>3, <2>4 DEF Authenticate
<1>3. ASSUME NEW r \in Requests, NEW s \in SessionIds, Revoke(r, s)
      PROVE  TypeOK'
  BY <1>3 DEF Revoke
<1>4. ASSUME NEW r \in Requests, TouchSession(r)
      PROVE  TypeOK'
  <2>1. sess[r] \in SessionIds
    BY <1>4 DEF TouchSession, RequestInv
  <2>2. RenewedExpiry(sess[r], readAt[r]) \in Int
    BY <2>1 DEF RenewedExpiry
  <2>3. expires' \in [SessionIds -> Int]
    BY <1>4, <2>1, <2>2 DEF TouchSession
  <2>4. lapsed' \subseteq SessionIds
    BY <1>4, <2>1 DEF TouchSession
  <2>5. QED
    BY <1>4, <2>3, <2>4 DEF TouchSession
<1>5. ASSUME NEW r \in Requests, Read(r)
      PROVE  TypeOK'
  BY <1>5 DEF Read
<1>6. ASSUME NEW r \in Requests, NEW t \in SessionIds, RevokeByID(r, t)
      PROVE  TypeOK'
  BY <1>6 DEF RevokeByID
<1>7. ASSUME NEW r \in Requests, RevokeOthers(r)
      PROVE  TypeOK'
  BY <1>7 DEF RevokeOthers
<1>8. ASSUME NEW u \in Users, SoftDeleteUser(u)
      PROVE  TypeOK'
  BY <1>8 DEF SoftDeleteUser
<1>9. CASE Tick
  BY <1>9 DEF Tick
<1>10. CASE UNCHANGED vars
  BY <1>10 DEF vars
<1>11. QED
  BY <1>1, <1>2, <1>3, <1>4, <1>5, <1>6, <1>7, <1>8, <1>9, <1>10 DEF Next, Terminated

(* What a request under way knows stays true of the rows. *)
LEMMA RequestStep ==
  ASSUME TypeOK, RequestInv, [Next]_vars
  PROVE  RequestInv'
<1> USE WindowsAssumption, DelayAssumption
    DEF TypeOK, RequestInv, AppNow, rowVars, browserVars, useVars, requestVars, Answer, Goto, End
<1>1. ASSUME NEW s \in SessionIds, NEW u \in Users, Issue(s, u)
      PROVE  RequestInv'
  BY <1>1 DEF Issue
<1>2. ASSUME NEW r \in Requests, NEW s \in SessionIds, Authenticate(r, s)
      PROVE  RequestInv'
  <2>1. sess' = [sess EXCEPT ![r] = s] /\ s \in issued /\ issued' = issued
        /\ owner' = owner /\ now' = now
    BY <1>2 DEF Authenticate
  <2>2. pc' = [pc EXCEPT ![r] = "done"] \/ pc' = [pc EXCEPT ![r] = "renew"]
        \/ pc' = [pc EXCEPT ![r] = "handle"]
    BY <1>2 DEF Authenticate
  <2>3. pc'[r] \in {"renew", "handle"} =>
          before' = [before EXCEPT ![r] = SessionsOf(owner[s])] /\ readAt' = [readAt EXCEPT ![r] = AppNow]
          /\ ans' = ans
    BY <1>2 DEF Authenticate
  <2>4. pc'[r] = "done" => before' = before /\ readAt' = readAt
    BY <1>2 DEF Authenticate
  <2>5. SessionsOf(owner[s]) \subseteq issued /\ \A x \in SessionsOf(owner[s]) : owner[x] = owner[s]
    BY DEF SessionsOf
  <2>6. \A q \in Requests \ {r} : /\ pc'[q] = pc[q] /\ ans'[q] = ans[q] /\ sess'[q] = sess[q]
                               /\ before'[q] = before[q] /\ readAt'[q] = readAt[q]
    BY <1>2 DEF Authenticate
  <2>7. ASSUME NEW q \in Requests
        PROVE  /\ before'[q] \subseteq issued'
               /\ pc'[q] # "done" => ans'[q] = "none"
               /\ pc'[q] \in {"renew", "handle"} =>
                     /\ sess'[q] \in issued'
                     /\ \A x \in before'[q] : owner'[x] = owner'[sess'[q]]
               /\ pc'[q] = "renew" => AppNow' - readAt'[q] <= MaxDelay
    <3>1. CASE q # r
      BY <3>1, <2>1, <2>6
    <3>2. CASE q = r
      <4>1. pc[r] = "idle" /\ ans[r] = "none"
        BY <1>2 DEF Authenticate
      <4>2. CASE pc'[r] = "done"
        BY <3>2, <4>2, <2>1, <2>4
      <4>3. CASE pc'[r] \in {"renew", "handle"}
        BY <3>2, <4>1, <4>3, <2>1, <2>3, <2>5
      <4>4. QED
        BY <2>2, <4>2, <4>3
    <3>3. QED
      BY <3>1, <3>2
  <2>8. QED
    BY <2>7
<1>3. ASSUME NEW r \in Requests, NEW s \in SessionIds, Revoke(r, s)
      PROVE  RequestInv'
  BY <1>3 DEF Revoke
<1>4. ASSUME NEW r \in Requests, TouchSession(r)
      PROVE  RequestInv'
  BY <1>4 DEF TouchSession
<1>5. ASSUME NEW r \in Requests, Read(r)
      PROVE  RequestInv'
  BY <1>5 DEF Read
<1>6. ASSUME NEW r \in Requests, NEW t \in SessionIds, RevokeByID(r, t)
      PROVE  RequestInv'
  BY <1>6 DEF RevokeByID
<1>7. ASSUME NEW r \in Requests, RevokeOthers(r)
      PROVE  RequestInv'
  BY <1>7 DEF RevokeOthers
<1>8. ASSUME NEW u \in Users, SoftDeleteUser(u)
      PROVE  RequestInv'
  BY <1>8 DEF SoftDeleteUser
<1>9. CASE Tick
  BY <1>9 DEF Tick
<1>10. CASE UNCHANGED vars
  BY <1>10 DEF vars
<1>11. QED
  BY <1>1, <1>2, <1>3, <1>4, <1>5, <1>6, <1>7, <1>8, <1>9, <1>10 DEF Next, Terminated

(* Uses are stamped with the clock, which never runs back. *)
LEMMA UseStep ==
  ASSUME TypeOK, UseInv, [Next]_vars
  PROVE  UseInv'
<1> USE WindowsAssumption
    DEF TypeOK, UseInv, AppNow, rowVars, browserVars, useVars, requestVars, Answer, Goto, End
<1>1. ASSUME NEW s \in SessionIds, NEW u \in Users, Issue(s, u)
      PROVE  UseInv'
  BY <1>1 DEF Issue
<1>2. ASSUME NEW r \in Requests, NEW s \in SessionIds, Authenticate(r, s)
      PROVE  UseInv'
  BY <1>2 DEF Authenticate
<1>3. ASSUME NEW r \in Requests, NEW s \in SessionIds, Revoke(r, s)
      PROVE  UseInv'
  BY <1>3 DEF Revoke
<1>4. ASSUME NEW r \in Requests, TouchSession(r)
      PROVE  UseInv'
  BY <1>4 DEF TouchSession
<1>5. ASSUME NEW r \in Requests, Read(r)
      PROVE  UseInv'
  BY <1>5 DEF Read
<1>6. ASSUME NEW r \in Requests, NEW t \in SessionIds, RevokeByID(r, t)
      PROVE  UseInv'
  BY <1>6 DEF RevokeByID
<1>7. ASSUME NEW r \in Requests, RevokeOthers(r)
      PROVE  UseInv'
  BY <1>7 DEF RevokeOthers
<1>8. ASSUME NEW u \in Users, SoftDeleteUser(u)
      PROVE  UseInv'
  BY <1>8 DEF SoftDeleteUser
<1>9. CASE Tick
  BY <1>9 DEF Tick
<1>10. CASE UNCHANGED vars
  BY <1>10 DEF vars
<1>11. QED
  BY <1>1, <1>2, <1>3, <1>4, <1>5, <1>6, <1>7, <1>8, <1>9, <1>10 DEF Next, Terminated

(* No action writes back a row that was deleted. *)
LEMMA EndedStep ==
  ASSUME TypeOK, EndedInv, [Next]_vars
  PROVE  EndedInv'
<1> USE DEF TypeOK, EndedInv, rowVars, browserVars, useVars, requestVars, Answer, Goto, End
<1>1. ASSUME NEW s \in SessionIds, NEW u \in Users, Issue(s, u)
      PROVE  EndedInv'
  BY <1>1 DEF Issue
<1>2. ASSUME NEW r \in Requests, NEW s \in SessionIds, Authenticate(r, s)
      PROVE  EndedInv'
  BY <1>2 DEF Authenticate
<1>3. ASSUME NEW r \in Requests, NEW s \in SessionIds, Revoke(r, s)
      PROVE  EndedInv'
  BY <1>3 DEF Revoke
<1>4. ASSUME NEW r \in Requests, TouchSession(r)
      PROVE  EndedInv'
  BY <1>4 DEF TouchSession
<1>5. ASSUME NEW r \in Requests, Read(r)
      PROVE  EndedInv'
  BY <1>5 DEF Read
<1>6. ASSUME NEW r \in Requests, NEW t \in SessionIds, RevokeByID(r, t)
      PROVE  EndedInv'
  BY <1>6 DEF RevokeByID
<1>7. ASSUME NEW r \in Requests, RevokeOthers(r)
      PROVE  EndedInv'
  BY <1>7 DEF RevokeOthers
<1>8. ASSUME NEW u \in Users, SoftDeleteUser(u)
      PROVE  EndedInv'
  BY <1>8 DEF SoftDeleteUser
<1>9. CASE Tick
  BY <1>9 DEF Tick
<1>10. CASE UNCHANGED vars
  BY <1>10 DEF vars
<1>11. QED
  BY <1>1, <1>2, <1>3, <1>4, <1>5, <1>6, <1>7, <1>8, <1>9, <1>10 DEF Next, Terminated

(* Both deadlines the service writes respect the absolute window. *)
LEMMA CeilingStep ==
  ASSUME TypeOK, RequestInv, AbsoluteCeiling, [Next]_vars
  PROVE  AbsoluteCeiling'
<1> USE WindowsAssumption
    DEF TypeOK, RequestInv, AbsoluteCeiling, rowVars, browserVars, useVars, requestVars, Answer, Goto, End
<1>1. ASSUME NEW s \in SessionIds, NEW u \in Users, Issue(s, u)
      PROVE  AbsoluteCeiling'
  BY <1>1 DEF Issue, NewSessionExpiry, AppNow
<1>2. ASSUME NEW r \in Requests, NEW s \in SessionIds, Authenticate(r, s)
      PROVE  AbsoluteCeiling'
  BY <1>2 DEF Authenticate
<1>3. ASSUME NEW r \in Requests, NEW s \in SessionIds, Revoke(r, s)
      PROVE  AbsoluteCeiling'
  BY <1>3 DEF Revoke
<1>4. ASSUME NEW r \in Requests, TouchSession(r)
      PROVE  AbsoluteCeiling'
  BY <1>4 DEF TouchSession, RenewedExpiry
<1>5. ASSUME NEW r \in Requests, Read(r)
      PROVE  AbsoluteCeiling'
  BY <1>5 DEF Read
<1>6. ASSUME NEW r \in Requests, NEW t \in SessionIds, RevokeByID(r, t)
      PROVE  AbsoluteCeiling'
  BY <1>6 DEF RevokeByID
<1>7. ASSUME NEW r \in Requests, RevokeOthers(r)
      PROVE  AbsoluteCeiling'
  BY <1>7 DEF RevokeOthers
<1>8. ASSUME NEW u \in Users, SoftDeleteUser(u)
      PROVE  AbsoluteCeiling'
  BY <1>8 DEF SoftDeleteUser
<1>9. CASE Tick
  BY <1>9 DEF Tick
<1>10. CASE UNCHANGED vars
  BY <1>10 DEF vars
<1>11. QED
  BY <1>1, <1>2, <1>3, <1>4, <1>5, <1>6, <1>7, <1>8, <1>9, <1>10 DEF Next, Terminated

(* A renewal that lands late was computed at most MaxDelay, hence at most  *)
(* Floor, before the last use.                                             *)
LEMMA IdleStep ==
  ASSUME TypeOK, RequestInv, UseInv, IdlePromise, [Next]_vars
  PROVE  IdlePromise'
<1> USE WindowsAssumption, DelayAssumption
    DEF TypeOK, IdlePromise, rowVars, browserVars, useVars, requestVars, Answer, Goto, End
<1>1. ASSUME NEW s \in SessionIds, NEW u \in Users, Issue(s, u)
      PROVE  IdlePromise'
  <2>1. ASSUME NEW x \in sessions' \ lapsed', x # s
        PROVE  /\ x \in sessions \ lapsed /\ expires'[x] = expires[x]
               /\ RenewedExpiry(x, lastUse[x])' = RenewedExpiry(x, lastUse[x])
    BY <1>1, <2>1 DEF Issue, RenewedExpiry
  <2>2. expires'[s] >= RenewedExpiry(s, lastUse[s])' - Floor
    BY <1>1 DEF Issue, RenewedExpiry, NewSessionExpiry, AppNow
  <2>3. pc' = pc /\ sess' = sess
    BY <1>1 DEF Issue
  <2>4. QED
    BY <2>1, <2>2, <2>3
<1>2. ASSUME NEW r \in Requests, NEW s \in SessionIds, Authenticate(r, s)
      PROVE  IdlePromise'
  <2>1. /\ sessions' = sessions /\ lapsed' = lapsed /\ expires' = expires /\ created' = created
        /\ pc[r] = "idle" /\ sess' = [sess EXCEPT ![r] = s]
    BY <1>2 DEF Authenticate
  <2>2. \A q \in Requests \ {r} : pc'[q] = pc[q] /\ sess'[q] = sess[q]
    BY <1>2 DEF Authenticate
  <2>3. ASSUME NEW x \in sessions \ lapsed, lastUse'[x] = lastUse[x]
        PROVE  \/ \E q \in Requests : pc'[q] = "renew" /\ sess'[q] = x
               \/ expires'[x] >= RenewedExpiry(x, lastUse[x])' - Floor
    <3>1. RenewedExpiry(x, lastUse[x])' = RenewedExpiry(x, lastUse[x])
      BY <2>1, <2>3 DEF RenewedExpiry
    <3>2. QED
      BY <2>1, <2>2, <3>1
  <2>4. ASSUME lastUse' # lastUse
        PROVE  /\ lastUse' = [lastUse EXCEPT ![s] = AppNow]
               /\ \/ pc'[r] = "renew"
                  \/ ~NeedsRenewal(s, AppNow)
    BY <1>2, <2>4 DEF Authenticate
  <2>5. ASSUME lastUse' # lastUse
        PROVE  \/ \E q \in Requests : pc'[q] = "renew" /\ sess'[q] = s
               \/ expires'[s] >= RenewedExpiry(s, lastUse[s])' - Floor
    <3>1. CASE pc'[r] = "renew"
      BY <3>1, <2>1
    <3>2. CASE ~NeedsRenewal(s, AppNow)
      BY <3>2, <2>1, <2>4, <2>5 DEF NeedsRenewal, RenewedExpiry, AppNow
    <3>3. QED
      BY <3>1, <3>2, <2>4, <2>5
  <2>6. QED
    BY <2>1, <2>3, <2>4, <2>5
<1>3. ASSUME NEW r \in Requests, NEW s \in SessionIds, Revoke(r, s)
      PROVE  IdlePromise'
  BY <1>3 DEF Revoke, RenewedExpiry
<1>4. ASSUME NEW r \in Requests, TouchSession(r)
      PROVE  IdlePromise'
  <2>1. /\ sessions' = sessions /\ created' = created /\ lastUse' = lastUse /\ sess' = sess
        /\ pc[r] = "renew" /\ sess[r] \in issued /\ sess[r] \in SessionIds
    BY <1>4 DEF TouchSession, RequestInv
  <2>2. \A q \in Requests \ {r} : pc'[q] = pc[q]
    BY <1>4 DEF TouchSession
  <2>3. ASSUME NEW x \in sessions' \ lapsed', x # sess[r]
        PROVE  \/ \E q \in Requests : pc'[q] = "renew" /\ sess'[q] = x
               \/ expires'[x] >= RenewedExpiry(x, lastUse[x])' - Floor
    <3>1. RenewedExpiry(x, lastUse[x])' = RenewedExpiry(x, lastUse[x])
      BY <2>1 DEF RenewedExpiry
    <3>2. expires'[x] = expires[x] /\ x \in sessions \ lapsed
      BY <1>4, <2>1, <2>3 DEF TouchSession
    <3>3. QED
      BY <2>1, <2>2, <2>3, <3>1, <3>2
  <2>4. ASSUME NEW x \in sessions' \ lapsed', x = sess[r]
        PROVE  expires'[x] >= RenewedExpiry(x, lastUse[x])' - Floor
    <3>1. expires'[x] = RenewedExpiry(x, readAt[r])
      BY <1>4, <2>1, <2>4 DEF TouchSession
    <3>2. lastUse[x] <= readAt[r] + Floor
      BY <2>1, <2>4 DEF RequestInv, UseInv, AppNow
    <3>3. RenewedExpiry(x, lastUse[x])' = RenewedExpiry(x, lastUse[x])
      BY <2>1 DEF RenewedExpiry
    <3>4. QED
      BY <2>1, <2>4, <3>1, <3>2, <3>3 DEF RenewedExpiry
  <2>5. QED
    BY <2>3, <2>4
<1>5. ASSUME NEW r \in Requests, Read(r)
      PROVE  IdlePromise'
  BY <1>5 DEF Read, RenewedExpiry
<1>6. ASSUME NEW r \in Requests, NEW t \in SessionIds, RevokeByID(r, t)
      PROVE  IdlePromise'
  BY <1>6 DEF RevokeByID, RenewedExpiry
<1>7. ASSUME NEW r \in Requests, RevokeOthers(r)
      PROVE  IdlePromise'
  BY <1>7 DEF RevokeOthers, RenewedExpiry
<1>8. ASSUME NEW u \in Users, SoftDeleteUser(u)
      PROVE  IdlePromise'
  BY <1>8 DEF SoftDeleteUser, RenewedExpiry
<1>9. CASE Tick
  BY <1>9 DEF Tick, RenewedExpiry
<1>10. CASE UNCHANGED vars
  BY <1>10 DEF vars, RenewedExpiry
<1>11. QED
  BY <1>1, <1>2, <1>3, <1>4, <1>5, <1>6, <1>7, <1>8, <1>9, <1>10 DEF Next, Terminated

(* A request is late only with a session that has no row. *)
LEMMA EndedRefusedStep ==
  ASSUME TypeOK, EndedInv, EndedSessionRefused, [Next]_vars
  PROVE  EndedSessionRefused'
<1> USE DEF TypeOK, EndedInv, EndedSessionRefused, rowVars, browserVars, useVars, requestVars, Answer, Goto, End
<1>1. ASSUME NEW s \in SessionIds, NEW u \in Users, Issue(s, u)
      PROVE  EndedSessionRefused'
  BY <1>1 DEF Issue
<1>2. ASSUME NEW r \in Requests, NEW s \in SessionIds, Authenticate(r, s)
      PROVE  EndedSessionRefused'
  BY <1>2 DEF Authenticate
<1>3. ASSUME NEW r \in Requests, NEW s \in SessionIds, Revoke(r, s)
      PROVE  EndedSessionRefused'
  BY <1>3 DEF Revoke
<1>4. ASSUME NEW r \in Requests, TouchSession(r)
      PROVE  EndedSessionRefused'
  BY <1>4 DEF TouchSession
<1>5. ASSUME NEW r \in Requests, Read(r)
      PROVE  EndedSessionRefused'
  BY <1>5 DEF Read
<1>6. ASSUME NEW r \in Requests, NEW t \in SessionIds, RevokeByID(r, t)
      PROVE  EndedSessionRefused'
  BY <1>6 DEF RevokeByID
<1>7. ASSUME NEW r \in Requests, RevokeOthers(r)
      PROVE  EndedSessionRefused'
  BY <1>7 DEF RevokeOthers
<1>8. ASSUME NEW u \in Users, SoftDeleteUser(u)
      PROVE  EndedSessionRefused'
  BY <1>8 DEF SoftDeleteUser
<1>9. CASE Tick
  BY <1>9 DEF Tick
<1>10. CASE UNCHANGED vars
  BY <1>10 DEF vars
<1>11. QED
  BY <1>1, <1>2, <1>3, <1>4, <1>5, <1>6, <1>7, <1>8, <1>9, <1>10 DEF Next, Terminated

(* The sessions RevokeOthers ended do not come back. *)
LEMMA OthersStep ==
  ASSUME TypeOK, RequestInv, OthersEnded, [Next]_vars
  PROVE  OthersEnded'
<1> USE DEF TypeOK, RequestInv, OthersEnded, rowVars, browserVars, useVars, requestVars, Answer, Goto, End
<1>1. ASSUME NEW s \in SessionIds, NEW u \in Users, Issue(s, u)
      PROVE  OthersEnded'
  BY <1>1 DEF Issue
<1>2. ASSUME NEW r \in Requests, NEW s \in SessionIds, Authenticate(r, s)
      PROVE  OthersEnded'
  BY <1>2 DEF Authenticate
<1>3. ASSUME NEW r \in Requests, NEW s \in SessionIds, Revoke(r, s)
      PROVE  OthersEnded'
  BY <1>3 DEF Revoke
<1>4. ASSUME NEW r \in Requests, TouchSession(r)
      PROVE  OthersEnded'
  BY <1>4 DEF TouchSession
<1>5. ASSUME NEW r \in Requests, Read(r)
      PROVE  OthersEnded'
  BY <1>5 DEF Read
<1>6. ASSUME NEW r \in Requests, NEW t \in SessionIds, RevokeByID(r, t)
      PROVE  OthersEnded'
  BY <1>6 DEF RevokeByID, SessionsOf
<1>7. ASSUME NEW r \in Requests, RevokeOthers(r)
      PROVE  OthersEnded'
  BY <1>7 DEF RevokeOthers, SessionsOf
<1>8. ASSUME NEW u \in Users, SoftDeleteUser(u)
      PROVE  OthersEnded'
  BY <1>8 DEF SoftDeleteUser
<1>9. CASE Tick
  BY <1>9 DEF Tick
<1>10. CASE UNCHANGED vars
  BY <1>10 DEF vars
<1>11. QED
  BY <1>1, <1>2, <1>3, <1>4, <1>5, <1>6, <1>7, <1>8, <1>9, <1>10 DEF Next, Terminated

-----------------------------------------------------------------------------
(* The inductive invariant holds initially and is kept by every step. *)
THEOREM Inductive == Spec => []IInv
<1>1. Init => IInv
  BY WindowsAssumption, DelayAssumption
  DEF Init, IInv, TypeOK, AnswerKinds, RequestInv, UseInv, EndedInv, AbsoluteCeiling, IdlePromise,
      EndedSessionRefused, OthersEnded
<1>2. IInv /\ [Next]_vars => IInv'
  BY TypeStep, RequestStep, UseStep, EndedStep, CeilingStep, IdleStep, EndedRefusedStep, OthersStep
  DEF IInv
<1>3. QED
  BY <1>1, <1>2, PTL DEF Spec

(* Every variable of the session service keeps its type. *)
THEOREM TypeCorrect == Spec => []TypeOK
<1>1. IInv => TypeOK
  BY DEF IInv
<1>2. QED
  BY <1>1, Inductive, PTL

(* No renewal, however late, moves a session's deadline past its absolute  *)
(* window: why IsExpired needs to look at one timestamp only.              *)
THEOREM CeilingHolds == Spec => []AbsoluteCeiling
<1>1. IInv => AbsoluteCeiling
  BY DEF IInv
<1>2. QED
  BY <1>1, Inductive, PTL

(* Renewals landing in any order cost a session at most the renewal floor, *)
(* as long as none is under way for longer than that.                      *)
THEOREM IdleWindowKept == Spec => []IdlePromise
<1>1. IInv => IdlePromise
  BY DEF IInv
<1>2. QED
  BY <1>1, Inductive, PTL

(* No request is let in by a session that was ended before it arrived.     *)
THEOREM EndedIsFinal == Spec => []EndedSessionRefused
<1>1. IInv => EndedSessionRefused
  BY DEF IInv
<1>2. QED
  BY <1>1, Inductive, PTL

(* RevokeOthers ends every session the account had when the request was    *)
(* authenticated, for good.                                                *)
THEOREM OthersAreEnded == Spec => []OthersEnded
<1>1. IInv => OthersEnded
  BY DEF IInv
<1>2. QED
  BY <1>1, Inductive, PTL

(* No endpoint ends a session of an account other than its caller's.       *)
THEOREM OnlyOwnSessionsEnd == Spec => OwnSessionsOnly
<1> DEFINE Owned == \A s \in sessions \ sessions' :
                      \E r \in Requests :
                          pc[r] # "done" /\ pc'[r] = "done" /\ owner[sess'[r]] = owner[s]
<1>1. IInv /\ [Next]_vars => [Owned]_vars
  <2> SUFFICES ASSUME IInv, Next PROVE Owned
    BY DEF vars, rowVars
  <2> USE DEF IInv, TypeOK, End, Answer, rowVars, browserVars, useVars, requestVars
  <2>1. CASE \E s \in SessionIds, u \in Users : Issue(s, u)
    BY <2>1 DEF Issue
  <2>2. ASSUME NEW r \in Requests, NEW s \in SessionIds, Authenticate(r, s) PROVE Owned
    BY <2>2 DEF Authenticate
  <2>3. ASSUME NEW r \in Requests, NEW s \in SessionIds, Revoke(r, s) PROVE Owned
    BY <2>3 DEF Revoke
  <2>4. ASSUME NEW r \in Requests, TouchSession(r) PROVE Owned
    BY <2>4 DEF TouchSession
  <2>5. ASSUME NEW r \in Requests, Read(r) PROVE Owned
    BY <2>5 DEF Read
  <2>6. ASSUME NEW r \in Requests, NEW t \in SessionIds, RevokeByID(r, t) PROVE Owned
    BY <2>6 DEF RevokeByID, SessionsOf
  <2>7. ASSUME NEW r \in Requests, RevokeOthers(r) PROVE Owned
    BY <2>7 DEF RevokeOthers, SessionsOf
  <2>8. CASE (\E u \in Users : SoftDeleteUser(u)) \/ Tick \/ Terminated
    BY <2>8 DEF SoftDeleteUser, Tick, Terminated, vars
  <2>9. QED
    BY <2>1, <2>2, <2>3, <2>4, <2>5, <2>6, <2>7, <2>8 DEF Next
<1>2. QED
  BY <1>1, Inductive, PTL DEF Spec, OwnSessionsOnly
=============================================================================
