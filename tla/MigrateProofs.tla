--------------------------- MODULE MigrateProofs ---------------------------
(* Proofs about Migrate, for any number of processes, of calls in each of  *)
(* them, and of migrations.                                                *)
EXTENDS Migrate, TLAPS

(* Where a call stands decides which version its transaction is creating;  *)
(* a status call creates goose's own table or nothing.                     *)
VersionInv ==
    \A c \in Calls :
        /\ pc[c] \notin {"apply", "dead"} => tx[c] = 0
        /\ pc[c] = "apply" => tx[c] # 0
        /\ c \notin Upgrades => tx[c] \in {0, 1}

(* Until something is lost, an upgrade that has come past the lock has it, *)
(* through a session the server will not reap.                             *)
LockInv ==
    ~lost => \A c \in Calls :
        /\ pc[c] # "dead"
        /\ session[c] \in {"queued", "orphan"} => pc[c] \in {"close", "leave", "done"}
        /\ c \in Upgrades /\ pc[c] \in {"goose", "apply"} => lock = c

(* Somebody has asked for the status. *)
StatusAsked == \E c \in Calls \ Upgrades : pc[c] # "idle"

(* Until something is lost, the version an upgrade is creating is the next *)
(* one, unless a status call has got ahead of it with goose's own table.   *)
NextVersionInv ==
    ~lost => \A c \in Upgrades : pc[c] = "apply" =>
        \/ tx[c] = version + 1
        \/ tx[c] = 1 /\ StatusAsked

IInv ==
    /\ TypeOK
    /\ VersionInv
    /\ LockInv
    /\ NextVersionInv
    /\ CollisionsExplained
    /\ NewestOnSuccess
-----------------------------------------------------------------------------
(* The state before any call is made. *)
LEMMA InitInv == Init => IInv
<1> SUFFICES ASSUME Init PROVE IInv
  OBVIOUS
<1> USE NobodyAssumption, NewestAssumption, UpgradesAssumption DEF Init
<1>1. TypeOK
  <2>1. lost \in BOOLEAN
    BY Zenon
  <2>2. tx \in [Calls -> 0 .. Newest]
    OBVIOUS
  <2>3. QED
    BY <2>1, <2>2 DEF TypeOK, Running
<1>2. VersionInv /\ LockInv /\ NextVersionInv
  BY DEF VersionInv, LockInv, NextVersionInv
<1>3. CollisionsExplained /\ NewestOnSuccess
  BY DEF CollisionsExplained, NewestOnSuccess
<1>4. QED
  BY <1>1, <1>2, <1>3 DEF IInv

(* Every action keeps every variable in its type: no transaction creates a *)
(* version beyond the newest.                                              *)
LEMMA TypeStep ==
  ASSUME TypeOK, VersionInv, [Next]_vars
  PROVE  TypeOK'
<1> USE ProcessAssumption, UpgradesAssumption, NobodyAssumption, NewestAssumption
    DEF TypeOK, Running, Goto, Return, EndSession
<1>1. ASSUME NEW c \in Calls, run(c) PROVE TypeOK'
  BY <1>1 DEF run
<1>2. ASSUME NEW c \in Calls, Lock(c) PROVE TypeOK'
  BY <1>2 DEF Lock
<1>3. ASSUME NEW c \in Calls, openForMigrations(c) PROVE TypeOK'
  BY <1>3 DEF openForMigrations
<1>4. ASSUME NEW c \in Calls, Conn(c) PROVE TypeOK'
  BY <1>4 DEF Conn
<1>5. ASSUME NEW c \in Calls, pg_advisory_lock(c) PROVE TypeOK'
  BY <1>5 DEF pg_advisory_lock
<1>6. ASSUME NEW c \in Calls, LockFails(c) PROVE TypeOK'
  BY <1>6 DEF LockFails
<1>7. ASSUME NEW c \in Calls, Goose(c) PROVE TypeOK'
  BY <1>7 DEF Goose
<1>8. ASSUME NEW c \in Calls, Apply(c) PROVE TypeOK'
  <2>1. tx[c] \in 1 .. Newest
    BY <1>8 DEF Apply, VersionInv
  <2>2. tx' \in [Calls -> 0 .. Newest]
    BY <1>8 DEF Apply
  <2>3. pc' \in [Calls -> Running \cup {"idle", "done", "dead"}]
        /\ err' \in [Calls -> {"none", "nil", "error"}]
    BY <1>8 DEF Apply
  <2>4. version' \in 0 .. Newest
    BY <1>8, <2>1 DEF Apply
  <2>5. collided' = collided \/ collided' = collided \cup {tx[c]}
    BY <1>8 DEF Apply
  <2>6. collided' \subseteq 1 .. Newest
    BY <2>1, <2>5
  <2>7. QED
    BY <1>8, <2>2, <2>3, <2>4, <2>6 DEF Apply
<1>9. ASSUME NEW c \in Calls, GooseFails(c) PROVE TypeOK'
  BY <1>9 DEF GooseFails
<1>10. ASSUME NEW c \in Calls, Unlock(c) PROVE TypeOK'
  BY <1>10 DEF Unlock
<1>11. ASSUME NEW c \in Calls, Close(c) PROVE TypeOK'
  BY <1>11 DEF Close
<1>12. ASSUME NEW c \in Calls, Leave(c) PROVE TypeOK'
  BY <1>12 DEF Leave
<1>13. ASSUME NEW c \in Calls, LoseSession(c) PROVE TypeOK'
  BY <1>13 DEF LoseSession
<1>14. ASSUME NEW p \in Processes, Crash(p) PROVE TypeOK'
  BY <1>14 DEF Crash
<1>15. ASSUME NEW c \in Calls, GrantQueued(c) PROVE TypeOK'
  BY <1>15 DEF GrantQueued
<1>16. ASSUME NEW c \in Calls, ReapSession(c) PROVE TypeOK'
  BY <1>16 DEF ReapSession
<1>17. ASSUME NEW c \in Calls, ReapTransaction(c) PROVE TypeOK'
  BY <1>17 DEF ReapTransaction
<1>18. CASE UNCHANGED vars
  BY <1>18 DEF vars
<1>19. QED
  BY <1>1, <1>2, <1>3, <1>4, <1>5, <1>6, <1>7, <1>8, <1>9, <1>10, <1>11, <1>12, <1>13,
     <1>14, <1>15, <1>16, <1>17, <1>18
     DEF Next, Step, Reap, Terminated

(* A transaction is open between goose's look at the version and its end,  *)
(* or in the hands of the server.                                          *)
LEMMA VersionStep ==
  ASSUME TypeOK, VersionInv, [Next]_vars
  PROVE  VersionInv'
<1> USE ProcessAssumption, UpgradesAssumption, NobodyAssumption, NewestAssumption
    DEF TypeOK, Running, Goto, Return, EndSession, VersionInv
<1>1. ASSUME NEW c \in Calls, run(c) PROVE VersionInv'
  BY <1>1 DEF run
<1>2. ASSUME NEW c \in Calls, Lock(c) PROVE VersionInv'
  BY <1>2 DEF Lock
<1>3. ASSUME NEW c \in Calls, openForMigrations(c) PROVE VersionInv'
  BY <1>3 DEF openForMigrations
<1>4. ASSUME NEW c \in Calls, Conn(c) PROVE VersionInv'
  BY <1>4 DEF Conn
<1>5. ASSUME NEW c \in Calls, pg_advisory_lock(c) PROVE VersionInv'
  BY <1>5 DEF pg_advisory_lock
<1>6. ASSUME NEW c \in Calls, LockFails(c) PROVE VersionInv'
  BY <1>6 DEF LockFails
<1>7. ASSUME NEW c \in Calls, Goose(c) PROVE VersionInv'
  BY <1>7 DEF Goose
<1>8. ASSUME NEW c \in Calls, Apply(c) PROVE VersionInv'
  BY <1>8 DEF Apply
<1>9. ASSUME NEW c \in Calls, GooseFails(c) PROVE VersionInv'
  BY <1>9 DEF GooseFails
<1>10. ASSUME NEW c \in Calls, Unlock(c) PROVE VersionInv'
  BY <1>10 DEF Unlock
<1>11. ASSUME NEW c \in Calls, Close(c) PROVE VersionInv'
  BY <1>11 DEF Close
<1>12. ASSUME NEW c \in Calls, Leave(c) PROVE VersionInv'
  BY <1>12 DEF Leave
<1>13. ASSUME NEW c \in Calls, LoseSession(c) PROVE VersionInv'
  BY <1>13 DEF LoseSession
<1>14. ASSUME NEW p \in Processes, Crash(p) PROVE VersionInv'
  BY <1>14 DEF Crash
<1>15. ASSUME NEW c \in Calls, GrantQueued(c) PROVE VersionInv'
  BY <1>15 DEF GrantQueued
<1>16. ASSUME NEW c \in Calls, ReapSession(c) PROVE VersionInv'
  BY <1>16 DEF ReapSession
<1>17. ASSUME NEW c \in Calls, ReapTransaction(c) PROVE VersionInv'
  BY <1>17 DEF ReapTransaction
<1>18. CASE UNCHANGED vars
  BY <1>18 DEF vars
<1>19. QED
  BY <1>1, <1>2, <1>3, <1>4, <1>5, <1>6, <1>7, <1>8, <1>9, <1>10, <1>11, <1>12, <1>13,
     <1>14, <1>15, <1>16, <1>17, <1>18
     DEF Next, Step, Reap, Terminated

(* The lock stays with the upgrade that is past it, whoever queues for it, *)
(* gives up waiting or leaves.                                             *)
LEMMA LockStep ==
  ASSUME TypeOK, LockInv, [Next]_vars
  PROVE  LockInv'
<1> USE ProcessAssumption, UpgradesAssumption, NobodyAssumption, NewestAssumption
    DEF TypeOK, Running, Goto, Return, EndSession, LockInv
<1>1. ASSUME NEW c \in Calls, run(c) PROVE LockInv'
  BY <1>1 DEF run
<1>2. ASSUME NEW c \in Calls, Lock(c) PROVE LockInv'
  BY <1>2 DEF Lock
<1>3. ASSUME NEW c \in Calls, openForMigrations(c) PROVE LockInv'
  BY <1>3 DEF openForMigrations
<1>4. ASSUME NEW c \in Calls, Conn(c) PROVE LockInv'
  BY <1>4 DEF Conn
<1>5. ASSUME NEW c \in Calls, pg_advisory_lock(c) PROVE LockInv'
  BY <1>5 DEF pg_advisory_lock
<1>6. ASSUME NEW c \in Calls, LockFails(c) PROVE LockInv'
  BY <1>6 DEF LockFails
<1>7. ASSUME NEW c \in Calls, Goose(c) PROVE LockInv'
  BY <1>7 DEF Goose
<1>8. ASSUME NEW c \in Calls, Apply(c) PROVE LockInv'
  BY <1>8 DEF Apply
<1>9. ASSUME NEW c \in Calls, GooseFails(c) PROVE LockInv'
  BY <1>9 DEF GooseFails
<1>10. ASSUME NEW c \in Calls, Unlock(c) PROVE LockInv'
  BY <1>10 DEF Unlock
<1>11. ASSUME NEW c \in Calls, Close(c) PROVE LockInv'
  BY <1>11 DEF Close
<1>12. ASSUME NEW c \in Calls, Leave(c) PROVE LockInv'
  BY <1>12 DEF Leave
<1>13. ASSUME NEW c \in Calls, LoseSession(c) PROVE LockInv'
  BY <1>13 DEF LoseSession
<1>14. ASSUME NEW p \in Processes, Crash(p) PROVE LockInv'
  BY <1>14 DEF Crash
<1>15. ASSUME NEW c \in Calls, GrantQueued(c) PROVE LockInv'
  BY <1>15 DEF GrantQueued
<1>16. ASSUME NEW c \in Calls, ReapSession(c) PROVE LockInv'
  BY <1>16 DEF ReapSession
<1>17. ASSUME NEW c \in Calls, ReapTransaction(c) PROVE LockInv'
  BY <1>17 DEF ReapTransaction
<1>18. CASE UNCHANGED vars
  BY <1>18 DEF vars
<1>19. QED
  BY <1>1, <1>2, <1>3, <1>4, <1>5, <1>6, <1>7, <1>8, <1>9, <1>10, <1>11, <1>12, <1>13,
     <1>14, <1>15, <1>16, <1>17, <1>18
     DEF Next, Step, Reap, Terminated

(* Nobody but the holder of the lock moves the version, except a status    *)
(* call from none to goose's own table.                                    *)
LEMMA NextVersionStep ==
  ASSUME TypeOK, VersionInv, LockInv, NextVersionInv, [Next]_vars
  PROVE  NextVersionInv'
<1> USE ProcessAssumption, UpgradesAssumption, NobodyAssumption, NewestAssumption
    DEF TypeOK, Running, Goto, Return, EndSession, NextVersionInv, StatusAsked
<1>1. ASSUME NEW c \in Calls, run(c) PROVE NextVersionInv'
  BY <1>1 DEF run
<1>2. ASSUME NEW c \in Calls, Lock(c) PROVE NextVersionInv'
  BY <1>2 DEF Lock
<1>3. ASSUME NEW c \in Calls, openForMigrations(c) PROVE NextVersionInv'
  BY <1>3 DEF openForMigrations
<1>4. ASSUME NEW c \in Calls, Conn(c) PROVE NextVersionInv'
  BY <1>4 DEF Conn
<1>5. ASSUME NEW c \in Calls, pg_advisory_lock(c) PROVE NextVersionInv'
  BY <1>5 DEF pg_advisory_lock, LockInv
<1>6. ASSUME NEW c \in Calls, LockFails(c) PROVE NextVersionInv'
  BY <1>6 DEF LockFails
<1>7. ASSUME NEW c \in Calls, Goose(c) PROVE NextVersionInv'
  BY <1>7 DEF Goose
<1>8. ASSUME NEW c \in Calls, Apply(c) PROVE NextVersionInv'
  BY <1>8 DEF Apply, VersionInv, LockInv
<1>9. ASSUME NEW c \in Calls, GooseFails(c) PROVE NextVersionInv'
  BY <1>9 DEF GooseFails
<1>10. ASSUME NEW c \in Calls, Unlock(c) PROVE NextVersionInv'
  BY <1>10 DEF Unlock
<1>11. ASSUME NEW c \in Calls, Close(c) PROVE NextVersionInv'
  BY <1>11 DEF Close
<1>12. ASSUME NEW c \in Calls, Leave(c) PROVE NextVersionInv'
  BY <1>12 DEF Leave
<1>13. ASSUME NEW c \in Calls, LoseSession(c) PROVE NextVersionInv'
  BY <1>13 DEF LoseSession
<1>14. ASSUME NEW p \in Processes, Crash(p) PROVE NextVersionInv'
  BY <1>14 DEF Crash
<1>15. ASSUME NEW c \in Calls, GrantQueued(c) PROVE NextVersionInv'
  BY <1>15 DEF GrantQueued
<1>16. ASSUME NEW c \in Calls, ReapSession(c) PROVE NextVersionInv'
  BY <1>16 DEF ReapSession
<1>17. ASSUME NEW c \in Calls, ReapTransaction(c) PROVE NextVersionInv'
  BY <1>17 DEF ReapTransaction, LockInv
<1>18. CASE UNCHANGED vars
  BY <1>18 DEF vars
<1>19. QED
  BY <1>1, <1>2, <1>3, <1>4, <1>5, <1>6, <1>7, <1>8, <1>9, <1>10, <1>11, <1>12, <1>13,
     <1>14, <1>15, <1>16, <1>17, <1>18
     DEF Next, Step, Reap, Terminated

(* A collision needs a lost session, or a status call. *)
LEMMA CollisionsStep ==
  ASSUME TypeOK, VersionInv, NextVersionInv, CollisionsExplained, [Next]_vars
  PROVE  CollisionsExplained'
<1> USE ProcessAssumption, UpgradesAssumption, NobodyAssumption, NewestAssumption
    DEF TypeOK, Running, Goto, Return, EndSession, CollisionsExplained
<1>1. ASSUME NEW c \in Calls, run(c) PROVE CollisionsExplained'
  BY <1>1 DEF run
<1>2. ASSUME NEW c \in Calls, Lock(c) PROVE CollisionsExplained'
  BY <1>2 DEF Lock
<1>3. ASSUME NEW c \in Calls, openForMigrations(c) PROVE CollisionsExplained'
  BY <1>3 DEF openForMigrations
<1>4. ASSUME NEW c \in Calls, Conn(c) PROVE CollisionsExplained'
  BY <1>4 DEF Conn
<1>5. ASSUME NEW c \in Calls, pg_advisory_lock(c) PROVE CollisionsExplained'
  BY <1>5 DEF pg_advisory_lock
<1>6. ASSUME NEW c \in Calls, LockFails(c) PROVE CollisionsExplained'
  BY <1>6 DEF LockFails
<1>7. ASSUME NEW c \in Calls, Goose(c) PROVE CollisionsExplained'
  BY <1>7 DEF Goose
<1>8. ASSUME NEW c \in Calls, Apply(c) PROVE CollisionsExplained'
  <2>1. CASE collided' = collided
    BY <1>8, <2>1 DEF Apply
  <2>2. CASE version # tx[c] - 1 /\ collided' = collided \cup {tx[c]} /\ ~lost
    <3>1. \A d \in Calls : pc[d] # "idle" => pc'[d] # "idle"
      BY <1>8 DEF Apply
    <3>2. tx[c] = 1 /\ StatusAsked
      <4>1. CASE c \in Upgrades
        BY <1>8, <2>2, <4>1 DEF Apply, NextVersionInv
      <4>2. CASE c \notin Upgrades
        BY <1>8, <4>2 DEF Apply, VersionInv, StatusAsked
      <4>3. QED
        BY <4>1, <4>2
    <3>3. QED
      BY <2>2, <3>1, <3>2 DEF StatusAsked
  <2>3. QED
    BY <1>8, <2>1, <2>2 DEF Apply
<1>9. ASSUME NEW c \in Calls, GooseFails(c) PROVE CollisionsExplained'
  BY <1>9 DEF GooseFails
<1>10. ASSUME NEW c \in Calls, Unlock(c) PROVE CollisionsExplained'
  BY <1>10 DEF Unlock
<1>11. ASSUME NEW c \in Calls, Close(c) PROVE CollisionsExplained'
  BY <1>11 DEF Close
<1>12. ASSUME NEW c \in Calls, Leave(c) PROVE CollisionsExplained'
  BY <1>12 DEF Leave
<1>13. ASSUME NEW c \in Calls, LoseSession(c) PROVE CollisionsExplained'
  BY <1>13 DEF LoseSession
<1>14. ASSUME NEW p \in Processes, Crash(p) PROVE CollisionsExplained'
  BY <1>14 DEF Crash
<1>15. ASSUME NEW c \in Calls, GrantQueued(c) PROVE CollisionsExplained'
  BY <1>15 DEF GrantQueued
<1>16. ASSUME NEW c \in Calls, ReapSession(c) PROVE CollisionsExplained'
  BY <1>16 DEF ReapSession
<1>17. ASSUME NEW c \in Calls, ReapTransaction(c) PROVE CollisionsExplained'
  BY <1>17 DEF ReapTransaction
<1>18. CASE UNCHANGED vars
  BY <1>18 DEF vars
<1>19. QED
  BY <1>1, <1>2, <1>3, <1>4, <1>5, <1>6, <1>7, <1>8, <1>9, <1>10, <1>11, <1>12, <1>13,
     <1>14, <1>15, <1>16, <1>17, <1>18
     DEF Next, Step, Reap, Terminated

(* The version never goes back, so a schema that was found at the newest   *)
(* stays there.                                                            *)
LEMMA NewestStep ==
  ASSUME TypeOK, NewestOnSuccess, [Next]_vars
  PROVE  NewestOnSuccess'
<1> USE ProcessAssumption, UpgradesAssumption, NobodyAssumption, NewestAssumption
    DEF TypeOK, Running, Goto, Return, EndSession, NewestOnSuccess
<1>1. ASSUME NEW c \in Calls, run(c) PROVE NewestOnSuccess'
  BY <1>1 DEF run
<1>2. ASSUME NEW c \in Calls, Lock(c) PROVE NewestOnSuccess'
  BY <1>2 DEF Lock
<1>3. ASSUME NEW c \in Calls, openForMigrations(c) PROVE NewestOnSuccess'
  BY <1>3 DEF openForMigrations
<1>4. ASSUME NEW c \in Calls, Conn(c) PROVE NewestOnSuccess'
  BY <1>4 DEF Conn
<1>5. ASSUME NEW c \in Calls, pg_advisory_lock(c) PROVE NewestOnSuccess'
  BY <1>5 DEF pg_advisory_lock
<1>6. ASSUME NEW c \in Calls, LockFails(c) PROVE NewestOnSuccess'
  BY <1>6 DEF LockFails
<1>7. ASSUME NEW c \in Calls, Goose(c) PROVE NewestOnSuccess'
  BY <1>7 DEF Goose
<1>8. ASSUME NEW c \in Calls, Apply(c) PROVE NewestOnSuccess'
  BY <1>8 DEF Apply
<1>9. ASSUME NEW c \in Calls, GooseFails(c) PROVE NewestOnSuccess'
  BY <1>9 DEF GooseFails
<1>10. ASSUME NEW c \in Calls, Unlock(c) PROVE NewestOnSuccess'
  BY <1>10 DEF Unlock
<1>11. ASSUME NEW c \in Calls, Close(c) PROVE NewestOnSuccess'
  BY <1>11 DEF Close
<1>12. ASSUME NEW c \in Calls, Leave(c) PROVE NewestOnSuccess'
  BY <1>12 DEF Leave
<1>13. ASSUME NEW c \in Calls, LoseSession(c) PROVE NewestOnSuccess'
  BY <1>13 DEF LoseSession
<1>14. ASSUME NEW p \in Processes, Crash(p) PROVE NewestOnSuccess'
  BY <1>14 DEF Crash
<1>15. ASSUME NEW c \in Calls, GrantQueued(c) PROVE NewestOnSuccess'
  BY <1>15 DEF GrantQueued
<1>16. ASSUME NEW c \in Calls, ReapSession(c) PROVE NewestOnSuccess'
  BY <1>16 DEF ReapSession
<1>17. ASSUME NEW c \in Calls, ReapTransaction(c) PROVE NewestOnSuccess'
  BY <1>17 DEF ReapTransaction
<1>18. CASE UNCHANGED vars
  BY <1>18 DEF vars
<1>19. QED
  BY <1>1, <1>2, <1>3, <1>4, <1>5, <1>6, <1>7, <1>8, <1>9, <1>10, <1>11, <1>12, <1>13,
     <1>14, <1>15, <1>16, <1>17, <1>18
     DEF Next, Step, Reap, Terminated

(* IInv is inductive. *)
THEOREM Inductive == Spec => []IInv
<1>1. Init => IInv
  BY InitInv
<1>2. IInv /\ [Next]_vars => IInv'
  BY TypeStep, VersionStep, LockStep, NextVersionStep, CollisionsStep, NewestStep DEF IInv
<1>3. QED
  BY <1>1, <1>2, PTL DEF Spec

(* Every variable keeps its type, whatever is lost. *)
THEOREM TypeCorrect == Spec => []TypeOK
<1>1. IInv => TypeOK
  BY DEF IInv
<1>2. QED
  BY <1>1, Inductive, PTL

(* However many instances migrate at once, they collide only after a       *)
(* lock's session or a process was lost, or over goose's own table with a  *)
(* status call.                                                            *)
THEOREM LockSerializes == Spec => []CollisionsExplained
<1>1. IInv => CollisionsExplained
  BY DEF IInv
<1>2. QED
  BY <1>1, Inductive, PTL

(* A Migrate that returned nil has left the schema at the newest version,  *)
(* for any number of migrations.                                           *)
THEOREM SuccessMeansNewest == Spec => []NewestOnSuccess
<1>1. IInv => NewestOnSuccess
  BY DEF IInv
<1>2. QED
  BY <1>1, Inductive, PTL
=============================================================================
