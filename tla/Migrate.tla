------------------------------ MODULE Migrate ------------------------------
(***************************************************************************)
(* The migrations runner: calls of Migrate and MigrationStatus, in several *)
(* processes and several goroutines of a process.                          *)
(*                                                                         *)
(* Inside a process gooseMu orders the calls; between processes Migrate    *)
(* takes an advisory lock, which belongs to one database session. goose    *)
(* runs its statements on other connections of the same pool, so losing    *)
(* the session loses the lock and nothing tells goose.                     *)
(*                                                                         *)
(* The database outlives its clients: a session whose client is gone, and  *)
(* a transaction whose client is gone, end some time later, the latter by  *)
(* a commit if that was already on its way.                                *)
(***************************************************************************)
EXTENDS Integers

CONSTANTS
    Calls,
    Upgrades,   \* the calls of Migrate; the others are of MigrationStatus
    Processes,
    Process,    \* Process[c]: the process that makes call c
    Nobody,     \* no call
    Newest      \* versions: 1 is goose's own table, then one per migration

ASSUME UpgradesAssumption == Upgrades \subseteq Calls
ASSUME ProcessAssumption == Process \in [Calls -> Processes]
ASSUME NobodyAssumption == Nobody \notin Calls
ASSUME NewestAssumption == Newest \in Nat \ {0}

VARIABLES
    version,   \* the schema: how many of the versions are committed
    gooseMu,   \* gooseMu[p]: the call of p that holds the mutex
    lock,      \* whose session holds the advisory lock
    session,   \* session[c]: the one connection of call c
    tx,        \* tx[c]: the version goose is creating for c, 0 when none
    pc,        \* where each call stands
    err,       \* what it is going to return
    collided,  \* versions a call failed to create because they were there
    lost       \* a lock's session was lost, or a process died

vars == <<version, gooseMu, lock, session, tx, pc, err, collided, lost>>

Running == {"wait", "open", "conn", "lock", "goose", "apply", "unlock", "close", "leave"}

-----------------------------------------------------------------------------
Init ==
    /\ version \in 0 .. Newest
    /\ gooseMu = [p \in Processes |-> Nobody]
    /\ lock = Nobody
    /\ session = [c \in Calls |-> "none"]
    /\ tx = [c \in Calls |-> 0]
    /\ pc = [c \in Calls |-> "idle"]
    /\ err = [c \in Calls |-> "none"]
    /\ collided = {}
    /\ lost = FALSE

Goto(c, label) ==
    /\ pc' = [pc EXCEPT ![c] = label]
    /\ UNCHANGED err

(* The call is going to return e; label is the first of its deferred       *)
(* functions still to run.                                                 *)
Return(c, e, label) ==
    /\ pc' = [pc EXCEPT ![c] = label]
    /\ err' = [err EXCEPT ![c] = e]

(* A session ends: the advisory lock it holds is released. *)
EndSession(c) ==
    /\ session' = [session EXCEPT ![c] = "none"]
    /\ lock' = IF lock = c THEN Nobody ELSE lock

-----------------------------------------------------------------------------
(* The command line: no command, a command nobody knows, or a              *)
(* configuration that does not load ends the process at once.              *)
run(c) ==
    /\ pc[c] = "idle"
    /\ Goto(c, "wait") \/ Return(c, "error", "done")
    /\ UNCHANGED <<version, gooseMu, lock, session, tx, collided, lost>>

Lock(c) ==
    /\ pc[c] = "wait"
    /\ gooseMu[Process[c]] = Nobody
    /\ gooseMu' = [gooseMu EXCEPT ![Process[c]] = c]
    /\ Goto(c, "open")
    /\ UNCHANGED <<version, lock, session, tx, collided, lost>>

(* Mutant: a failure to open returns past the deferred Unlock. *)
openForMigrationsKeepsMutex(c) ==
    /\ pc[c] = "open"
    /\ \/ Goto(c, IF c \in Upgrades THEN "conn" ELSE "goose")
       \/ Return(c, "error", "done")
    /\ UNCHANGED <<version, gooseMu, lock, session, tx, collided, lost>>

(* A connection string that cannot be parsed, or goose's dialect. *)
openForMigrations(c) ==
    /\ pc[c] = "open"
    /\ \/ Goto(c, IF c \in Upgrades THEN "conn" ELSE "goose")
       \/ Return(c, "error", "leave")
    /\ UNCHANGED <<version, gooseMu, lock, session, tx, collided, lost>>

Conn(c) ==
    /\ pc[c] = "conn"
    /\ \/ session' = [session EXCEPT ![c] = "open"] /\ Goto(c, "lock")
       \/ UNCHANGED session /\ Return(c, "error", "close")
    /\ UNCHANGED <<version, gooseMu, lock, tx, collided, lost>>

(* Mutant: the lock is asked for and not waited for. *)
pg_advisory_lock_try(c) ==
    /\ pc[c] = "lock"
    /\ lock' = IF lock = Nobody THEN c ELSE lock
    /\ Goto(c, "goose")
    /\ UNCHANGED <<version, gooseMu, session, tx, collided, lost>>

pg_advisory_lock(c) ==
    /\ pc[c] = "lock"
    /\ lock = Nobody
    /\ lock' = c
    /\ Goto(c, "goose")
    /\ UNCHANGED <<version, gooseMu, session, tx, collided, lost>>

(* The wait is given up: the context has ended, or the connection has. The *)
(* driver closes the connection; the server notices later, and until then  *)
(* the session is still queued for the lock.                               *)
LockFails(c) ==
    /\ pc[c] = "lock"
    /\ session' = [session EXCEPT ![c] = "queued"]
    /\ Return(c, "error", "close")
    /\ UNCHANGED <<version, gooseMu, lock, tx, collided, lost>>

-----------------------------------------------------------------------------
(* goose. It creates its own table when there is none, and then, for Up,   *)
(* reads the version before each migration and applies the next, each in a *)
(* transaction of its own.                                                 *)

(* Mutant: the newest version is not waited for. *)
GooseUpByOne(c) ==
    /\ pc[c] = "goose"
    /\ tx' = [tx EXCEPT ![c] = IF version = 0 THEN 1 ELSE 0]
    /\ IF version = 0 THEN Goto(c, "apply") ELSE Return(c, "nil", "unlock")
    /\ UNCHANGED <<version, gooseMu, lock, session, collided, lost>>

(* What is left to do at the version that is read, if anything. *)
Goose(c) ==
    /\ pc[c] = "goose"
    /\ LET behind == version < (IF c \in Upgrades THEN Newest ELSE 1)
       IN  \/ /\ behind
              /\ tx' = [tx EXCEPT ![c] = version + 1]
              /\ Goto(c, "apply")
           \/ /\ ~behind
              /\ Return(c, "nil", IF c \in Upgrades THEN "unlock" ELSE "close")
              /\ UNCHANGED tx
    /\ UNCHANGED <<version, gooseMu, lock, session, collided, lost>>

(* The transaction commits, or finds what it creates already there. *)
Apply(c) ==
    /\ pc[c] = "apply"
    /\ tx' = [tx EXCEPT ![c] = 0]
    /\ \/ /\ version = tx[c] - 1
          /\ version' = tx[c]
          /\ Goto(c, "goose")
          /\ UNCHANGED collided
       \/ /\ version # tx[c] - 1
          /\ collided' = collided \cup {tx[c]}
          /\ Return(c, "error", IF c \in Upgrades THEN "unlock" ELSE "close")
          /\ UNCHANGED version
    /\ UNCHANGED <<gooseMu, lock, session, lost>>

(* A statement fails, or the context ends: the transaction rolls back. *)
GooseFails(c) ==
    /\ pc[c] \in {"goose", "apply"}
    /\ tx' = [tx EXCEPT ![c] = 0]
    /\ Return(c, "error", IF c \in Upgrades THEN "unlock" ELSE "close")
    /\ UNCHANGED <<version, gooseMu, lock, session, collided, lost>>

-----------------------------------------------------------------------------
(* pg_advisory_unlock, deferred and detached from the context; its failure *)
(* is ignored.                                                             *)
Unlock(c) ==
    /\ pc[c] = "unlock"
    /\ \/ lock = c /\ lock' = Nobody
       \/ UNCHANGED lock
    /\ Goto(c, "close")
    /\ UNCHANGED <<version, gooseMu, session, tx, collided, lost>>

(* conn.Close gives the connection back to the pool, sqlDB.Close ends what *)
(* is in the pool.                                                         *)
Close(c) ==
    /\ pc[c] = "close"
    /\ IF session[c] = "open" THEN EndSession(c) ELSE UNCHANGED <<session, lock>>
    /\ Goto(c, "leave")
    /\ UNCHANGED <<version, gooseMu, tx, collided, lost>>

(* gooseMu.Unlock, the last of the deferred functions. *)
Leave(c) ==
    /\ pc[c] = "leave"
    /\ gooseMu' = [gooseMu EXCEPT ![Process[c]] = Nobody]
    /\ Goto(c, "done")
    /\ UNCHANGED <<version, lock, session, tx, collided, lost>>

-----------------------------------------------------------------------------
(* The lock's connection breaks while goose works on others. *)
LoseSession(c) ==
    /\ pc[c] \in {"goose", "apply"}
    /\ session[c] = "open"
    /\ EndSession(c)
    /\ lost' = TRUE
    /\ UNCHANGED <<version, gooseMu, tx, pc, err, collided>>

(* The process is killed: nothing deferred runs. What its calls had on the *)
(* server is there until the server notices.                               *)
Crash(p) ==
    /\ \E c \in Calls : Process[c] = p /\ pc[c] \in Running
    /\ pc' = [c \in Calls |-> IF Process[c] = p /\ pc[c] # "done" THEN "dead" ELSE pc[c]]
    /\ session' = [c \in Calls |->
                      IF Process[c] # p \/ session[c] # "open" THEN session[c]
                      ELSE IF pc[c] = "lock" THEN "queued" ELSE "orphan"]
    /\ lost' = TRUE
    /\ UNCHANGED <<version, gooseMu, lock, tx, err, collided>>

(* The server grants the lock to a session whose client is gone. *)
GrantQueued(c) ==
    /\ session[c] = "queued"
    /\ lock = Nobody
    /\ lock' = c
    /\ session' = [session EXCEPT ![c] = "orphan"]
    /\ UNCHANGED <<version, gooseMu, tx, pc, err, collided, lost>>

(* It ends a session, or a transaction, whose client is gone. *)
ReapSession(c) ==
    /\ session[c] \in {"queued", "orphan"}
    /\ EndSession(c)
    /\ UNCHANGED <<version, gooseMu, tx, pc, err, collided, lost>>

ReapTransaction(c) ==
    /\ pc[c] = "dead"
    /\ tx[c] # 0
    /\ tx' = [tx EXCEPT ![c] = 0]
    /\ \/ version = tx[c] - 1 /\ version' = tx[c]
       \/ UNCHANGED version
    /\ UNCHANGED <<gooseMu, lock, session, pc, err, collided, lost>>

Terminated ==
    /\ \A c \in Calls : pc[c] \in {"done", "dead"} /\ session[c] = "none" /\ tx[c] = 0
    /\ UNCHANGED vars

(* What a call does once it has been made. *)
Step(c) ==
    \/ Lock(c)
    \/ openForMigrations(c)
    \/ Conn(c)
    \/ pg_advisory_lock(c)
    \/ Goose(c)
    \/ Apply(c)
    \/ Unlock(c)
    \/ Close(c)
    \/ Leave(c)

Reap(c) == ReapSession(c) \/ ReapTransaction(c)

Next ==
    \/ \E c \in Calls :
        \/ run(c)
        \/ Step(c)
        \/ LockFails(c)
        \/ GooseFails(c)
        \/ LoseSession(c)
        \/ GrantQueued(c)
        \/ Reap(c)
    \/ \E p \in Processes : Crash(p)
    \/ Terminated

(* A goroutine that can go on does, and the server notices in the end that *)
(* a client is gone. Nothing is owed by a call nobody makes, by a failure  *)
(* or by a crash.                                                          *)
Fairness == \A c \in Calls : WF_vars(Step(c)) /\ WF_vars(Reap(c))

Spec == Init /\ [][Next]_vars /\ Fairness

-----------------------------------------------------------------------------
(* Every variable has its type. *)
TypeOK ==
    /\ version \in 0 .. Newest
    /\ gooseMu \in [Processes -> Calls \cup {Nobody}]
    /\ lock \in Calls \cup {Nobody}
    /\ session \in [Calls -> {"none", "open", "queued", "orphan"}]
    /\ tx \in [Calls -> 0 .. Newest]
    /\ pc \in [Calls -> Running \cup {"idle", "done", "dead"}]
    /\ err \in [Calls -> {"none", "nil", "error"}]
    /\ collided \subseteq 1 .. Newest
    /\ lost \in BOOLEAN

(* Two instances that migrate at the same time never meet at a version, so *)
(* none of them fails on something the other has just created: as long as  *)
(* no lock's session is lost and no process dies. The one exception is     *)
(* goose's own table, when a MigrationStatus, which does not take the      *)
(* lock, has goose create it in a database that has none.                  *)
CollisionsExplained ==
    lost \/ collided \subseteq {v \in {1} : \E c \in Calls \ Upgrades : pc[c] # "idle"}

(* Migrate returns nil only when the schema is at the newest version,      *)
(* whoever applied the migrations and whatever was lost meanwhile.         *)
NewestOnSuccess == \A c \in Upgrades : err[c] = "nil" => version = Newest

(* Every call that is made returns, or dies with its process: no order of  *)
(* mutex, connection, advisory lock, failures and crashes leaves a call    *)
(* waiting.                                                                *)
CallsReturn == <>[](\A c \in Calls : pc[c] \in {"idle", "done", "dead"})
=============================================================================
