----------------------------- MODULE LoginGuard -----------------------------
(***************************************************************************)
(* The guard in front of a login: Auth.Login calls LoginGuard.Check, then  *)
(* Credentials.Authenticate, then RecordFailure or Succeeded. Each bucket  *)
(* (account, address, network) is a FailureCounter in Redis that is read   *)
(* and written by a call of its own, so the logins in flight interleave    *)
(* between every two buckets, and between the check of a bucket and the    *)
(* failure that is recorded in it.                                         *)
(*                                                                         *)
(* An attempt is a slot for one login in flight: it serves one login after *)
(* the other, and Attempts bounds how many run at a time.                  *)
(***************************************************************************)
EXTENDS Integers, FiniteSets

CONSTANTS
    Accounts,   \* the keys of the account buckets
    Addresses,  \* the keys of the address buckets
    network,    \* the key of the one network bucket
    Attempts,   \* logins that can be in flight at the same time
    Tiers,      \* Tiers[k]: the limits of key k, each over a window
    Second,     \* milliseconds in the unit Retry-After is given in
    MaxTime,    \* bound: the clock stops here
    MaxTries    \* bound: logins that are started

Keys == Accounts \cup Addresses \cup {network}
TierSet == [limit : Nat \ {0}, window : Nat \ {0}]

ASSUME KeysAssumption ==
    /\ Accounts # {} /\ Addresses # {}
    /\ Accounts \cap Addresses = {}
    /\ network \notin Accounts \cup Addresses
ASSUME AttemptsAssumption == IsFiniteSet(Attempts)
(* No bucket has two tiers over one window, as in DefaultLoginLimits: a    *)
(* failure would be added to their common counter once for each of them.   *)
ASSUME TiersAssumption ==
    /\ Tiers \in [Keys -> SUBSET TierSet]
    /\ \A k \in Keys :
          /\ IsFiniteSet(Tiers[k])
          /\ \A t, u \in Tiers[k] : t.window = u.window => t = u
ASSUME SecondAssumption == Second \in Nat \ {0}
ASSUME BoundsAssumption == MaxTime \in Nat /\ MaxTries \in Nat

(* A counter is named after its key and its window. *)
Counters == UNION {{<<k, t.window>> : t \in Tiers[k]} : k \in Keys}

VARIABLES
    now,    \* Redis's clock
    fails,  \* fails[c]: the members <<score, n>> of counter c
    tries,  \* logins started so far
    pc,     \* where each attempt is
    who,    \* the account and the address an attempt comes with
    turn,   \* the bucket it is at: account, address, network
    wait,   \* Check's longest wait so far
    log     \* history: log[k], the failures counted against k, until k is reset

attempt == <<pc, who, turn, wait>>
vars == <<now, fails, tries, attempt, log>>

Callers == [account : Accounts, address : Addresses]

-----------------------------------------------------------------------------
(* The keys of a caller, in the order the buckets are visited. *)
bucketsFor(caller) == <<caller.account, caller.address, network>>

KeyOf(a) == bucketsFor(who[a])[turn[a]]

(* The failures ZCOUNT (time-window, +inf) counts at some time. A key that *)
(* has expired held older ones only.                                       *)
AliveAt(k, w, time) == {m \in fails[<<k, w>>] : m[1] > time - w}

FullTiersAt(k, time) ==
    {t \in Tiers[k] : Cardinality(AliveAt(k, t.window, time)) >= t.limit}

(* When the oldest failure of a full tier leaves its window. *)
Retry(k, w) ==
    LET alive == AliveAt(k, w, now)
        oldest == CHOOSE m \in alive : \A n \in alive : m[1] <= n[1]
    IN  oldest[1] + w - now

Longest(S) == CHOOSE x \in S : \A y \in S : y <= x

(* Mutant: the wait of the first full tier is answered. *)
countFailuresFirst(k) ==
    IF FullTiersAt(k, now) = {} THEN 0
    ELSE Retry(k, (CHOOSE t \in FullTiersAt(k, now) : \A u \in FullTiersAt(k, now) : t.window <= u.window).window)

(* countFailures: the longest wait of the full tiers, 0 when there is room. *)
countFailures(k) == Longest({0} \cup {Retry(k, t.window) : t \in FullTiersAt(k, now)})

(* WriteRateLimited: whole seconds, rounded up, at least one. *)
RetryAfter(w) == Second * Longest({1, (w + Second - 1) \div Second})

-----------------------------------------------------------------------------
(* Between logins the fields of an attempt mean nothing. *)
Anyone == CHOOSE caller \in Callers : TRUE

Init ==
    /\ now = 0
    /\ fails = [c \in Counters |-> {}]
    /\ tries = 0
    /\ pc = [a \in Attempts |-> "idle"]
    /\ who = [a \in Attempts |-> Anyone]
    /\ turn = [a \in Attempts |-> 1]
    /\ wait = [a \in Attempts |-> 0]
    /\ log = [k \in Keys |-> {}]

(* The attempt goes on with bucket i, having waits up to w to answer. *)
Goto(a, l, i, w) ==
    /\ pc' = [pc EXCEPT ![a] = l]
    /\ turn' = [turn EXCEPT ![a] = i]
    /\ wait' = [wait EXCEPT ![a] = w]
    /\ UNCHANGED who

(* The login is answered. *)
Leave(a, w) ==
    /\ pc' = [pc EXCEPT ![a] = "idle"]
    /\ turn' = [turn EXCEPT ![a] = 1]
    /\ wait' = [wait EXCEPT ![a] = w]
    /\ who' = [who EXCEPT ![a] = Anyone]

(* A login with both fields present, from an address that could be told. *)
Login(a, caller) ==
    /\ pc[a] = "idle"
    /\ tries < MaxTries
    /\ tries' = tries + 1
    /\ who' = [who EXCEPT ![a] = caller]
    /\ pc' = [pc EXCEPT ![a] = "check"]
    /\ wait' = [wait EXCEPT ![a] = 0]
    /\ UNCHANGED <<now, fails, turn, log>>

(* LoginGuard.Check, one bucket: every bucket is read even after one has   *)
(* refused, and the longest wait is answered. A bucket that cannot be read *)
(* refuses the login at once, with a wait that is a guess.                 *)
Check(a) ==
    LET longest == Longest({wait[a], countFailures(KeyOf(a))})
    IN  /\ pc[a] = "check"
        /\ \/ turn[a] < 3 /\ Goto(a, "check", turn[a] + 1, longest)
           \/ turn[a] = 3 /\ longest = 0 /\ Goto(a, "verify", 1, 0)
           \/ turn[a] = 3 /\ longest > 0 /\ Leave(a, longest)
           \/ Leave(a, 0)
        /\ UNCHANGED <<now, fails, tries, log>>

(* Credentials.Authenticate: a wrong password or no such account, the      *)
(* right password, or a database that does not answer, which nobody is     *)
(* charged for.                                                            *)
Authenticate(a) ==
    /\ pc[a] = "verify"
    /\ \/ Goto(a, "record", 1, 0)
       \/ Goto(a, "reset", 1, 0)
       \/ Leave(a, 0)
    /\ UNCHANGED <<now, fails, tries, log>>

(* Mutant: the member is the time alone. *)
memberByTime(c) == <<now>>

(* INCR makes the members of one millisecond distinct; the counter it      *)
(* increments lives and dies with the members.                             *)
member(c) == <<now, 1 + Cardinality({m \in fails[c] : m[1] = now})>>

(* recordFailure: trim and add, in every tier of the key, each of which    *)
(* has a counter of its own (TiersAssumption).                             *)
recordFailure(k) ==
    /\ fails' = [c \in Counters |->
                    IF c[1] = k THEN AliveAt(k, c[2], now) \cup {member(c)} ELSE fails[c]]
    /\ log' = [log EXCEPT ![k] = @ \cup {<<now, Cardinality(@) + 1>>}]

(* LoginGuard.RecordFailure, one bucket: a counter that will not write is  *)
(* passed over.                                                            *)
RecordFailure(a) ==
    /\ pc[a] = "record"
    /\ \/ recordFailure(KeyOf(a))
       \/ UNCHANGED <<fails, log>>
    /\ \/ turn[a] < 3 /\ Goto(a, "record", turn[a] + 1, 0)
       \/ turn[a] = 3 /\ Leave(a, 0)
    /\ UNCHANGED <<now, tries>>

(* Mutant: every bucket is forgiven, the address and the network too. *)
ResetEveryBucket(caller) ==
    /\ fails' = [c \in Counters |->
                    IF \E i \in 1..3 : bucketsFor(caller)[i] = c[1] THEN {} ELSE fails[c]]
    /\ log' = [log EXCEPT ![caller.account] = {}]

(* Mutant: the account is not forgiven. *)
ResetNothing(caller) ==
    /\ fails' = fails
    /\ log' = [log EXCEPT ![caller.account] = {}]

(* FailureCounter.Reset of the account's key. *)
Reset(caller) ==
    /\ fails' = [c \in Counters |-> IF c[1] = caller.account THEN {} ELSE fails[c]]
    /\ log' = [log EXCEPT ![caller.account] = {}]

(* LoginGuard.Succeeded: the account is forgiven, and only the account. A  *)
(* counter that will not clear is passed over.                             *)
Succeeded(a) ==
    /\ pc[a] = "reset"
    /\ \/ Reset(who[a])
       \/ UNCHANGED <<fails, log>>
    /\ Leave(a, 0)
    /\ UNCHANGED <<now, tries>>

Tick ==
    /\ now < MaxTime
    /\ now' = now + 1
    /\ UNCHANGED <<fails, tries, attempt, log>>

(* The bounds are used up. *)
Terminated ==
    /\ tries = MaxTries /\ now = MaxTime
    /\ \A a \in Attempts : pc[a] = "idle"
    /\ UNCHANGED vars

Next ==
    \/ \E a \in Attempts :
        \/ \E caller \in Callers : Login(a, caller)
        \/ Check(a)
        \/ Authenticate(a)
        \/ RecordFailure(a)
        \/ Succeeded(a)
    \/ Tick
    \/ Terminated

Spec == Init /\ [][Next]_vars

-----------------------------------------------------------------------------
(* Every variable has its type. *)
TypeOK ==
    /\ now \in Nat
    /\ fails \in [Counters -> SUBSET (Nat \X Nat)]
    /\ tries \in Nat
    /\ pc \in [Attempts -> {"idle", "check", "verify", "record", "reset"}]
    /\ who \in [Attempts -> Callers]
    /\ turn \in [Attempts -> 1..3]
    /\ wait \in [Attempts -> Nat]
    /\ log \in [Keys -> SUBSET (Nat \X Nat)]

(* The failures counted against k over the window of length w that ends at e. *)
Counted(k, w, e) == {g \in log[k] : e - w < g[1] /\ g[1] <= e}

(* Checking and recording are separate calls, so a burst passes a check    *)
(* that a later login would fail; but the overshoot never exceeds the      *)
(* logins in flight: over any window, fewer than limit + |Attempts|        *)
(* failures are counted against a key, for an account since it last        *)
(* signed in, for an address or a network whoever signs in behind it.      *)
GuessesBounded ==
    \A k \in Keys : \A t \in Tiers[k], e \in 0..now :
        Cardinality(Counted(k, t.window, e)) < t.limit + Cardinality(Attempts)

(* Good logins, database outages and refused logins never spend a bucket:  *)
(* a key is spent only when the failures counted against it, since its     *)
(* last success, fill a tier.                                              *)
SpentOnlyByFailures ==
    \A k \in Keys : FullTiersAt(k, now) # {} =>
        \E t \in Tiers[k] : Cardinality(Counted(k, t.window, now)) >= t.limit

(* The wait countFailures returns is long enough: once it has passed,      *)
(* rounded to whole seconds, and nothing was counted since, a key whose    *)
(* tiers were full but not overfull has room.                              *)
RetryAfterHonest ==
    \A k \in Keys :
        (\A t \in Tiers[k] : Cardinality(AliveAt(k, t.window, now)) <= t.limit) =>
            FullTiersAt(k, now + RetryAfter(countFailures(k))) = {}

(* failures.go: the longest of the waits is answered because "a shorter    *)
(* answer invites a retry that is still refused". The same without the     *)
(* exception: it fails of a key that a burst has made overfull.            *)
CounterRetryHonest ==
    \A k \in Keys : FullTiersAt(k, now + RetryAfter(countFailures(k))) = {}
=============================================================================
