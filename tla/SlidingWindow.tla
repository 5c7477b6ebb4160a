--------------------------- MODULE SlidingWindow ---------------------------
(***************************************************************************)
(* The layered rate limiter and the middleware in front of a handler:      *)
(* SlidingWindow.Allow, whose admitOne script Redis runs atomically, and   *)
(* RateLimit. One key is modelled; the keys of two callers, of two         *)
(* limiters or of two windows never meet.                                  *)
(*                                                                         *)
(* A tier's counter is a sorted set named after the tier's WINDOW, so the  *)
(* state is indexed by window length and tiers of one length share it.     *)
(***************************************************************************)
EXTENDS Integers, FiniteSets

CONSTANTS
    Tiers,
    Limit,     \* Limit[t]: hits tier t admits per window
    Window,    \* Window[t]: its length, in milliseconds
    Second,    \* milliseconds in the unit Retry-After is given in
    MaxTime,   \* bound: the clock stops here
    MaxHits    \* bound: requests that are let through

ASSUME TiersAssumption ==
    /\ IsFiniteSet(Tiers)
    /\ Limit \in [Tiers -> Nat \ {0}]
    /\ Window \in [Tiers -> Nat \ {0}]
ASSUME SecondAssumption == Second \in Nat \ {0}
ASSUME BoundsAssumption == MaxTime \in Nat /\ MaxHits \in Nat

VARIABLES
    now,       \* Redis's clock
    failOpen,  \* what the middleware was built to do when Redis does not answer
    hits,      \* hits[w]: the members <<score, n>> of a sorted set
    seq,       \* seq[w]: the counter that makes members distinct
    dies,      \* dies[w]: when both keys expire
    counted,   \* history: the hits the script admitted
    served,    \* history: the requests the middleware passed on
    promises   \* when refused callers may come back, since the last admitted hit

redis == <<hits, seq, dies>>
vars == <<now, failOpen, redis, counted, served, promises>>

Windows == {Window[t] : t \in Tiers}
Members == Nat \X Nat

(* A request that went through: when, its number, and its member in each   *)
(* sorted set.                                                             *)
Hits == [at : Nat, id : Nat, member : [Windows -> Members]]

-----------------------------------------------------------------------------
(* An expired key holds nothing. *)
HitsAt(w) == IF now < dies[w] THEN hits[w] ELSE {}
SeqAt(w) == IF now < dies[w] THEN seq[w] ELSE 0

(* What ZREMRANGEBYSCORE -inf now-window leaves. *)
Alive(w) == {m \in HitsAt(w) : m[1] > now - w}

(* Mutant: the limit is compared with > instead of >=. *)
FullOneLater(t) == Cardinality(Alive(Window[t])) > Limit[t]

Full(t) == Cardinality(Alive(Window[t])) >= Limit[t]

Room == \A t \in Tiers : ~Full(t)

(* When the oldest hit of a full tier leaves its window. *)
Retry(t) ==
    LET oldest == CHOOSE m \in Alive(Window[t]) : \A n \in Alive(Window[t]) : m[1] <= n[1]
    IN  oldest[1] + Window[t] - now

(* Mutant: the first wait found is answered. *)
WaitOfOne == Retry(CHOOSE t \in Tiers : Full(t))

(* The longest of the waits. *)
Wait == CHOOSE w \in {Retry(t) : t \in {x \in Tiers : Full(x)}} :
            \A t \in Tiers : Full(t) => Retry(t) <= w

(* WriteRateLimited: whole seconds, rounded up, at least one. *)
RetryAfter(wait) ==
    LET seconds == (wait + Second - 1) \div Second
    IN  Second * (IF seconds < 1 THEN 1 ELSE seconds)

-----------------------------------------------------------------------------
Init ==
    /\ now = 0
    /\ failOpen \in BOOLEAN
    /\ hits = [w \in Windows |-> {}]
    /\ seq = [w \in Windows |-> 0]
    /\ dies = [w \in Windows |-> 0]
    /\ counted = {}
    /\ served = {}
    /\ promises = {}

(* The members one hit adds to the set of window w: one for every tier of  *)
(* that length.                                                            *)
Copies(w) == Cardinality({t \in Tiers : Window[t] = w})

(* Mutant: the member is the time alone. *)
NewMembersByTime(w) == {<<now>>}

NewMembers(w) == {<<now, SeqAt(w) + j>> : j \in 1..Copies(w)}

ThisHit ==
    [at |-> now, id |-> Cardinality(counted \cup served),
     member |-> [w \in Windows |-> <<now, SeqAt(w) + 1>>]]

(* The second loop of admitOne: ZADD, INCR and PEXPIRE in every tier, over *)
(* sets the first loop has trimmed.                                        *)
Record ==
    /\ hits' = [w \in Windows |-> Alive(w) \cup NewMembers(w)]
    /\ seq' = [w \in Windows |-> SeqAt(w) + Copies(w)]
    /\ dies' = [w \in Windows |-> now + w]
    /\ counted' = counted \cup {ThisHit}
    /\ promises' = {}

(* The first loop alone: trimming. *)
Trim ==
    /\ hits' = [w \in Windows |-> Alive(w)]
    /\ seq' = [w \in Windows |-> SeqAt(w)]
    /\ UNCHANGED <<dies, counted>>

(* All tiers have room: the hit is recorded and the request goes on. *)
Admit ==
    /\ Room
    /\ Cardinality(counted \cup served) < MaxHits
    /\ Record
    /\ served' = served \cup {ThisHit}
    /\ UNCHANGED <<now, failOpen>>

(* Mutant: a refused hit is recorded too. *)
RefuseAndRecord ==
    /\ ~Room
    /\ hits' = [w \in Windows |-> Alive(w) \cup NewMembers(w)]
    /\ seq' = [w \in Windows |-> SeqAt(w) + Copies(w)]
    /\ dies' = [w \in Windows |-> now + w]
    /\ UNCHANGED <<now, failOpen, counted, served, promises>>

(* Some tier is full: nothing is recorded and the caller is told to wait. *)
Refuse ==
    /\ ~Room
    /\ Trim
    /\ promises' = promises \cup {now + RetryAfter(Wait)}
    /\ UNCHANGED <<now, failOpen, served>>

(* Mutant: the middleware always passes a request on when Redis is silent. *)
NoAnswerServed ==
    /\ Cardinality(counted \cup served) < MaxHits
    /\ served' = served \cup {ThisHit}
    /\ UNCHANGED <<now, failOpen, redis, counted, promises>>

(* Redis does not answer: it never ran the script, or it did and the reply *)
(* was lost. onFailure decides whether the request goes on.                 *)
NoAnswer ==
    /\ Cardinality(counted \cup served) < MaxHits
    /\ \/ UNCHANGED <<redis, counted, promises>>
       \/ Room /\ Record
       \/ ~Room /\ Trim /\ UNCHANGED promises
    /\ \/ failOpen /\ served' = served \cup {ThisHit}
       \/ ~failOpen /\ UNCHANGED served
    /\ UNCHANGED <<now, failOpen>>

Tick ==
    /\ now < MaxTime
    /\ now' = now + 1
    /\ UNCHANGED <<failOpen, redis, counted, served, promises>>

(* The bounds are used up. *)
Terminated ==
    /\ now = MaxTime
    /\ Cardinality(counted \cup served) = MaxHits
    /\ UNCHANGED vars

Next == Admit \/ Refuse \/ NoAnswer \/ Tick \/ Terminated

Spec == Init /\ [][Next]_vars

-----------------------------------------------------------------------------
(* Every variable has its type. *)
TypeOK ==
    /\ now \in Nat
    /\ failOpen \in BOOLEAN
    /\ hits \in [Windows -> SUBSET Members]
    /\ seq \in [Windows -> Nat]
    /\ dies \in [Windows -> Nat]
    /\ counted \subseteq Hits
    /\ served \subseteq Hits
    /\ promises \subseteq Nat

Between(S, from, to) == {h \in S : from < h.at /\ h.at <= to}

(* Over every window a tier's length long, wherever it ends, the script    *)
(* admitted at most the tier's limit of hits: no window boundary lets      *)
(* twice the limit through, and hits of the same millisecond are counted   *)
(* apart.                                                                  *)
WindowLimit ==
    \A t \in Tiers, e \in 0..now :
        Cardinality(Between(counted, e - Window[t], e)) <= Limit[t]

(* A limiter that fails closed passes on no more requests than that,       *)
(* whenever Redis is silent and whichever replies are lost.                *)
ServedWithinLimit ==
    ~failOpen => \A t \in Tiers, e \in 0..now :
        Cardinality(Between(served, e - Window[t], e)) <= Limit[t]

(* A hit is refused only when the hits that were admitted fill some tier:  *)
(* refused hits never count, so no caller is locked out by retrying. (It   *)
(* does not hold of two tiers with one window: they count each hit twice.) *)
RefusedOnlyWhenSpent ==
    (\A t \in Tiers : Cardinality(Between(counted, now - Window[t], now)) < Limit[t]) => Room

(* A caller that waits as long as Retry-After said is not refused again    *)
(* unless another hit was admitted in the meantime.                        *)
RetryAfterHonest == \A p \in promises : now >= p => Room
=============================================================================
