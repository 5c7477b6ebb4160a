-------------------------- MODULE LoginGuardProofs --------------------------
(* Proofs about LoginGuard, for any accounts, addresses, limits and        *)
(* windows, and any number of logins in flight.                            *)
EXTENDS LoginGuard, FiniteSetTheorems, TLAPS

(* Where a key comes in the order of the buckets. *)
Rank(k) == IF k \in Accounts THEN 1 ELSE IF k \in Addresses THEN 2 ELSE 3

(* Logins that have found room in the bucket of k and may still charge it. *)
Pending(k) ==
    {a \in Attempts :
        /\ bucketsFor(who[a])[Rank(k)] = k
        /\ \/ pc[a] = "check" /\ turn[a] > Rank(k) /\ wait[a] = 0
           \/ pc[a] = "verify"
           \/ pc[a] = "record" /\ turn[a] <= Rank(k)}

FiniteInv ==
    /\ \A c \in Counters : IsFiniteSet(fails[c])
    /\ \A k \in Keys : IsFiniteSet(log[k])

(* Nothing has happened in the future, and every member and every entry of *)
(* the history has a number of its own.                                    *)
NumberInv ==
    /\ \A c \in Counters : \A m \in fails[c] :
           m[1] <= now /\ m[2] <= Cardinality({n \in fails[c] : n[1] = m[1]})
    /\ \A k \in Keys : \A g \in log[k] : g[1] <= now /\ g[2] <= Cardinality(log[k])

(* Within its window, however far back one looks, a counter has as many    *)
(* members as failures were counted.                                       *)
MatchInv ==
    \A k \in Keys : \A t \in Tiers[k] : \A x \in (now - t.window) .. now :
        Cardinality({m \in fails[<<k, t.window>>] : m[1] > x})
            = Cardinality({g \in log[k] : g[1] > x})

(* An attempt begins every pass over the buckets at the first. *)
TurnInv == \A a \in Attempts : pc[a] \in {"idle", "verify", "reset"} => turn[a] = 1

(* The logins that may still charge a key are taken into account. *)
SlackInv ==
    \A k \in Keys : \A t \in Tiers[k] :
        Cardinality(Counted(k, t.window, now)) + Cardinality(Pending(k))
            < t.limit + Cardinality(Attempts)

IInv ==
    /\ TypeOK
    /\ FiniteInv
    /\ NumberInv
    /\ MatchInv
    /\ TurnInv
    /\ SlackInv
    /\ GuessesBounded
-----------------------------------------------------------------------------
(* Every nonempty set of naturals has a least element. *)
LEMMA LeastNat ==
  ASSUME NEW T \in SUBSET Nat, T # {}
  PROVE  \E x \in T : \A y \in T : x <= y
<1> DEFINE R == OpToRel(<, Nat)
<1>1. IsWellFoundedOn(R, Nat)
  BY NatLessThanWellFounded
<1>2. \A x, y \in Nat : x < y => <<x, y>> \in R
  BY DEF OpToRel
<1> HIDE DEF R
<1>3. PICK x \in T : \A y \in T : ~(<<y, x>> \in R)
  BY <1>1, WFMin
<1>4. ASSUME NEW y \in T, y < x PROVE FALSE
  <2>1. x \in Nat /\ y \in Nat
    OBVIOUS
  <2>2. <<y, x>> \in R
    BY <1>2, <1>4, <2>1
  <2>3. QED
    BY <1>3, <2>2, Zenon
<1>5. \A y \in T : x <= y
  BY <1>4
<1>6. QED
  BY <1>5

(* Every nonempty finite set of integers has a greatest element: a         *)
(* smallest one without would have one after losing an element.            *)
LEMMA FiniteMax ==
  ASSUME NEW S \in SUBSET Int, IsFiniteSet(S), S # {}
  PROVE  \E x \in S : \A y \in S : y <= x
<1> DEFINE NoMax(T) == \A x \in T : \E y \in T : y > x
           Sizes == {n \in Nat : \E T \in SUBSET Int :
                        IsFiniteSet(T) /\ T # {} /\ Cardinality(T) = n /\ NoMax(T)}
<1>1. SUFFICES ASSUME Sizes # {} PROVE FALSE
  <2>1. ASSUME ~\E x \in S : \A y \in S : y <= x PROVE Cardinality(S) \in Sizes
    BY <2>1, FS_CardinalityType
  <2>2. QED
    BY <1>1, <2>1
<1>2. PICK n \in Sizes : \A k \in Sizes : n <= k
  <2> HIDE DEF Sizes
  <2>1. Sizes \in SUBSET Nat
    BY DEF Sizes
  <2>2. QED
    BY <1>1, <2>1, LeastNat
<1>3. PICK T \in SUBSET Int : IsFiniteSet(T) /\ T # {} /\ Cardinality(T) = n /\ NoMax(T)
  BY <1>2
<1>4. PICK x \in T : TRUE
  BY <1>3
<1>5. IsFiniteSet(T \ {x}) /\ Cardinality(T \ {x}) = n - 1 /\ n - 1 \in Nat
  <2>1. n \in Nat /\ n # 0
    BY <1>2, <1>3, FS_EmptySet
  <2>2. IsFiniteSet(T \ {x}) /\ Cardinality(T \ {x}) = Cardinality(T) - 1
    BY <1>3, <1>4, FS_RemoveElement
  <2>3. QED
    BY <1>3, <2>1, <2>2
<1>6. T \ {x} # {}
  BY <1>3, <1>4
<1>7. n - 1 \notin Sizes
  BY <1>2, <1>5
<1>8. PICK u \in T \ {x} : \A y \in T \ {x} : ~(y > u)
  BY <1>5, <1>6, <1>7
<1>9. QED
  BY <1>3, <1>4, <1>8

(* Longest names the greatest element. *)
LEMMA LongestIsMax ==
  ASSUME NEW S \in SUBSET Int, IsFiniteSet(S), S # {}
  PROVE  Longest(S) \in S /\ \A y \in S : y <= Longest(S)
BY FiniteMax DEF Longest

LEMMA LongestOfTwo ==
  ASSUME NEW x \in Int, NEW y \in Int
  PROVE  /\ Longest({x, y}) \in {x, y}
         /\ x <= Longest({x, y})
         /\ y <= Longest({x, y})
<1>1. IsFiniteSet({x, y})
  <2>1. IsFiniteSet({x} \cup {y})
    BY FS_Singleton, FS_AddElement
  <2>2. QED
    BY <2>1
<1>2. QED
  BY <1>1, LongestIsMax

(* A counter is a key and one of its windows. *)
LEMMA CounterTypes ==
  /\ \A k \in Keys : \A t \in Tiers[k] :
        /\ <<k, t.window>> \in Counters
        /\ t.window \in Nat \ {0}
        /\ t.limit \in Nat \ {0}
  /\ \A c \in Counters : c[1] \in Keys /\ c[2] \in Nat \ {0} /\ c = <<c[1], c[2]>>
<1>1. \A k \in Keys : \A t \in Tiers[k] : t.window \in Nat \ {0} /\ t.limit \in Nat \ {0}
  BY TiersAssumption DEF TierSet
<1>2. QED
  BY <1>1 DEF Counters

(* The keys a caller comes with, and which of them an attempt is at. *)
LEMMA BucketTypes ==
  ASSUME NEW caller \in Callers
  PROVE  /\ \A i \in 1 .. 3 : bucketsFor(caller)[i] \in Keys
         /\ \A i \in 1 .. 3 : Rank(bucketsFor(caller)[i]) = i
         /\ caller.account \in Accounts /\ Rank(caller.account) = 1
<1>1. /\ caller.account \in Accounts /\ caller.account \notin Addresses
      /\ caller.address \in Addresses /\ caller.address \notin Accounts
      /\ network \notin Accounts /\ network \notin Addresses
  BY KeysAssumption DEF Callers
<1>2. \A i \in 1 .. 3 : i = 1 \/ i = 2 \/ i = 3
  OBVIOUS
<1>3. bucketsFor(caller)[1] = caller.account /\ bucketsFor(caller)[2] = caller.address
      /\ bucketsFor(caller)[3] = network
  BY DEF bucketsFor
<1>4. QED
  BY <1>1, <1>2, <1>3 DEF Keys, Rank
-----------------------------------------------------------------------------
(* The failures a tier counts are finitely many. *)
LEMMA AliveFinite ==
  ASSUME TypeOK, FiniteInv, NEW k \in Keys, NEW t \in Tiers[k], NEW time \in Int
  PROVE  /\ IsFiniteSet(AliveAt(k, t.window, time))
         /\ Cardinality(AliveAt(k, t.window, time)) \in Nat
         /\ AliveAt(k, t.window, time) \in SUBSET (Nat \X Nat)
<1>1. <<k, t.window>> \in Counters
  BY CounterTypes
<1>2. IsFiniteSet(fails[<<k, t.window>>]) /\ fails[<<k, t.window>>] \in SUBSET (Nat \X Nat)
  BY <1>1 DEF TypeOK, FiniteInv
<1>3. AliveAt(k, t.window, time) \in SUBSET fails[<<k, t.window>>]
  BY DEF AliveAt
<1>4. QED
  BY <1>2, <1>3, FS_Subset, FS_CardinalityType

(* A full tier has an oldest failure, and waits until it leaves. *)
LEMMA RetryOfOldest ==
  ASSUME TypeOK, FiniteInv, NEW k \in Keys, NEW t \in FullTiersAt(k, now)
  PROVE  \E m \in AliveAt(k, t.window, now) :
            /\ \A n \in AliveAt(k, t.window, now) : m[1] <= n[1]
            /\ Retry(k, t.window) = m[1] + t.window - now
<1> DEFINE A == AliveAt(k, t.window, now)
           T == {m[1] : m \in A}
<1>1. t \in Tiers[k] /\ Cardinality(A) >= t.limit
  BY DEF FullTiersAt
<1>2. t.limit \in Nat \ {0} /\ now \in Int
  <2>1. now \in Nat
    BY DEF TypeOK
  <2>2. t.limit \in Nat \ {0}
    BY <1>1, CounterTypes, Zenon
  <2>3. QED
    BY <2>1, <2>2
<1>3. IsFiniteSet(A) /\ Cardinality(A) \in Nat /\ A \in SUBSET (Nat \X Nat)
  BY <1>1, <1>2, AliveFinite
<1>4. A # {}
  <2>1. Cardinality(A) # 0
    BY <1>1, <1>2, <1>3
  <2> HIDE DEF A
  <2>2. QED
    BY <1>3, <2>1, FS_EmptySet
<1>5. T \in SUBSET Nat /\ T # {}
  <2> HIDE DEF A
  <2>1. QED
    BY <1>3, <1>4
<1>6. \E x \in T : \A y \in T : x <= y
  <2> HIDE DEF T
  <2>1. QED
    BY <1>5, LeastNat
<1>7. \E m \in A : \A n \in A : m[1] <= n[1]
  <2> HIDE DEF A
  <2>1. QED
    BY <1>6
<1>8. QED
  BY <1>7 DEF Retry

(* countFailures answers a wait no shorter than any full tier's, and no    *)
(* wait only when no tier is full.                                         *)
LEMMA CountFailuresMax ==
  ASSUME TypeOK, FiniteInv, NEW k \in Keys
  PROVE  /\ countFailures(k) \in Nat
         /\ \A t \in FullTiersAt(k, now) : Retry(k, t.window) <= countFailures(k)
         /\ countFailures(k) = 0 => FullTiersAt(k, now) = {}
<1> DEFINE F == FullTiersAt(k, now)
           W == {Retry(k, t.window) : t \in F}
<1>1. F \in SUBSET Tiers[k] /\ IsFiniteSet(F)
  <2>1. F \in SUBSET Tiers[k]
    BY DEF FullTiersAt
  <2>2. IsFiniteSet(Tiers[k])
    BY TiersAssumption
  <2>3. QED
    BY <2>1, <2>2, FS_Subset
<1>2. \A t \in F : Retry(k, t.window) \in Nat \ {0}
  <2> SUFFICES ASSUME NEW t \in F PROVE Retry(k, t.window) \in Nat \ {0}
    OBVIOUS
  <2>1. PICK m \in AliveAt(k, t.window, now) : Retry(k, t.window) = m[1] + t.window - now
    BY RetryOfOldest
  <2>2. now \in Nat /\ t.window \in Nat /\ m[1] \in Nat
    <3>1. now \in Nat /\ now \in Int
      BY DEF TypeOK
    <3>2. t \in Tiers[k]
      BY <1>1
    <3>3. t.window \in Nat \ {0}
      BY <3>2, CounterTypes, Zenon
    <3>4. AliveAt(k, t.window, now) \in SUBSET (Nat \X Nat)
      BY <3>1, <3>2, AliveFinite
    <3>5. QED
      BY <3>1, <3>3, <3>4
  <2>3. m[1] > now - t.window
    BY DEF AliveAt
  <2>4. QED
    BY <2>1, <2>2, <2>3
<1>3. IsFiniteSet(W) /\ W \in SUBSET Nat
  <2> HIDE DEF F
  <2> DEFINE f == [t \in F |-> Retry(k, t.window)]
  <2>1. f \in Surjection(F, W)
    BY DEF Surjection
  <2>2. W \in SUBSET Nat
    BY <1>2
  <2> HIDE DEF f, W
  <2>3. QED
    BY <1>1, <2>1, <2>2, FS_Surjection
<1>4. IsFiniteSet({0} \cup W) /\ {0} \cup W \in SUBSET Int /\ {0} \cup W # {}
  <2> HIDE DEF W
  <2>1. IsFiniteSet(W \cup {0})
    BY <1>3, FS_AddElement
  <2>2. W \cup {0} = {0} \cup W
    OBVIOUS
  <2>3. QED
    BY <1>3, <2>1, <2>2
<1>5. countFailures(k) \in {0} \cup W /\ \A y \in {0} \cup W : y <= countFailures(k)
  <2>1. countFailures(k) = Longest({0} \cup W)
    BY DEF countFailures
  <2> HIDE DEF W
  <2>2. QED
    BY <1>4, <2>1, LongestIsMax
<1>6. countFailures(k) \in Nat
  <2> HIDE DEF W
  <2>1. countFailures(k) = 0 \/ countFailures(k) \in W
    BY <1>5, Zenon
  <2>2. \A y \in W : y \in Nat
    BY <1>3, Zenon
  <2>3. 0 \in Nat
    OBVIOUS
  <2>4. QED
    BY <2>1, <2>2, <2>3, Zenon
<1>7. \A t \in F : Retry(k, t.window) <= countFailures(k)
  BY <1>5
<1>8. ASSUME countFailures(k) = 0, NEW t \in F PROVE FALSE
  BY <1>2, <1>7, <1>8
<1>9. QED
  BY <1>6, <1>7, <1>8

(* Rounded up to whole seconds, a wait is no shorter. *)
LEMMA RetryAfterEnough ==
  ASSUME NEW w \in Nat
  PROVE  RetryAfter(w) \in Nat /\ w <= RetryAfter(w)
<1> DEFINE d == (w + Second - 1) \div Second
           l == Longest({1, d})
<1>1. Second \in Nat \ {0}
  BY SecondAssumption
<1>2. d \in Nat /\ w <= Second * d
  BY <1>1
<1>3. l \in Nat /\ d <= l
  <2> HIDE DEF d
  <2>1. QED
    BY <1>2, LongestOfTwo
<1>4. RetryAfter(w) = Second * l
  BY DEF RetryAfter
<1>5. QED
  <2> HIDE DEF d, l
  <2>1. Second * d <= Second * l /\ Second * l \in Nat
    BY <1>1, <1>2, <1>3
  <2>2. QED
    BY <1>1, <1>2, <1>3, <1>4, <2>1
-----------------------------------------------------------------------------
(* There is a caller, and the key an attempt is at is one of its own. *)
LEMMA CallerTypes ==
  /\ Anyone \in Callers
  /\ TypeOK => \A a \in Attempts :
        /\ who[a] \in Callers /\ turn[a] \in 1 .. 3
        /\ KeyOf(a) \in Keys /\ Rank(KeyOf(a)) = turn[a]
        /\ bucketsFor(who[a])[turn[a]] = KeyOf(a)
<1>1. Callers # {}
  <2>1. PICK x \in Accounts, y \in Addresses : TRUE
    BY KeysAssumption
  <2>2. [account |-> x, address |-> y] \in Callers
    BY DEF Callers
  <2>3. QED
    BY <2>2
<1>2. Anyone \in Callers
  BY <1>1 DEF Anyone
<1>3. ASSUME TypeOK, NEW a \in Attempts
      PROVE  /\ who[a] \in Callers /\ turn[a] \in 1 .. 3
             /\ KeyOf(a) \in Keys /\ Rank(KeyOf(a)) = turn[a]
             /\ bucketsFor(who[a])[turn[a]] = KeyOf(a)
  <2>1. who[a] \in Callers /\ turn[a] \in 1 .. 3
    BY <1>3 DEF TypeOK
  <2>2. bucketsFor(who[a])[turn[a]] = KeyOf(a)
    BY DEF KeyOf
  <2>3. QED
    BY <2>1, <2>2, BucketTypes
<1>4. QED
  BY <1>2, <1>3

(* A failure that is recorded adds one member to every counter of the key  *)
(* and one entry to its history.                                           *)
LEMMA RecordEffect ==
  ASSUME TypeOK, FiniteInv, NumberInv, NEW k \in Keys, recordFailure(k)
  PROVE  /\ \A c \in Counters : c[1] # k => fails'[c] = fails[c]
         /\ \A c \in Counters : c[1] = k =>
               /\ fails'[c] = {m \in fails[c] : m[1] > now - c[2]} \cup {member(c)}
               /\ member(c) \in Nat \X Nat
               /\ member(c)[1] = now
               /\ member(c)[2] = 1 + Cardinality({m \in fails[c] : m[1] = now})
               /\ member(c) \notin fails[c]
         /\ \A j \in Keys : j # k => log'[j] = log[j]
         /\ log'[k] = log[k] \cup {<<now, Cardinality(log[k]) + 1>>}
         /\ <<now, Cardinality(log[k]) + 1>> \in Nat \X Nat
         /\ <<now, Cardinality(log[k]) + 1>> \notin log[k]
         /\ fails' \in [Counters -> SUBSET (Nat \X Nat)]
         /\ log' \in [Keys -> SUBSET (Nat \X Nat)]
<1>1. now \in Nat /\ fails \in [Counters -> SUBSET (Nat \X Nat)] /\ log \in [Keys -> SUBSET (Nat \X Nat)]
  BY DEF TypeOK
<1>2. ASSUME NEW c \in Counters, c[1] = k
      PROVE  /\ fails'[c] = {m \in fails[c] : m[1] > now - c[2]} \cup {member(c)}
             /\ member(c) \in Nat \X Nat
             /\ member(c)[1] = now
             /\ member(c)[2] = 1 + Cardinality({m \in fails[c] : m[1] = now})
             /\ member(c) \notin fails[c]
  <2> DEFINE M == {m \in fails[c] : m[1] = now}
  <2>1. c = <<k, c[2]>>
    BY <1>2, CounterTypes, Zenon
  <2>2. fails'[c] = AliveAt(k, c[2], now) \cup {member(c)}
    BY <1>2 DEF recordFailure
  <2>3. AliveAt(k, c[2], now) = {m \in fails[c] : m[1] > now - c[2]}
    BY <2>1 DEF AliveAt
  <2>4. IsFiniteSet(M) /\ Cardinality(M) \in Nat
    <3>1. IsFiniteSet(fails[c]) /\ M \in SUBSET fails[c]
      BY DEF FiniteInv
    <3>2. QED
      BY <3>1, FS_Subset, FS_CardinalityType
  <2>5. member(c) = <<now, 1 + Cardinality(M)>>
    BY DEF member
  <2>6. member(c) \notin fails[c]
    <3> SUFFICES ASSUME member(c) \in fails[c] PROVE FALSE
      OBVIOUS
    <3>1. member(c)[2] <= Cardinality({n \in fails[c] : n[1] = member(c)[1]})
      BY DEF NumberInv
    <3>2. member(c)[1] = now /\ member(c)[2] = 1 + Cardinality(M)
      BY <2>5
    <3>3. QED
      BY <2>4, <3>1, <3>2
  <2> HIDE DEF M
  <2>7. member(c) \in Nat \X Nat /\ member(c)[1] = now /\ member(c)[2] = 1 + Cardinality(M)
    BY <1>1, <2>4, <2>5
  <2>8. QED
    BY <2>2, <2>3, <2>6, <2>7 DEF M
<1>3. \A c \in Counters : c[1] # k => fails'[c] = fails[c]
  BY DEF recordFailure
<1>4. log' = [log EXCEPT ![k] = log[k] \cup {<<now, Cardinality(log[k]) + 1>>}]
  BY DEF recordFailure
<1>5. Cardinality(log[k]) \in Nat
  BY FS_CardinalityType DEF FiniteInv
<1>6. <<now, Cardinality(log[k]) + 1>> \in Nat \X Nat
  BY <1>1, <1>5
<1>7. <<now, Cardinality(log[k]) + 1>> \notin log[k]
  <2> SUFFICES ASSUME <<now, Cardinality(log[k]) + 1>> \in log[k] PROVE FALSE
    OBVIOUS
  <2>1. <<now, Cardinality(log[k]) + 1>>[2] <= Cardinality(log[k])
    BY DEF NumberInv
  <2>2. QED
    BY <1>5, <2>1
<1>8. log' \in [Keys -> SUBSET (Nat \X Nat)] /\ log'[k] = log[k] \cup {<<now, Cardinality(log[k]) + 1>>}
      /\ \A j \in Keys : j # k => log'[j] = log[j]
  <2> DEFINE g == <<now, Cardinality(log[k]) + 1>>
  <2>1. g \in Nat \X Nat /\ log' = [log EXCEPT ![k] = log[k] \cup {g}]
    BY <1>4, <1>6
  <2> HIDE DEF g
  <2>2. QED
    BY <1>1, <2>1 DEF g
<1>9. fails' \in [Counters -> SUBSET (Nat \X Nat)]
  <2>1. \A c \in Counters : fails'[c] \in SUBSET (Nat \X Nat)
    <3> SUFFICES ASSUME NEW c \in Counters PROVE fails'[c] \in SUBSET (Nat \X Nat)
      OBVIOUS
    <3>1. fails[c] \in SUBSET (Nat \X Nat)
      BY <1>1
    <3>2. CASE c[1] = k
      <4>1. fails'[c] = {m \in fails[c] : m[1] > now - c[2]} \cup {member(c)} /\ member(c) \in Nat \X Nat
        BY <1>2, <3>2
      <4>2. QED
        BY <3>1, <4>1
    <3>3. CASE c[1] # k
      BY <1>3, <3>1, <3>3
    <3>4. QED
      BY <3>2, <3>3
  <2>2. fails' = [c \in Counters |-> fails'[c]]
    BY DEF recordFailure
  <2>3. QED
    BY <2>1, <2>2
<1>10. QED
  BY <1>2, <1>3, <1>6, <1>7, <1>8, <1>9

(* A success clears the counters and the history of the account. *)
LEMMA ResetEffect ==
  ASSUME TypeOK, NEW caller \in Callers, Reset(caller)
  PROVE  /\ \A c \in Counters :
               fails'[c] = IF c[1] = caller.account THEN {} ELSE fails[c]
         /\ \A k \in Keys : log'[k] = IF k = caller.account THEN {} ELSE log[k]
         /\ fails' \in [Counters -> SUBSET (Nat \X Nat)]
         /\ log' \in [Keys -> SUBSET (Nat \X Nat)]
<1>1. fails \in [Counters -> SUBSET (Nat \X Nat)] /\ log \in [Keys -> SUBSET (Nat \X Nat)]
  BY DEF TypeOK
<1>2. fails' = [c \in Counters |-> IF c[1] = caller.account THEN {} ELSE fails[c]]
      /\ log' = [log EXCEPT ![caller.account] = {}]
  BY DEF Reset
<1>3. \A c \in Counters : fails'[c] = IF c[1] = caller.account THEN {} ELSE fails[c]
  BY <1>2
<1>4. \A k \in Keys : log'[k] = IF k = caller.account THEN {} ELSE log[k]
  BY <1>1, <1>2
<1>5. fails' \in [Counters -> SUBSET (Nat \X Nat)] /\ log' \in [Keys -> SUBSET (Nat \X Nat)]
  BY <1>1, <1>2
<1>6. QED
  BY <1>3, <1>4, <1>5

(* What a step does to the counters and the histories: one failure of a    *)
(* key is recorded, one account is forgiven, or nothing.                   *)
LEMMA StoreCases ==
  ASSUME TypeOK, [Next]_vars
  PROVE  \/ now' = now /\ UNCHANGED <<fails, log>>
         \/ now' = now + 1 /\ UNCHANGED <<fails, log, attempt>>
         \/ now' = now /\ \E a \in Attempts :
               pc[a] = "record" /\ RecordFailure(a) /\ recordFailure(KeyOf(a))
         \/ now' = now /\ \E a \in Attempts : Succeeded(a) /\ Reset(who[a])
<1>1. CASE UNCHANGED vars
  BY <1>1 DEF vars
<1>2. ASSUME NEW a \in Attempts, NEW caller \in Callers, Login(a, caller)
      PROVE  now' = now /\ UNCHANGED <<fails, log>>
  BY <1>2 DEF Login
<1>3. ASSUME NEW a \in Attempts, Check(a)
      PROVE  now' = now /\ UNCHANGED <<fails, log>>
  BY <1>3 DEF Check
<1>4. ASSUME NEW a \in Attempts, Authenticate(a)
      PROVE  now' = now /\ UNCHANGED <<fails, log>>
  BY <1>4 DEF Authenticate
<1>5. ASSUME NEW a \in Attempts, RecordFailure(a)
      PROVE  now' = now /\ pc[a] = "record" /\ (recordFailure(KeyOf(a)) \/ UNCHANGED <<fails, log>>)
  BY <1>5 DEF RecordFailure
<1>6. ASSUME NEW a \in Attempts, Succeeded(a)
      PROVE  now' = now /\ (Reset(who[a]) \/ UNCHANGED <<fails, log>>)
  BY <1>6 DEF Succeeded
<1>7. CASE Tick
  BY <1>7 DEF Tick
<1>8. CASE Terminated
  BY <1>8 DEF Terminated, vars
<1>9. QED
  BY <1>1, <1>2, <1>3, <1>4, <1>5, <1>6, <1>7, <1>8 DEF Next
-----------------------------------------------------------------------------
(* An attempt's fields keep their types when it moves on, and it begins    *)
(* every pass over the buckets at the first.                               *)
LEMMA AttemptStep ==
  ASSUME TypeOK, FiniteInv, TurnInv, [Next]_vars
  PROVE  /\ tries' \in Nat
         /\ pc' \in [Attempts -> {"idle", "check", "verify", "record", "reset"}]
         /\ who' \in [Attempts -> Callers]
         /\ turn' \in [Attempts -> 1 .. 3]
         /\ wait' \in [Attempts -> Nat]
         /\ TurnInv'
<1> DEFINE Good == /\ pc' \in [Attempts -> {"idle", "check", "verify", "record", "reset"}]
                   /\ who' \in [Attempts -> Callers]
                   /\ turn' \in [Attempts -> 1 .. 3]
                   /\ wait' \in [Attempts -> Nat]
                   /\ TurnInv'
<1>1. /\ tries \in Nat
      /\ pc \in [Attempts -> {"idle", "check", "verify", "record", "reset"}]
      /\ who \in [Attempts -> Callers]
      /\ turn \in [Attempts -> 1 .. 3]
      /\ wait \in [Attempts -> Nat]
  BY DEF TypeOK
<1>2. Anyone \in Callers
  BY CallerTypes
<1>3. ASSUME NEW a \in Attempts, NEW l \in {"check", "verify", "record", "reset"},
             NEW i \in 1 .. 3, NEW w \in Nat, Goto(a, l, i, w),
             l \in {"verify", "reset"} => i = 1
      PROVE  Good
  BY <1>1, <1>3 DEF Goto, TurnInv
<1>4. ASSUME NEW a \in Attempts, NEW w \in Nat, Leave(a, w) PROVE Good
  BY <1>1, <1>2, <1>4 DEF Leave, TurnInv
<1>5. ASSUME UNCHANGED <<tries, attempt>> PROVE tries' \in Nat /\ Good
  BY <1>1, <1>5 DEF attempt, TurnInv
<1>6. ASSUME NEW a \in Attempts, NEW caller \in Callers, Login(a, caller) PROVE tries' \in Nat /\ Good
  BY <1>1, <1>6 DEF Login, TurnInv
<1>7. ASSUME NEW a \in Attempts, Check(a) PROVE tries' \in Nat /\ Good
  <2> DEFINE longest == Longest({wait[a], countFailures(KeyOf(a))})
  <2>1. longest \in Nat
    <3>1. KeyOf(a) \in Keys
      BY CallerTypes
    <3>2. countFailures(KeyOf(a)) \in Nat
      BY <3>1, CountFailuresMax
    <3>3. wait[a] \in Nat
      BY <1>1
    <3>4. longest \in {wait[a], countFailures(KeyOf(a))}
      <4>1. wait[a] \in Int /\ countFailures(KeyOf(a)) \in Int
        BY <3>2, <3>3
      <4>2. QED
        BY <4>1, LongestOfTwo, Zenon
    <3>5. QED
      BY <3>2, <3>3, <3>4
  <2>2. tries' = tries
    BY <1>7 DEF Check
  <2>3. \/ turn[a] < 3 /\ Goto(a, "check", turn[a] + 1, longest)
        \/ Goto(a, "verify", 1, 0)
        \/ Leave(a, longest)
        \/ Leave(a, 0)
    BY <1>7 DEF Check
  <2> HIDE DEF longest
  <2>4. CASE turn[a] < 3 /\ Goto(a, "check", turn[a] + 1, longest)
    <3>1. turn[a] + 1 \in 1 .. 3
      BY <1>1, <2>4
    <3> HIDE DEF Good
    <3>2. QED
      BY <1>1, <1>3, <2>1, <2>2, <2>4, <3>1
  <2> HIDE DEF Good
  <2>5. QED
    BY <1>1, <1>3, <1>4, <2>1, <2>2, <2>3, <2>4
<1>8. ASSUME NEW a \in Attempts, Authenticate(a) PROVE tries' \in Nat /\ Good
  <2>1. tries' = tries /\ (Goto(a, "record", 1, 0) \/ Goto(a, "reset", 1, 0) \/ Leave(a, 0))
    BY <1>8 DEF Authenticate
  <2> HIDE DEF Good
  <2>2. QED
    BY <1>1, <1>3, <1>4, <2>1
<1>9. ASSUME NEW a \in Attempts, RecordFailure(a) PROVE tries' \in Nat /\ Good
  <2>1. tries' = tries /\ ((turn[a] < 3 /\ Goto(a, "record", turn[a] + 1, 0)) \/ Leave(a, 0))
    BY <1>9 DEF RecordFailure
  <2>2. turn[a] < 3 => turn[a] + 1 \in 1 .. 3
    BY <1>1
  <2> HIDE DEF Good
  <2>3. QED
    BY <1>1, <1>3, <1>4, <2>1, <2>2
<1>10. ASSUME NEW a \in Attempts, Succeeded(a) PROVE tries' \in Nat /\ Good
  <2>1. tries' = tries /\ Leave(a, 0)
    BY <1>10 DEF Succeeded
  <2> HIDE DEF Good
  <2>2. QED
    BY <1>1, <1>4, <2>1
<1>11. QED
  <2>1. \/ \E a \in Attempts :
              \/ \E caller \in Callers : Login(a, caller)
              \/ Check(a) \/ Authenticate(a) \/ RecordFailure(a) \/ Succeeded(a)
        \/ UNCHANGED <<tries, attempt>>
    BY DEF Next, Tick, Terminated, vars
  <2> HIDE DEF Good
  <2>2. tries' \in Nat /\ Good
    BY <1>5, <1>6, <1>7, <1>8, <1>9, <1>10, <2>1
  <2>3. QED
    BY <2>2 DEF Good

(* Every variable keeps its type. *)
LEMMA TypeStep ==
  ASSUME TypeOK, FiniteInv, NumberInv, TurnInv, [Next]_vars
  PROVE  TypeOK'
<1>1. /\ now \in Nat
      /\ fails \in [Counters -> SUBSET (Nat \X Nat)]
      /\ log \in [Keys -> SUBSET (Nat \X Nat)]
  BY DEF TypeOK
<1>2. now' = now \/ now' = now + 1
  BY StoreCases
<1>3. now' \in Nat
  BY <1>1, <1>2
<1>4. /\ fails' \in [Counters -> SUBSET (Nat \X Nat)]
      /\ log' \in [Keys -> SUBSET (Nat \X Nat)]
  <2>1. CASE UNCHANGED <<fails, log>>
    BY <1>1, <2>1
  <2>2. ASSUME NEW a \in Attempts, recordFailure(KeyOf(a))
        PROVE  /\ fails' \in [Counters -> SUBSET (Nat \X Nat)]
               /\ log' \in [Keys -> SUBSET (Nat \X Nat)]
    BY <2>2, CallerTypes, RecordEffect
  <2>3. ASSUME NEW a \in Attempts, Reset(who[a])
        PROVE  /\ fails' \in [Counters -> SUBSET (Nat \X Nat)]
               /\ log' \in [Keys -> SUBSET (Nat \X Nat)]
    BY <2>3, CallerTypes, ResetEffect
  <2>4. QED
    BY <2>1, <2>2, <2>3, StoreCases
<1>5. QED
  BY <1>3, <1>4, AttemptStep DEF TypeOK

(* Counters and histories stay finite. *)
LEMMA FiniteStep ==
  ASSUME TypeOK, FiniteInv, NumberInv, [Next]_vars
  PROVE  FiniteInv'
<1>1. CASE UNCHANGED <<fails, log>>
  BY <1>1 DEF FiniteInv
<1>2. ASSUME NEW a \in Attempts, recordFailure(KeyOf(a)) PROVE FiniteInv'
  <2> DEFINE k == KeyOf(a)
  <2>1. k \in Keys
    BY CallerTypes
  <2>2. ASSUME NEW c \in Counters PROVE IsFiniteSet(fails'[c])
    <3>1. IsFiniteSet(fails[c])
      BY DEF FiniteInv
    <3>2. CASE c[1] = k
      <4>1. fails'[c] = {m \in fails[c] : m[1] > now - c[2]} \cup {member(c)}
        BY <1>2, <2>1, <3>2, RecordEffect
      <4>2. IsFiniteSet({m \in fails[c] : m[1] > now - c[2]})
        BY <3>1, FS_Subset
      <4>3. QED
        BY <4>1, <4>2, FS_AddElement
    <3>3. CASE c[1] # k
      BY <1>2, <2>1, <3>1, <3>3, RecordEffect
    <3>4. QED
      BY <3>2, <3>3
  <2>3. ASSUME NEW j \in Keys PROVE IsFiniteSet(log'[j])
    <3>1. IsFiniteSet(log[j])
      BY DEF FiniteInv
    <3>2. CASE j = k
      <4>1. log'[j] = log[j] \cup {<<now, Cardinality(log[j]) + 1>>}
        BY <1>2, <2>1, <3>2, RecordEffect
      <4>2. QED
        BY <3>1, <4>1, FS_AddElement
    <3>3. CASE j # k
      BY <1>2, <2>1, <3>1, <3>3, RecordEffect
    <3>4. QED
      BY <3>2, <3>3
  <2>4. QED
    BY <2>2, <2>3 DEF FiniteInv
<1>3. ASSUME NEW a \in Attempts, Reset(who[a]) PROVE FiniteInv'
  <2>1. who[a] \in Callers
    BY CallerTypes
  <2>2. /\ \A c \in Counters : fails'[c] = {} \/ fails'[c] = fails[c]
        /\ \A j \in Keys : log'[j] = {} \/ log'[j] = log[j]
    BY <1>3, <2>1, ResetEffect
  <2>3. QED
    BY <2>2, FS_EmptySet DEF FiniteInv
<1>4. QED
  BY <1>1, <1>2, <1>3, StoreCases

(* Members and entries keep numbers of their own. *)
LEMMA NumberStep ==
  ASSUME TypeOK, FiniteInv, NumberInv, [Next]_vars
  PROVE  NumberInv'
<1>1. /\ now \in Nat
      /\ fails \in [Counters -> SUBSET (Nat \X Nat)]
      /\ log \in [Keys -> SUBSET (Nat \X Nat)]
  BY DEF TypeOK
<1>2. CASE UNCHANGED <<fails, log>> /\ (now' = now \/ now' = now + 1)
  <2>1. \A c \in Counters : \A m \in fails'[c] :
            m[1] <= now' /\ m[2] <= Cardinality({n \in fails'[c] : n[1] = m[1]})
    <3> SUFFICES ASSUME NEW c \in Counters, NEW m \in fails[c]
                 PROVE  m[1] <= now' /\ m[2] <= Cardinality({n \in fails[c] : n[1] = m[1]})
      BY <1>2
    <3>1. m[1] <= now /\ m[2] <= Cardinality({n \in fails[c] : n[1] = m[1]})
      BY DEF NumberInv
    <3>2. m[1] \in Nat
      BY <1>1
    <3>3. QED
      BY <1>1, <1>2, <3>1, <3>2
  <2>2. \A k \in Keys : \A g \in log'[k] : g[1] <= now' /\ g[2] <= Cardinality(log'[k])
    <3> SUFFICES ASSUME NEW k \in Keys, NEW g \in log[k]
                 PROVE  g[1] <= now' /\ g[2] <= Cardinality(log[k])
      BY <1>2
    <3>1. g[1] <= now /\ g[2] <= Cardinality(log[k])
      BY DEF NumberInv
    <3>2. g[1] \in Nat
      BY <1>1
    <3>3. QED
      BY <1>1, <1>2, <3>1, <3>2
  <2>3. QED
    BY <2>1, <2>2 DEF NumberInv
<1>3. ASSUME NEW a \in Attempts, recordFailure(KeyOf(a)), now' = now PROVE NumberInv'
  <2> DEFINE k == KeyOf(a)
  <2>1. k \in Keys
    BY CallerTypes
  <2>2. ASSUME NEW c \in Counters, NEW m \in fails'[c]
        PROVE  m[1] <= now /\ m[2] <= Cardinality({n \in fails'[c] : n[1] = m[1]})
    <3> DEFINE Old(s) == {n \in fails[c] : n[1] = s}
               New(s) == {n \in fails'[c] : n[1] = s}
    <3>1. CASE c[1] # k
      <4>1. fails'[c] = fails[c]
        BY <1>3, <2>1, <3>1, RecordEffect
      <4>2. QED
        BY <2>2, <4>1 DEF NumberInv
    <3>2. CASE c[1] = k
      <4>1. /\ fails'[c] = {n \in fails[c] : n[1] > now - c[2]} \cup {member(c)}
            /\ member(c) \in Nat \X Nat
            /\ member(c)[1] = now
            /\ member(c)[2] = 1 + Cardinality(Old(now))
            /\ member(c) \notin fails[c]
        BY <1>3, <2>1, <3>2, RecordEffect
      <4>2. c[2] \in Nat \ {0} /\ fails[c] \in SUBSET (Nat \X Nat) /\ IsFiniteSet(fails[c])
        <5>1. c[2] \in Nat \ {0}
          BY CounterTypes, Zenon
        <5>2. QED
          BY <1>1, <5>1 DEF FiniteInv
      <4>3. IsFiniteSet(New(m[1]))
        <5>1. IsFiniteSet({n \in fails[c] : n[1] > now - c[2]})
          BY <4>2, FS_Subset
        <5>2. IsFiniteSet(fails'[c])
          BY <4>1, <5>1, FS_AddElement
        <5>3. QED
          BY <5>2, FS_Subset
      <4>4. CASE m = member(c)
        <5>1. New(now) = Old(now) \cup {member(c)}
          BY <1>1, <4>1, <4>2
        <5>2. IsFiniteSet(Old(now)) /\ member(c) \notin Old(now)
          BY <4>1, <4>2, FS_Subset
        <5>3. Cardinality(New(now)) = Cardinality(Old(now)) + 1 /\ Cardinality(Old(now)) \in Nat
          <6> HIDE DEF Old, New
          <6>1. QED
            BY <5>1, <5>2, FS_AddElement, FS_CardinalityType
        <5>4. m[1] = now /\ m[2] = 1 + Cardinality(Old(now))
          BY <4>1, <4>4
        <5> HIDE DEF Old
        <5>5. m[2] <= Cardinality(New(m[1]))
          <6> HIDE DEF New
          <6>1. QED
            BY <5>3, <5>4
        <5>6. QED
          BY <1>1, <5>4, <5>5
      <4>5. CASE m \in fails[c] /\ m[1] > now - c[2]
        <5>1. m[1] <= now /\ m[2] <= Cardinality(Old(m[1])) /\ m[1] \in Nat /\ m[2] \in Nat
          BY <4>2, <4>5 DEF NumberInv
        <5>2. Old(m[1]) \in SUBSET New(m[1])
          BY <4>1, <4>5
        <5>3. Cardinality(Old(m[1])) <= Cardinality(New(m[1]))
              /\ Cardinality(Old(m[1])) \in Nat /\ Cardinality(New(m[1])) \in Nat
          <6> HIDE DEF Old, New
          <6>1. QED
            BY <4>3, <5>2, FS_Subset, FS_CardinalityType
        <5>4. m[2] <= Cardinality(New(m[1]))
          <6> HIDE DEF Old, New
          <6>1. QED
            BY <5>1, <5>3
        <5>5. QED
          BY <5>1, <5>4
      <4>6. QED
        BY <2>2, <4>1, <4>4, <4>5
    <3>3. QED
      BY <3>1, <3>2
  <2>3. ASSUME NEW j \in Keys, NEW g \in log'[j] PROVE g[1] <= now /\ g[2] <= Cardinality(log'[j])
    <3>1. IsFiniteSet(log[j]) /\ Cardinality(log[j]) \in Nat /\ log[j] \in SUBSET (Nat \X Nat)
      BY <1>1, FS_CardinalityType DEF FiniteInv
    <3>2. CASE j # k
      <4>1. log'[j] = log[j]
        BY <1>3, <2>1, <3>2, RecordEffect
      <4>2. QED
        BY <2>3, <4>1 DEF NumberInv
    <3>3. CASE j = k
      <4> DEFINE e == <<now, Cardinality(log[j]) + 1>>
      <4>1. log'[j] = log[j] \cup {e} /\ e \notin log[j]
        BY <1>3, <2>1, <3>3, RecordEffect
      <4>2. e[1] = now /\ e[2] = Cardinality(log[j]) + 1
        OBVIOUS
      <4> HIDE DEF e
      <4>3. Cardinality(log'[j]) = Cardinality(log[j]) + 1
        BY <3>1, <4>1, FS_AddElement
      <4>4. CASE g = e
        BY <1>1, <3>1, <4>2, <4>3, <4>4
      <4>5. CASE g \in log[j]
        <5>1. g[1] <= now /\ g[2] <= Cardinality(log[j]) /\ g[2] \in Nat
          BY <3>1, <4>5 DEF NumberInv
        <5>2. QED
          BY <3>1, <4>3, <5>1
      <4>6. QED
        BY <2>3, <4>1, <4>4, <4>5
    <3>4. QED
      BY <3>2, <3>3
  <2>4. QED
    BY <1>3, <2>2, <2>3 DEF NumberInv
<1>4. ASSUME NEW a \in Attempts, Reset(who[a]), now' = now PROVE NumberInv'
  <2>1. who[a] \in Callers
    BY CallerTypes
  <2>2. /\ \A c \in Counters : fails'[c] = {} \/ fails'[c] = fails[c]
        /\ \A j \in Keys : log'[j] = {} \/ log'[j] = log[j]
    BY <1>4, <2>1, ResetEffect
  <2>3. QED
    BY <1>4, <2>2 DEF NumberInv
<1>5. QED
  BY <1>2, <1>3, <1>4, StoreCases

(* Counters and histories keep the same number of members, however far     *)
(* back in the window one looks.                                           *)
LEMMA MatchStep ==
  ASSUME TypeOK, FiniteInv, NumberInv, MatchInv, [Next]_vars
  PROVE  MatchInv'
<1>1. /\ now \in Nat
      /\ fails \in [Counters -> SUBSET (Nat \X Nat)]
      /\ log \in [Keys -> SUBSET (Nat \X Nat)]
  BY DEF TypeOK
<1> DEFINE Match(k, w, x) == Cardinality({m \in fails'[<<k, w>>] : m[1] > x})
                                = Cardinality({g \in log'[k] : g[1] > x})
<1> SUFFICES ASSUME NEW k \in Keys, NEW t \in Tiers[k], NEW x \in (now' - t.window) .. now'
             PROVE  Match(k, t.window, x)
  BY DEF MatchInv
<1>2. t.window \in Nat \ {0} /\ <<k, t.window>> \in Counters
  BY CounterTypes, Zenon
<1> DEFINE c == <<k, t.window>>
<1>3. c \in Counters /\ c[1] = k /\ c[2] = t.window
  BY <1>2
<1>4. ASSUME NEW y \in (now - t.window) .. now
      PROVE  Cardinality({m \in fails[c] : m[1] > y}) = Cardinality({g \in log[k] : g[1] > y})
  BY DEF MatchInv
<1>5. fails[c] \in SUBSET (Nat \X Nat) /\ log[k] \in SUBSET (Nat \X Nat)
      /\ IsFiniteSet(fails[c]) /\ IsFiniteSet(log[k])
  BY <1>1, <1>3 DEF FiniteInv
<1>6. \A m \in fails[c] : m[1] <= now
  BY <1>3 DEF NumberInv
<1>7. \A g \in log[k] : g[1] <= now
  BY DEF NumberInv
<1> HIDE DEF c
<1>8. CASE UNCHANGED <<fails, log>> /\ now' = now
  <2>1. x \in (now - t.window) .. now
    BY <1>8
  <2>2. QED
    BY <1>4, <1>8, <2>1 DEF c
<1>9. CASE UNCHANGED <<fails, log>> /\ now' = now + 1
  <2>1. CASE x <= now
    <3>1. x \in (now - t.window) .. now
      BY <1>1, <1>2, <1>9, <2>1
    <3>2. QED
      BY <1>4, <1>9, <3>1 DEF c
  <2>2. CASE x > now
    <3>1. {m \in fails[c] : m[1] > x} = {} /\ {g \in log[k] : g[1] > x} = {}
      BY <1>1, <1>2, <1>5, <1>6, <1>7, <1>9, <2>2
    <3>2. QED
      BY <1>9, <3>1 DEF c
  <2>3. QED
    BY <1>1, <1>2, <1>9, <2>1, <2>2
<1>10. ASSUME NEW a \in Attempts, recordFailure(KeyOf(a)), now' = now
       PROVE  Match(k, t.window, x)
  <2>1. x \in (now - t.window) .. now /\ x \in Int
    BY <1>1, <1>2, <1>10
  <2>2. KeyOf(a) \in Keys
    BY CallerTypes
  <2>3. CASE KeyOf(a) # k
    <3>1. fails'[c] = fails[c] /\ log'[k] = log[k]
      BY <1>3, <1>10, <2>2, <2>3, RecordEffect
    <3>2. QED
      BY <1>4, <2>1, <3>1 DEF c
  <2>4. CASE KeyOf(a) = k
    <3> DEFINE e == <<now, Cardinality(log[k]) + 1>>
               P == {m \in fails[c] : m[1] > x}
               Q == {g \in log[k] : g[1] > x}
    <3>1. /\ fails'[c] = {m \in fails[c] : m[1] > now - t.window} \cup {member(c)}
          /\ member(c)[1] = now
          /\ member(c) \notin fails[c]
      <4>1. c[1] = KeyOf(a)
        BY <1>3, <2>4
      <4>2. /\ fails'[c] = {m \in fails[c] : m[1] > now - c[2]} \cup {member(c)}
            /\ member(c)[1] = now
            /\ member(c) \notin fails[c]
        BY <1>3, <1>10, <2>2, <4>1, RecordEffect
      <4>3. QED
        BY <1>3, <4>2
    <3>2. log'[k] = log[k] \cup {e} /\ e \notin log[k] /\ e[1] = now
      BY <1>10, <2>2, <2>4, RecordEffect
    <3>3. Cardinality(P) = Cardinality(Q) /\ IsFiniteSet(P) /\ IsFiniteSet(Q)
      BY <1>4, <1>5, <2>1, FS_Subset
    <3> HIDE DEF e
    <3>4. CASE x < now
      <4>1. {m \in fails'[c] : m[1] > x} = P \cup {member(c)} /\ member(c) \notin P
        BY <1>1, <1>2, <1>5, <2>1, <3>1, <3>4
      <4>2. {g \in log'[k] : g[1] > x} = Q \cup {e} /\ e \notin Q
        BY <1>1, <1>5, <2>1, <3>2, <3>4
      <4> HIDE DEF P, Q
      <4>3. Cardinality(P \cup {member(c)}) = Cardinality(P) + 1
        BY <3>3, <4>1, FS_AddElement
      <4>4. Cardinality(Q \cup {e}) = Cardinality(Q) + 1
        BY <3>3, <4>2, FS_AddElement
      <4>5. QED
        BY <3>3, <4>1, <4>2, <4>3, <4>4 DEF c
    <3>5. CASE x = now
      <4>1. {m \in fails'[c] : m[1] > x} = P
        BY <1>1, <1>2, <1>5, <3>1, <3>5
      <4>2. {g \in log'[k] : g[1] > x} = Q
        BY <1>1, <1>5, <3>2, <3>5
      <4>3. QED
        BY <3>3, <4>1, <4>2 DEF c
    <3>6. QED
      BY <1>1, <1>2, <2>1, <3>4, <3>5
  <2>5. QED
    BY <2>3, <2>4
<1>11. ASSUME NEW a \in Attempts, Reset(who[a]), now' = now
       PROVE  Match(k, t.window, x)
  <2>1. x \in (now - t.window) .. now
    BY <1>11
  <2>2. who[a] \in Callers
    BY CallerTypes
  <2>3. CASE k = who[a].account
    <3>1. fails'[c] = {} /\ log'[k] = {}
      BY <1>3, <1>11, <2>2, <2>3, ResetEffect
    <3>2. {m \in fails'[c] : m[1] > x} = {} /\ {g \in log'[k] : g[1] > x} = {}
      BY <3>1
    <3>3. QED
      BY <3>2 DEF c
  <2>4. CASE k # who[a].account
    <3>1. fails'[c] = fails[c] /\ log'[k] = log[k]
      BY <1>3, <1>11, <2>2, <2>4, ResetEffect
    <3>2. QED
      BY <1>4, <2>1, <3>1 DEF c
  <2>5. QED
    BY <2>3, <2>4
<1>12. QED
  BY <1>8, <1>9, <1>10, <1>11, StoreCases
-----------------------------------------------------------------------------
(* The other attempts keep their place. *)
Others(a) == \A b \in Attempts \ {a} :
    pc'[b] = pc[b] /\ who'[b] = who[b] /\ turn'[b] = turn[b] /\ wait'[b] = wait[b]

(* A login comes to owe a key a failure only by finding room in its bucket. *)
LEMMA PendingStep ==
  ASSUME TypeOK, FiniteInv, TurnInv, [Next]_vars, NEW k \in Keys
  PROVE  Pending(k)' \subseteq Pending(k) \/ (UNCHANGED <<now, fails, log>> /\ FullTiersAt(k, now) = {})
<1> DEFINE Fewer == Pending(k)' \subseteq Pending(k)
<1>1. /\ pc \in [Attempts -> {"idle", "check", "verify", "record", "reset"}]
      /\ who \in [Attempts -> Callers]
      /\ turn \in [Attempts -> 1 .. 3]
      /\ wait \in [Attempts -> Nat]
  BY DEF TypeOK
<1>2. Rank(k) \in 1 .. 3
  BY DEF Rank
<1>3. ASSUME NEW a \in Attempts, Others(a), a \in Pending(k)' => a \in Pending(k) PROVE Fewer
  <2> SUFFICES ASSUME NEW b \in Attempts, b \in Pending(k)', b # a PROVE b \in Pending(k)
    BY <1>3 DEF Pending
  <2>1. pc'[b] = pc[b] /\ who'[b] = who[b] /\ turn'[b] = turn[b] /\ wait'[b] = wait[b]
    BY <1>3 DEF Others
  <2>2. QED
    BY <2>1 DEF Pending
<1>4. ASSUME NEW a \in Attempts, NEW w, Leave(a, w) PROVE Fewer
  <2>1. Others(a) /\ pc'[a] = "idle"
    BY <1>1, <1>4 DEF Leave, Others
  <2>2. QED
    BY <1>3, <2>1 DEF Pending
<1>5. ASSUME NEW a \in Attempts, NEW l, NEW i, NEW w, Goto(a, l, i, w)
      PROVE  Others(a) /\ pc'[a] = l /\ turn'[a] = i /\ wait'[a] = w /\ who'[a] = who[a]
  BY <1>1, <1>5 DEF Goto, Others
<1>6. ASSUME UNCHANGED attempt PROVE Fewer
  BY <1>6 DEF attempt, Pending
<1>7. ASSUME NEW a \in Attempts, NEW caller \in Callers, Login(a, caller) PROVE Fewer
  <2>1. Others(a) /\ pc'[a] = "check" /\ turn'[a] = turn[a] /\ turn[a] = 1
    BY <1>1, <1>7 DEF Login, Others, TurnInv
  <2>2. a \notin Pending(k)'
    BY <1>2, <2>1 DEF Pending
  <2>3. QED
    BY <1>3, <2>1, <2>2
<1>8. ASSUME NEW a \in Attempts, Authenticate(a) PROVE Fewer
  <2>1. pc[a] = "verify" /\ (Goto(a, "record", 1, 0) \/ Goto(a, "reset", 1, 0) \/ Leave(a, 0))
    BY <1>8 DEF Authenticate
  <2>2. CASE Goto(a, "record", 1, 0)
    <3>1. Others(a) /\ who'[a] = who[a]
      BY <1>5, <2>2
    <3>2. a \in Pending(k)' => a \in Pending(k)
      BY <2>1, <3>1 DEF Pending
    <3>3. QED
      BY <1>3, <3>1, <3>2
  <2>3. CASE Goto(a, "reset", 1, 0)
    <3>1. Others(a) /\ pc'[a] = "reset"
      BY <1>5, <2>3
    <3>2. a \notin Pending(k)'
      BY <3>1 DEF Pending
    <3>3. QED
      BY <1>3, <3>1, <3>2
  <2>4. QED
    BY <1>4, <2>1, <2>2, <2>3
<1>9. ASSUME NEW a \in Attempts, RecordFailure(a) PROVE Fewer
  <2>1. pc[a] = "record" /\ (Goto(a, "record", turn[a] + 1, 0) \/ Leave(a, 0))
    BY <1>9 DEF RecordFailure
  <2>2. CASE Goto(a, "record", turn[a] + 1, 0)
    <3>1. Others(a) /\ pc'[a] = "record" /\ turn'[a] = turn[a] + 1 /\ who'[a] = who[a]
      BY <1>5, <2>2
    <3>2. turn[a] \in 1 .. 3
      BY <1>1
    <3>3. a \in Pending(k)' => a \in Pending(k)
      BY <1>2, <2>1, <3>1, <3>2 DEF Pending
    <3>4. QED
      BY <1>3, <3>1, <3>3
  <2>3. QED
    BY <1>4, <2>1, <2>2
<1>10. ASSUME NEW a \in Attempts, Succeeded(a) PROVE Fewer
  BY <1>4, <1>10 DEF Succeeded
<1>11. ASSUME NEW a \in Attempts, Check(a)
       PROVE  Fewer \/ (UNCHANGED <<now, fails, log>> /\ FullTiersAt(k, now) = {})
  <2> DEFINE c == countFailures(KeyOf(a))
             longest == Longest({wait[a], c})
  <2>1. c \in Nat /\ (c = 0 => FullTiersAt(KeyOf(a), now) = {})
    BY CallerTypes, CountFailuresMax
  <2>2. turn[a] \in 1 .. 3 /\ wait[a] \in Nat /\ bucketsFor(who[a])[turn[a]] = KeyOf(a)
    BY <1>1, CallerTypes
  <2>3. longest \in Nat /\ (longest = 0 => wait[a] = 0 /\ c = 0)
    <3> HIDE DEF c
    <3>1. wait[a] \in Int /\ c \in Int
      BY <2>1, <2>2
    <3>2. longest \in {wait[a], c} /\ wait[a] <= longest /\ c <= longest
      BY <3>1, LongestOfTwo, Zenon
    <3>3. QED
      BY <2>1, <2>2, <3>2
  <2>4. /\ pc[a] = "check"
        /\ UNCHANGED <<now, fails, log>>
        /\ \/ turn[a] < 3 /\ Goto(a, "check", turn[a] + 1, longest)
           \/ turn[a] = 3 /\ longest = 0 /\ Goto(a, "verify", 1, 0)
           \/ Leave(a, longest)
           \/ Leave(a, 0)
    BY <1>11 DEF Check
  <2> HIDE DEF longest, c
  <2>5. CASE turn[a] < 3 /\ Goto(a, "check", turn[a] + 1, longest)
    <3>1. Others(a) /\ pc'[a] = "check" /\ turn'[a] = turn[a] + 1 /\ wait'[a] = longest /\ who'[a] = who[a]
      BY <1>5, <2>5
    <3>2. CASE KeyOf(a) = k /\ longest = 0
      BY <2>1, <2>3, <2>4, <3>2
    <3>3. CASE KeyOf(a) # k \/ longest # 0
      <4>1. ASSUME a \in Pending(k)' PROVE a \in Pending(k)
        <5>1. bucketsFor(who[a])[Rank(k)] = k /\ turn[a] + 1 > Rank(k) /\ longest = 0
          BY <3>1, <4>1 DEF Pending
        <5>2. turn[a] # Rank(k)
          BY <2>2, <3>3, <5>1
        <5>3. turn[a] > Rank(k)
          BY <1>2, <2>2, <5>1, <5>2
        <5>4. QED
          BY <2>3, <2>4, <5>1, <5>3 DEF Pending
      <4>2. QED
        BY <1>3, <3>1, <4>1
    <3>4. QED
      BY <3>2, <3>3
  <2>6. CASE turn[a] = 3 /\ longest = 0 /\ Goto(a, "verify", 1, 0)
    <3>1. Others(a) /\ who'[a] = who[a]
      BY <1>5, <2>6
    <3>2. CASE KeyOf(a) = k
      BY <2>1, <2>3, <2>4, <2>6, <3>2
    <3>3. CASE KeyOf(a) # k
      <4>1. ASSUME a \in Pending(k)' PROVE a \in Pending(k)
        <5>1. bucketsFor(who[a])[Rank(k)] = k
          BY <3>1, <4>1 DEF Pending
        <5>2. turn[a] # Rank(k)
          BY <2>2, <3>3, <5>1
        <5>3. turn[a] > Rank(k)
          BY <1>2, <2>6, <5>2
        <5>4. QED
          BY <2>3, <2>4, <2>6, <5>1, <5>3 DEF Pending
      <4>2. QED
        BY <1>3, <3>1, <4>1
    <3>4. QED
      BY <3>2, <3>3
  <2>7. QED
    BY <1>4, <2>4, <2>5, <2>6
<1>12. QED
  <2>1. \/ \E a \in Attempts :
              \/ \E caller \in Callers : Login(a, caller)
              \/ Check(a) \/ Authenticate(a) \/ RecordFailure(a) \/ Succeeded(a)
        \/ UNCHANGED attempt
    BY DEF Next, Tick, Terminated, vars
  <2> HIDE DEF Fewer
  <2>2. Fewer \/ (UNCHANGED <<now, fails, log>> /\ FullTiersAt(k, now) = {})
    BY <1>6, <1>7, <1>8, <1>9, <1>10, <1>11, <2>1
  <2>3. QED
    BY <2>2 DEF Fewer

(* A login that records a failure owed it, and owes it no longer. *)
LEMMA DebtPaid ==
  ASSUME TypeOK, NEW a \in Attempts, RecordFailure(a), NEW k \in Keys, KeyOf(a) = k
  PROVE  a \in Pending(k) /\ a \notin Pending(k)'
<1>1. turn[a] \in 1 .. 3 /\ Rank(k) = turn[a] /\ bucketsFor(who[a])[turn[a]] = k
  BY CallerTypes
<1>2. pc[a] = "record"
  BY DEF RecordFailure
<1>3. a \in Pending(k)
  BY <1>1, <1>2 DEF Pending
<1>4. pc'[a] = "idle" \/ (pc'[a] = "record" /\ turn'[a] = turn[a] + 1)
  BY DEF RecordFailure, Goto, Leave, TypeOK
<1>5. a \notin Pending(k)'
  BY <1>1, <1>4 DEF Pending, Rank
<1>6. QED
  BY <1>3, <1>5

(* The failures counted over the window that ends now are the ones the     *)
(* counter holds, and they are finitely many.                              *)
LEMMA CountedIsAlive ==
  ASSUME TypeOK, FiniteInv, NumberInv, MatchInv, NEW k \in Keys, NEW t \in Tiers[k]
  PROVE  /\ Cardinality(AliveAt(k, t.window, now)) = Cardinality(Counted(k, t.window, now))
         /\ IsFiniteSet(Counted(k, t.window, now))
         /\ Cardinality(Counted(k, t.window, now)) \in Nat
<1>1. now \in Nat /\ t.window \in Nat \ {0} /\ t.limit \in Nat \ {0}
  BY CounterTypes DEF TypeOK
<1>2. log[k] \in SUBSET (Nat \X Nat) /\ IsFiniteSet(log[k])
  BY DEF TypeOK, FiniteInv
<1>3. Counted(k, t.window, now) = {g \in log[k] : g[1] > now - t.window}
  BY <1>1, <1>2 DEF Counted, NumberInv
<1>4. now - t.window \in (now - t.window) .. now
  BY <1>1
<1>5. Cardinality(AliveAt(k, t.window, now)) = Cardinality({g \in log[k] : g[1] > now - t.window})
  BY <1>4 DEF MatchInv, AliveAt
<1>6. IsFiniteSet(Counted(k, t.window, now))
  BY <1>2, <1>3, FS_Subset
<1>7. QED
  BY <1>3, <1>5, <1>6, FS_CardinalityType

(* What is counted over a window and what is still owed stay below the     *)
(* limit and the logins in flight.                                         *)
LEMMA SlackStep ==
  ASSUME TypeOK, FiniteInv, NumberInv, MatchInv, TurnInv, SlackInv, [Next]_vars
  PROVE  SlackInv'
<1> SUFFICES ASSUME NEW k \in Keys, NEW t \in Tiers[k]
             PROVE  Cardinality(Counted(k, t.window, now)') + Cardinality(Pending(k)')
                        < t.limit + Cardinality(Attempts)
  BY DEF SlackInv
<1> DEFINE C == Counted(k, t.window, now)
           D == Counted(k, t.window, now)'
           P == Pending(k)
           Q == Pending(k)'
           N == Cardinality(Attempts)
<1>1. now \in Nat /\ t.window \in Nat \ {0} /\ t.limit \in Nat \ {0}
      /\ log[k] \in SUBSET (Nat \X Nat) /\ IsFiniteSet(log[k])
  <2>1. t.window \in Nat \ {0} /\ t.limit \in Nat \ {0}
    BY CounterTypes, Zenon
  <2>2. QED
    BY <2>1 DEF TypeOK, FiniteInv
<1>2. IsFiniteSet(Attempts) /\ N \in Nat
  BY AttemptsAssumption, FS_CardinalityType
<1>3. IsFiniteSet(P) /\ Cardinality(P) \in Nat /\ IsFiniteSet(Q) /\ Cardinality(Q) \in Nat /\ Cardinality(Q) <= N
  <2>1. P \in SUBSET Attempts /\ Q \in SUBSET Attempts
    BY DEF Pending
  <2> HIDE DEF P, Q
  <2>2. QED
    BY <1>2, <2>1, FS_Subset, FS_CardinalityType
<1>4. IsFiniteSet(C) /\ Cardinality(C) \in Nat /\ Cardinality(C) = Cardinality(AliveAt(k, t.window, now))
  BY CountedIsAlive
<1>5. Cardinality(C) + Cardinality(P) < t.limit + N
  BY DEF SlackInv
<1>6. \A g \in log[k] : g[1] \in Nat /\ g[1] <= now
  BY <1>1 DEF NumberInv
<1> HIDE DEF P, Q, N
<1>7. ASSUME D \in SUBSET C, Q \in SUBSET P PROVE Cardinality(D) + Cardinality(Q) < t.limit + N
  <2> HIDE DEF C, D
  <2>1. Cardinality(D) <= Cardinality(C) /\ Cardinality(D) \in Nat /\ Cardinality(Q) <= Cardinality(P)
    BY <1>3, <1>4, <1>7, FS_Subset, FS_CardinalityType
  <2>2. QED
    BY <1>1, <1>2, <1>3, <1>4, <1>5, <2>1
<1>8. CASE UNCHANGED <<now, fails, log>> /\ FullTiersAt(k, now) = {}
  <2>1. D = C
    BY <1>8 DEF Counted
  <2>2. ~(Cardinality(AliveAt(k, t.window, now)) >= t.limit)
    BY <1>8 DEF FullTiersAt
  <2> HIDE DEF C, D
  <2>3. Cardinality(C) <= t.limit - 1
    BY <1>1, <1>4, <2>2
  <2>4. Cardinality(D) + Cardinality(Q) < t.limit + N
    BY <1>1, <1>2, <1>3, <1>4, <2>1, <2>3
  <2>5. QED
    BY <2>4 DEF D, Q, N
<1>9. CASE Q \in SUBSET P
  <2>1. CASE now' = now /\ UNCHANGED <<fails, log>>
    <3>1. D \in SUBSET C
      BY <2>1 DEF Counted
    <3>2. QED
      BY <1>7, <1>9, <3>1 DEF Q, N
  <2>2. CASE now' = now + 1 /\ UNCHANGED <<fails, log>>
    <3>1. D \in SUBSET C
      BY <1>1, <1>6, <2>2 DEF Counted
    <3>2. QED
      BY <1>7, <1>9, <3>1 DEF Q, N
  <2>3. ASSUME NEW a \in Attempts, RecordFailure(a), recordFailure(KeyOf(a)), now' = now
        PROVE  Cardinality(D) + Cardinality(Q) < t.limit + N
    <3>1. KeyOf(a) \in Keys
      BY CallerTypes
    <3>2. CASE KeyOf(a) # k
      <4>1. log'[k] = log[k]
        BY <2>3, <3>1, <3>2, RecordEffect
      <4>2. D \in SUBSET C
        BY <2>3, <4>1 DEF Counted
      <4>3. QED
        BY <1>7, <1>9, <4>2
    <3>3. CASE KeyOf(a) = k
      <4> DEFINE e == <<now, Cardinality(log[k]) + 1>>
      <4>1. log'[k] = log[k] \cup {e}
        BY <2>3, <3>1, <3>3, RecordEffect
      <4> HIDE DEF e
      <4>2. D \in SUBSET (C \cup {e})
        BY <2>3, <4>1 DEF Counted
      <4>3. a \in P /\ a \notin Q
        BY <2>3, <3>3, DebtPaid DEF P, Q
      <4>4. Q \in SUBSET (P \ {a})
        BY <1>9, <4>3
      <4> HIDE DEF C, D
      <4>5. Cardinality(D) <= Cardinality(C) + 1 /\ Cardinality(D) \in Nat
        <5>1. IsFiniteSet(C \cup {e}) /\ Cardinality(C \cup {e}) <= Cardinality(C) + 1
              /\ Cardinality(C \cup {e}) \in Nat
          <6>1. IsFiniteSet(C \cup {e})
                /\ Cardinality(C \cup {e}) = IF e \in C THEN Cardinality(C) ELSE Cardinality(C) + 1
            BY <1>4, FS_AddElement
          <6>2. QED
            BY <1>4, <6>1
        <5>2. QED
          BY <1>4, <4>2, <5>1, FS_Subset, FS_CardinalityType
      <4>6. Cardinality(Q) <= Cardinality(P) - 1
        <5>1. IsFiniteSet(P \ {a}) /\ Cardinality(P \ {a}) = Cardinality(P) - 1
          BY <1>3, <4>3, FS_RemoveElement
        <5>2. QED
          BY <4>4, <5>1, FS_Subset
      <4>7. QED
        BY <1>1, <1>2, <1>3, <1>4, <1>5, <4>5, <4>6
    <3>4. QED
      BY <3>2, <3>3
  <2>4. ASSUME NEW a \in Attempts, Reset(who[a]), now' = now
        PROVE  Cardinality(D) + Cardinality(Q) < t.limit + N
    <3>1. who[a] \in Callers
      BY CallerTypes
    <3>2. log'[k] = {} \/ log'[k] = log[k]
      BY <2>4, <3>1, ResetEffect
    <3>3. D \in SUBSET C
      BY <2>4, <3>2 DEF Counted
    <3>4. QED
      BY <1>7, <1>9, <3>3
  <2>5. QED
    <3> HIDE DEF C, D
    <3>1. Cardinality(D) + Cardinality(Q) < t.limit + N
      BY <2>1, <2>2, <2>3, <2>4, StoreCases DEF D, Q, N
    <3>2. QED
      BY <3>1 DEF D, Q, N
<1>10. QED
  BY <1>8, <1>9, PendingStep DEF P, Q

(* A window that ended in the past gets no new failures, and the one that  *)
(* ends now is covered by SlackInv.                                        *)
LEMMA GuessesStep ==
  ASSUME TypeOK, FiniteInv, NumberInv, GuessesBounded, [Next]_vars,
         TypeOK', FiniteInv', SlackInv'
  PROVE  GuessesBounded'
<1> SUFFICES ASSUME NEW k \in Keys, NEW t \in Tiers[k], NEW e \in 0 .. now'
             PROVE  Cardinality(Counted(k, t.window, e)') < t.limit + Cardinality(Attempts)
  BY DEF GuessesBounded
<1>1. now \in Nat /\ now' \in Nat /\ t.window \in Nat \ {0} /\ t.limit \in Nat \ {0}
  <2>1. t.window \in Nat \ {0} /\ t.limit \in Nat \ {0}
    BY CounterTypes, Zenon
  <2>2. QED
    BY <2>1 DEF TypeOK
<1>2. Cardinality(Attempts) \in Nat
  BY AttemptsAssumption, FS_CardinalityType
<1>3. CASE e = now'
  <2> DEFINE D == Counted(k, t.window, e)'
             Q == Pending(k)'
  <2>1. IsFiniteSet(D) /\ Cardinality(D) \in Nat
    <3>1. D \in SUBSET log'[k] /\ IsFiniteSet(log'[k])
      BY DEF Counted, FiniteInv
    <3>2. QED
      BY <3>1, FS_Subset, FS_CardinalityType
  <2>2. Cardinality(Q) \in Nat
    <3>1. Q \in SUBSET Attempts
      BY DEF Pending
    <3>2. QED
      BY <3>1, AttemptsAssumption, FS_Subset, FS_CardinalityType
  <2>3. Cardinality(D) + Cardinality(Q) < t.limit + Cardinality(Attempts)
    BY <1>3 DEF SlackInv, Counted
  <2> HIDE DEF D, Q
  <2>4. Cardinality(D) < t.limit + Cardinality(Attempts)
    BY <1>1, <1>2, <2>1, <2>2, <2>3
  <2>5. QED
    BY <2>4 DEF D
<1>4. CASE e < now'
  <2> DEFINE C == Counted(k, t.window, e)
             D == Counted(k, t.window, e)'
  <2>1. e \in 0 .. now
    BY <1>1, <1>4, StoreCases
  <2>2. Cardinality(C) < t.limit + Cardinality(Attempts)
    BY <2>1 DEF GuessesBounded
  <2>3. IsFiniteSet(C) /\ Cardinality(C) \in Nat
    <3>1. C \in SUBSET log[k] /\ IsFiniteSet(log[k])
      BY DEF Counted, FiniteInv
    <3>2. QED
      BY <3>1, FS_Subset, FS_CardinalityType
  <2>4. D \in SUBSET C
    <3>1. CASE UNCHANGED log
      BY <3>1 DEF Counted
    <3>2. ASSUME NEW a \in Attempts, recordFailure(KeyOf(a)), now' = now PROVE D \in SUBSET C
      <4>1. KeyOf(a) \in Keys
        BY CallerTypes
      <4>2. CASE KeyOf(a) # k
        <5>1. log'[k] = log[k]
          BY <3>2, <4>1, <4>2, RecordEffect
        <5>2. QED
          BY <5>1 DEF Counted
      <4>3. CASE KeyOf(a) = k
        <5> DEFINE g == <<now, Cardinality(log[k]) + 1>>
        <5>1. log'[k] = log[k] \cup {g} /\ g[1] = now
          BY <3>2, <4>1, <4>3, RecordEffect
        <5> HIDE DEF g
        <5>2. ~(now <= e)
          BY <1>1, <1>4, <3>2
        <5>3. QED
          BY <5>1, <5>2 DEF Counted
      <4>4. QED
        BY <4>2, <4>3
    <3>3. ASSUME NEW a \in Attempts, Reset(who[a]), now' = now PROVE D \in SUBSET C
      <4>1. log'[k] = {} \/ log'[k] = log[k]
        BY <3>3, CallerTypes, ResetEffect
      <4>2. QED
        BY <4>1 DEF Counted
    <3>4. QED
      <4> HIDE DEF C, D
      <4>1. QED
        BY <3>1, <3>2, <3>3, StoreCases
  <2> HIDE DEF C, D
  <2>5. Cardinality(D) <= Cardinality(C) /\ Cardinality(D) \in Nat
    BY <2>3, <2>4, FS_Subset, FS_CardinalityType
  <2>6. Cardinality(D) < t.limit + Cardinality(Attempts)
    BY <1>1, <1>2, <2>2, <2>3, <2>5
  <2>7. QED
    BY <2>6 DEF D
<1>5. QED
  BY <1>1, <1>3, <1>4
-----------------------------------------------------------------------------
(* The state before the first login. *)
LEMMA InitInv == Init => IInv
<1> SUFFICES ASSUME Init PROVE IInv
  OBVIOUS
<1>1. TypeOK
  <2>1. fails = [c \in Counters |-> {}] /\ log = [k \in Keys |-> {}]
    BY DEF Init
  <2>2. fails \in [Counters -> SUBSET (Nat \X Nat)] /\ log \in [Keys -> SUBSET (Nat \X Nat)]
    BY <2>1
  <2>3. QED
    BY <2>2, CallerTypes DEF Init, TypeOK
<1>2. (\A c \in Counters : fails[c] = {}) /\ \A k \in Keys : log[k] = {}
  BY DEF Init
<1>3. FiniteInv /\ NumberInv
  BY <1>2, FS_EmptySet DEF FiniteInv, NumberInv
<1>4. MatchInv
  <2> SUFFICES ASSUME NEW k \in Keys, NEW t \in Tiers[k], NEW x \in (now - t.window) .. now
               PROVE  Cardinality({m \in fails[<<k, t.window>>] : m[1] > x})
                        = Cardinality({g \in log[k] : g[1] > x})
    BY DEF MatchInv
  <2>1. <<k, t.window>> \in Counters
    BY CounterTypes, Zenon
  <2>2. {m \in fails[<<k, t.window>>] : m[1] > x} = {} /\ {g \in log[k] : g[1] > x} = {}
    BY <1>2, <2>1
  <2>3. QED
    BY <2>2
<1>5. TurnInv
  BY DEF Init, TurnInv
<1>6. \A k \in Keys : \A w, e : Cardinality(Counted(k, w, e)) = 0
  <2> SUFFICES ASSUME NEW k \in Keys, NEW w, NEW e PROVE Cardinality(Counted(k, w, e)) = 0
    OBVIOUS
  <2>1. Counted(k, w, e) = {}
    BY <1>2 DEF Counted
  <2>2. QED
    BY <2>1, FS_EmptySet
<1>7. \A k \in Keys : \A t \in Tiers[k] : t.limit \in Nat \ {0}
  BY CounterTypes, Zenon
<1>8. Cardinality(Attempts) \in Nat
  BY AttemptsAssumption, FS_CardinalityType
<1>9. GuessesBounded
  <2> SUFFICES ASSUME NEW k \in Keys, NEW t \in Tiers[k], NEW e \in 0 .. now
               PROVE  Cardinality(Counted(k, t.window, e)) < t.limit + Cardinality(Attempts)
    BY DEF GuessesBounded
  <2>1. Cardinality(Counted(k, t.window, e)) = 0 /\ t.limit \in Nat \ {0}
    BY <1>6, <1>7
  <2>2. QED
    BY <1>8, <2>1
<1>10. SlackInv
  <2> SUFFICES ASSUME NEW k \in Keys, NEW t \in Tiers[k]
               PROVE  Cardinality(Counted(k, t.window, now)) + Cardinality(Pending(k))
                         < t.limit + Cardinality(Attempts)
    BY DEF SlackInv
  <2>1. Cardinality(Counted(k, t.window, now)) = 0 /\ t.limit \in Nat \ {0}
    BY <1>6, <1>7
  <2>2. Pending(k) = {}
    BY DEF Init, Pending
  <2>3. Cardinality(Pending(k)) = 0
    BY <2>2, FS_EmptySet
  <2>4. QED
    BY <1>8, <2>1, <2>3
<1>11. QED
  BY <1>1, <1>3, <1>4, <1>5, <1>9, <1>10 DEF IInv

(* Every step of every login, and of the clock, preserves the invariant of *)
(* this module.                                                            *)
THEOREM Inductive == Spec => []IInv
<1>1. Init => IInv
  BY InitInv
<1>2. IInv /\ [Next]_vars => IInv'
  <2> SUFFICES ASSUME IInv, [Next]_vars PROVE IInv'
    OBVIOUS
  <2> USE DEF IInv
  <2>1. TypeOK'
    BY TypeStep
  <2>2. FiniteInv' /\ NumberInv' /\ MatchInv'
    BY FiniteStep, NumberStep, MatchStep
  <2>3. TurnInv'
    BY AttemptStep
  <2>4. SlackInv'
    BY SlackStep
  <2>5. GuessesBounded'
    BY <2>1, <2>2, <2>4, GuessesStep
  <2>6. QED
    BY <2>1, <2>2, <2>3, <2>4, <2>5
<1>3. QED
  BY <1>1, <1>2, PTL DEF Spec

(* Every variable of the login guard has its type in every reachable state. *)
THEOREM TypeCorrect == Spec => []TypeOK
<1>1. IInv => TypeOK
  BY DEF IInv
<1>2. QED
  BY <1>1, Inductive, PTL

(* LoginGuard.Check and RecordFailure are separate calls to Redis. However *)
(* many logins run between them, and wherever the window ends, fewer than  *)
(* limit + |Attempts| failures are counted against any account, address or *)
(* network over any tier's window.                                         *)
THEOREM OvershootBounded == Spec => []GuessesBounded
<1>1. IInv => GuessesBounded
  BY DEF IInv
<1>2. QED
  BY <1>1, Inductive, PTL

(* A key is refused by countFailures only when the failures recorded       *)
(* against it, since its last success, fill one of its tiers.              *)
THEOREM OnlyFailuresSpend == Spec => []SpentOnlyByFailures
<1>1. IInv => SpentOnlyByFailures
  <2> SUFFICES ASSUME IInv, NEW k \in Keys, FullTiersAt(k, now) # {}
               PROVE  \E t \in Tiers[k] : Cardinality(Counted(k, t.window, now)) >= t.limit
    BY DEF SpentOnlyByFailures
  <2>1. PICK t \in Tiers[k] : Cardinality(AliveAt(k, t.window, now)) >= t.limit
    BY DEF FullTiersAt
  <2>2. Cardinality(AliveAt(k, t.window, now)) = Cardinality(Counted(k, t.window, now))
    BY CountedIsAlive DEF IInv
  <2>3. QED
    BY <2>1, <2>2
<1>2. QED
  BY <1>1, Inductive, PTL

(* The Retry-After that WriteRateLimited writes from countFailures' wait   *)
(* is long enough: when it has passed with nothing counted, a key that was *)
(* not overfull has room in every tier.                                    *)
THEOREM WaitIsEnough == Spec => []RetryAfterHonest
<1>1. IInv => RetryAfterHonest
  <2> DEFINE later(k) == now + RetryAfter(countFailures(k))
  <2> SUFFICES ASSUME IInv, NEW k \in Keys,
                      \A t \in Tiers[k] : Cardinality(AliveAt(k, t.window, now)) <= t.limit,
                      NEW t \in Tiers[k],
                      Cardinality(AliveAt(k, t.window, later(k))) >= t.limit
               PROVE  FALSE
    BY DEF RetryAfterHonest, FullTiersAt
  <2> DEFINE A == AliveAt(k, t.window, now)
             B == AliveAt(k, t.window, later(k))
             r == RetryAfter(countFailures(k))
             c == countFailures(k)
  <2>1. TypeOK /\ FiniteInv
    BY DEF IInv
  <2>2. now \in Nat /\ t.window \in Nat \ {0} /\ t.limit \in Nat \ {0}
    <3>1. t.window \in Nat \ {0} /\ t.limit \in Nat \ {0}
      BY CounterTypes, Zenon
    <3>2. QED
      BY <2>1, <3>1 DEF TypeOK
  <2>3. c \in Nat /\ \A u \in FullTiersAt(k, now) : Retry(k, u.window) <= c
    BY <2>1, CountFailuresMax
  <2>4. r \in Nat /\ c <= r
    BY <2>3, RetryAfterEnough
  <2>5. later(k) = now + r
    OBVIOUS
  <2> HIDE DEF r, c, later
  <2>6. IsFiniteSet(A) /\ Cardinality(A) \in Nat /\ A \in SUBSET (Nat \X Nat)
    BY <2>1, <2>2, AliveFinite
  <2>7. B \in SUBSET A
    <3>1. fails[<<k, t.window>>] \in SUBSET (Nat \X Nat)
      BY <2>1, CounterTypes DEF TypeOK
    <3>2. \A s \in Nat : s > later(k) - t.window => s > now - t.window
      BY <2>2, <2>4, <2>5
    <3>3. QED
      BY <3>1, <3>2 DEF AliveAt
  <2>8. Cardinality(A) <= t.limit /\ Cardinality(B) >= t.limit
    OBVIOUS
  <2>9. A = B /\ Cardinality(A) >= t.limit
    <3> HIDE DEF A, B
    <3>1. Cardinality(B) <= Cardinality(A) /\ Cardinality(B) \in Nat
      BY <2>6, <2>7, FS_Subset, FS_CardinalityType
    <3>2. Cardinality(A) = Cardinality(B)
      BY <2>2, <2>6, <2>8, <3>1
    <3>3. QED
      BY <2>6, <2>7, <2>8, <3>2, FS_Subset
  <2>10. t \in FullTiersAt(k, now)
    BY <2>9 DEF FullTiersAt
  <2>11. PICK m \in A : Retry(k, t.window) = m[1] + t.window - now
    BY <2>1, <2>10, RetryOfOldest
  <2>12. m[1] \in Nat /\ m[1] + t.window - now <= c
    BY <2>3, <2>6, <2>10, <2>11
  <2>13. m \notin B
    <3>1. ~(m[1] > later(k) - t.window)
      BY <2>2, <2>3, <2>4, <2>5, <2>12
    <3>2. QED
      BY <3>1 DEF AliveAt
  <2>14. QED
    BY <2>9, <2>11, <2>13
<1>2. QED
  BY <1>1, Inductive, PTL
=============================================================================
