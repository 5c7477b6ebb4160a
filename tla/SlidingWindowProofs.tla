------------------------ MODULE SlidingWindowProofs ------------------------
(* Proofs about SlidingWindow, for any tiers, limits and windows, tiers    *)
(* that share a window included.                                           *)
EXTENDS SlidingWindow, FiniteSetTheorems, TLAPS

(* The members of a sorted set, and the hits that were admitted, after x. *)
MembersAfter(w, x) == {m \in HitsAt(w) : m[1] > x}
CountedAfter(x) == {h \in counted : h.at > x}

FiniteInv ==
    /\ \A w \in Windows : IsFiniteSet(hits[w])
    /\ IsFiniteSet(counted) /\ IsFiniteSet(served)

(* Nothing has happened in the future, and every member and every request  *)
(* has a number of its own.                                                *)
NumberInv ==
    /\ \A w \in Windows : \A m \in HitsAt(w) : m[1] <= now /\ m[2] <= SeqAt(w)
    /\ \A h \in counted \cup served :
           h.at <= now /\ h.id < Cardinality(counted \cup served)

(* A sorted set outlives the window of every hit that is in it. *)
LifeInv == \A h \in counted : \A w \in Windows : h.at + w <= dies[w]

(* Within its window, however far back one looks, a sorted set has as many *)
(* members for each hit that was admitted as there are tiers that share it. *)
MatchInv ==
    \A w \in Windows : \A x \in (now - w) .. now :
        Cardinality(MembersAfter(w, x)) = Copies(w) * Cardinality(CountedAfter(x))

(* Before the latest hit there was room for one. *)
SlackInv ==
    \A t \in Tiers :
        Copies(Window[t]) * Cardinality(CountedAfter(now - Window[t]))
            < Limit[t] + Copies(Window[t])

(* A limiter that fails closed passes on only what it has counted. *)
ClosedInv == ~failOpen => served \subseteq counted

(* When a refused caller may come back, every tier will have room. *)
PromiseInv ==
    \A p \in promises : \A t \in Tiers :
        Cardinality(MembersAfter(Window[t], p - Window[t])) < Limit[t]

IInv ==
    /\ TypeOK
    /\ FiniteInv
    /\ NumberInv
    /\ LifeInv
    /\ MatchInv
    /\ SlackInv
    /\ WindowLimit
    /\ ClosedInv
    /\ PromiseInv
-----------------------------------------------------------------------------
(* Every nonempty set of naturals has a least element. *)
LEMMA LeastNat ==
  ASSUME NEW T \in SUBSET Nat, T # {}
  PROVE  \E x \in T : \A y \in T : x <= y
<1> DEFINE R == OpToRel(<, Nat)
<1>1. IsWellFoundedOn(R, Nat)
  BY NatLessThanWellFounded
<1>2. \A x, y \in Nat : x < y => <<x, y>> \in R
  BY DEF OpToRel
<1> HIDE DEF R
<1>3. PICK x \in T : \A y \in T : ~(<<y, x>> \in R)
  BY <1>1, WFMin
<1>4. ASSUME NEW y \in T, y < x PROVE FALSE
  <2>1. x \in Nat /\ y \in Nat
    OBVIOUS
  <2>2. <<y, x>> \in R
    BY <1>2, <1>4, <2>1
  <2>3. QED
    BY <1>3, <2>2, Zenon
<1>5. \A y \in T : x <= y
  BY <1>4
<1>6. QED
  BY <1>5

(* Every nonempty finite set of integers has a greatest element: a         *)
(* smallest one without would have one after losing an element.            *)
LEMMA FiniteMax ==
  ASSUME NEW S \in SUBSET Int, IsFiniteSet(S), S # {}
  PROVE  \E x \in S : \A y \in S : y <= x
<1> DEFINE NoMax(T) == \A x \in T : \E y \in T : y > x
           Sizes == {n \in Nat : \E T \in SUBSET Int :
                        IsFiniteSet(T) /\ T # {} /\ Cardinality(T) = n /\ NoMax(T)}
<1>1. SUFFICES ASSUME Sizes # {} PROVE FALSE
  <2>1. ASSUME ~\E x \in S : \A y \in S : y <= x PROVE Cardinality(S) \in Sizes
    BY <2>1, FS_CardinalityType
  <2>2. QED
    BY <1>1, <2>1
<1>2. PICK n \in Sizes : \A k \in Sizes : n <= k
  <2> HIDE DEF Sizes
  <2>1. Sizes \in SUBSET Nat
    BY DEF Sizes
  <2>2. QED
    BY <1>1, <2>1, LeastNat
<1>3. PICK T \in SUBSET Int : IsFiniteSet(T) /\ T # {} /\ Cardinality(T) = n /\ NoMax(T)
  BY <1>2
<1>4. PICK x \in T : TRUE
  BY <1>3
<1>5. IsFiniteSet(T \ {x}) /\ Cardinality(T \ {x}) = n - 1 /\ n - 1 \in Nat
  <2>1. n \in Nat /\ n # 0
    BY <1>2, <1>3, FS_EmptySet
  <2>2. IsFiniteSet(T \ {x}) /\ Cardinality(T \ {x}) = Cardinality(T) - 1
    BY <1>3, <1>4, FS_RemoveElement
  <2>3. QED
    BY <1>3, <2>1, <2>2
<1>6. T \ {x} # {}
  BY <1>3, <1>4
<1>7. n - 1 \notin Sizes
  BY <1>2, <1>5
<1>8. PICK u \in T \ {x} : \A y \in T \ {x} : ~(y > u)
  BY <1>5, <1>6, <1>7
<1>9. QED
  BY <1>3, <1>4, <1>8

(* Windows and limits are at least one, and every sorted set has a tier. *)
LEMMA WindowTypes ==
  /\ \A t \in Tiers : Window[t] \in Windows /\ Window[t] \in Nat \ {0} /\ Limit[t] \in Nat \ {0}
  /\ \A w \in Windows : w \in Nat \ {0} /\ Copies(w) \in Nat \ {0}
<1>1. \A t \in Tiers : Window[t] \in Windows /\ Window[t] \in Nat \ {0} /\ Limit[t] \in Nat \ {0}
  BY TiersAssumption DEF Windows
<1>2. ASSUME NEW w \in Windows PROVE w \in Nat \ {0} /\ Copies(w) \in Nat \ {0}
  <2> DEFINE S == {t \in Tiers : Window[t] = w}
  <2>1. PICK t \in Tiers : w = Window[t]
    BY DEF Windows
  <2>2. IsFiniteSet(S) /\ S # {}
    BY <2>1, TiersAssumption, FS_Subset
  <2>3. Copies(w) = Cardinality(S)
    BY DEF Copies
  <2> HIDE DEF S
  <2>4. Cardinality(S) \in Nat /\ Cardinality(S) # 0
    BY <2>2, FS_CardinalityType, FS_EmptySet
  <2>5. QED
    BY <1>1, <2>1, <2>3, <2>4
<1>3. QED
  BY <1>1, <1>2

(* What a sorted set holds is finite, and so is any part of it. *)
LEMMA HitsAtTypes ==
  ASSUME TypeOK, FiniteInv, NEW w \in Windows
  PROVE  /\ HitsAt(w) \in SUBSET (Nat \X Nat) /\ IsFiniteSet(HitsAt(w))
         /\ SeqAt(w) \in Nat
         /\ Alive(w) = MembersAfter(w, now - w)
         /\ \A x \in Int : /\ MembersAfter(w, x) \in SUBSET HitsAt(w)
                           /\ IsFiniteSet(MembersAfter(w, x))
                           /\ Cardinality(MembersAfter(w, x)) \in Nat
         /\ \A x \in Int : /\ CountedAfter(x) \in SUBSET counted
                           /\ IsFiniteSet(CountedAfter(x))
                           /\ Cardinality(CountedAfter(x)) \in Nat
<1>1. hits[w] \in SUBSET (Nat \X Nat) /\ IsFiniteSet(hits[w]) /\ seq[w] \in Nat
  BY DEF TypeOK, FiniteInv, Members
<1>2. HitsAt(w) \in SUBSET (Nat \X Nat) /\ IsFiniteSet(HitsAt(w)) /\ SeqAt(w) \in Nat
  BY <1>1, FS_EmptySet DEF HitsAt, SeqAt
<1>3. Alive(w) = MembersAfter(w, now - w)
  BY DEF Alive, MembersAfter
<1>4. ASSUME NEW x \in Int
      PROVE  /\ MembersAfter(w, x) \in SUBSET HitsAt(w)
             /\ IsFiniteSet(MembersAfter(w, x))
             /\ Cardinality(MembersAfter(w, x)) \in Nat
  <2>1. MembersAfter(w, x) \in SUBSET HitsAt(w)
    BY DEF MembersAfter
  <2>2. QED
    BY <1>2, <2>1, FS_Subset, FS_CardinalityType
<1>5. ASSUME NEW x \in Int
      PROVE  /\ CountedAfter(x) \in SUBSET counted
             /\ IsFiniteSet(CountedAfter(x))
             /\ Cardinality(CountedAfter(x)) \in Nat
  <2>1. CountedAfter(x) \in SUBSET counted /\ IsFiniteSet(counted)
    BY DEF CountedAfter, FiniteInv
  <2>2. QED
    BY <2>1, FS_Subset, FS_CardinalityType
<1>6. QED
  BY <1>2, <1>3, <1>4, <1>5

(* A hit adds one new member for every tier of a window, none of which was *)
(* there.                                                                  *)
LEMMA NewMembersCount ==
  ASSUME TypeOK, FiniteInv, NumberInv, NEW w \in Windows
  PROVE  /\ NewMembers(w) \in SUBSET (Nat \X Nat)
         /\ IsFiniteSet(NewMembers(w))
         /\ Cardinality(NewMembers(w)) = Copies(w)
         /\ \A m \in NewMembers(w) : m[1] = now /\ m[2] <= SeqAt(w) + Copies(w) /\ m \notin HitsAt(w)
<1> DEFINE K == Copies(w)
           q == SeqAt(w)
           M == {<<now, q + j>> : j \in 1 .. K}
           f == [j \in 1 .. K |-> <<now, q + j>>]
<1>1. K \in Nat \ {0} /\ q \in Nat /\ now \in Nat
  <2>1. K \in Nat \ {0}
    BY WindowTypes, Zenon
  <2>2. QED
    BY <2>1, HitsAtTypes DEF TypeOK
<1>2. NewMembers(w) = M
  BY DEF NewMembers
<1>3. IsFiniteSet(1 .. K) /\ Cardinality(1 .. K) = K
  <2> HIDE DEF K
  <2>1. QED
    BY <1>1, FS_Interval
<1>4. \A m \in HitsAt(w) : m[2] <= q
  BY DEF NumberInv
<1> HIDE DEF K, q
<1>5. f \in Surjection(1 .. K, M) /\ f \in Injection(1 .. K, M)
  <2>1. f \in Surjection(1 .. K, M)
    BY DEF Surjection
  <2>2. \A i, j \in 1 .. K : f[i] = f[j] => i = j
    BY <1>1
  <2>3. f \in [1 .. K -> M]
    OBVIOUS
  <2> HIDE DEF f
  <2>4. QED
    BY <2>1, <2>2, <2>3 DEF Injection, IsInjective
<1>6. M \in SUBSET (Nat \X Nat) /\ \A m \in M : m[1] = now /\ m[2] <= q + K /\ m[2] > q
  BY <1>1
<1>7. \A m \in M : m \notin HitsAt(w)
  <2> SUFFICES ASSUME NEW m \in M, m \in HitsAt(w) PROVE FALSE
    OBVIOUS
  <2>1. m[2] <= q /\ m[2] > q /\ m[2] \in Nat
    BY <1>4, <1>6
  <2>2. QED
    BY <1>1, <2>1
<1> HIDE DEF f, M
<1>8. IsFiniteSet(M) /\ Cardinality(M) = K
  BY <1>3, <1>5, FS_Surjection
<1>9. QED
  BY <1>2, <1>6, <1>7, <1>8 DEF K, q

(* The hit of this step is a new one. *)
LEMMA FreshHit ==
  ASSUME TypeOK, FiniteInv, NumberInv
  PROVE  /\ ThisHit \in Hits
         /\ ThisHit.at = now
         /\ ThisHit.id = Cardinality(counted \cup served)
         /\ IsFiniteSet(counted \cup served)
         /\ Cardinality(counted \cup served) \in Nat
         /\ ThisHit \notin counted \cup served
<1>1. ThisHit.at = now /\ ThisHit.id = Cardinality(counted \cup served)
  BY DEF ThisHit
<1>2. IsFiniteSet(counted \cup served) /\ Cardinality(counted \cup served) \in Nat
  BY FS_Union, FS_CardinalityType DEF FiniteInv
<1>3. ThisHit \in Hits
  <2> DEFINE f == [w \in Windows |-> <<now, SeqAt(w) + 1>>]
  <2>1. now \in Nat /\ \A w \in Windows : SeqAt(w) \in Nat
    BY HitsAtTypes DEF TypeOK
  <2>2. f \in [Windows -> Members]
    BY <2>1 DEF Members
  <2>3. ThisHit = [at |-> now, id |-> Cardinality(counted \cup served), member |-> f]
    BY DEF ThisHit
  <2> HIDE DEF f
  <2>4. QED
    BY <1>2, <2>1, <2>2, <2>3 DEF Hits
<1>4. ThisHit \notin counted \cup served
  <2> SUFFICES ASSUME ThisHit \in counted \cup served PROVE FALSE
    OBVIOUS
  <2>1. ThisHit.id < Cardinality(counted \cup served)
    BY DEF NumberInv
  <2>2. QED
    BY <1>1, <1>2, <2>1
<1>5. QED
  BY <1>1, <1>2, <1>3, <1>4

(* What a step does to the sorted sets: a hit is recorded in all of them,  *)
(* they are trimmed, or nothing; and what the middleware does with it.     *)
LEMMA StepCases ==
  ASSUME [Next]_vars
  PROVE  /\ \/ now' = now /\ UNCHANGED <<redis, counted, promises>>
            \/ now' = now /\ Room /\ Record
            \/ now' = now /\ Trim /\ UNCHANGED promises
            \/ now' = now /\ Trim /\ ~Room /\ promises' = promises \cup {now + RetryAfter(Wait)}
            \/ now' = now + 1 /\ UNCHANGED <<redis, counted, served, promises>>
         /\ failOpen' = failOpen
         /\ \/ served' = served
            \/ served' = served \cup {ThisHit} /\ (failOpen \/ ThisHit \in counted')
         /\ counted' = counted \/ counted' = counted \cup {ThisHit}
<1>1. CASE Admit
  BY <1>1 DEF Admit, Record
<1>2. CASE Refuse
  BY <1>2 DEF Refuse, Trim
<1>3. CASE NoAnswer
  <2>1. counted' = counted \/ counted' = counted \cup {ThisHit}
    BY <1>3 DEF NoAnswer, Record, Trim
  <2>2. QED
    BY <1>3, <2>1 DEF NoAnswer
<1>4. CASE Tick
  BY <1>4 DEF Tick
<1>5. CASE UNCHANGED vars
  BY <1>5 DEF vars
<1>6. QED
  BY <1>1, <1>2, <1>3, <1>4, <1>5 DEF Next, Terminated

(* Products of naturals: monotone, and what a strict inequality leaves. *)
LEMMA Products ==
  ASSUME NEW K \in Nat \ {0}, NEW a \in Nat, NEW b \in Nat
  PROVE  /\ K * a \in Nat
         /\ a <= b => K * a <= K * b
         /\ K * (a + 1) = K * a + K
         /\ K * a < K * b => K * a + K <= K * b
         /\ K * a < b + K => a <= b
<1>1. K * a \in Nat /\ K * b \in Nat /\ K * (a + 1) = K * a + K
  OBVIOUS
<1>2. \A i, j \in Nat : i <= j => K * i <= K * j
  OBVIOUS
<1>3. ASSUME K * a < K * b PROVE K * a + K <= K * b
  <2>1. a + 1 <= b
    BY <1>1, <1>2, <1>3
  <2>2. K * (a + 1) <= K * b
    BY <1>2, <2>1
  <2>3. QED
    BY <1>1, <2>2
<1>4. ASSUME K * a < b + K, a > b PROVE FALSE
  <2>1. K * (b + 1) <= K * a /\ K * (b + 1) = K * b + K
    BY <1>2, <1>4
  <2>2. b <= K * b
    OBVIOUS
  <2>3. QED
    BY <1>1, <1>4, <2>1, <2>2
<1>5. QED
  BY <1>1, <1>2, <1>3, <1>4

-----------------------------------------------------------------------------
(* A hit that is recorded is added to every sorted set, trimmed. *)
LEMMA RecordEffect ==
  ASSUME TypeOK, now' = now, Record, NEW w \in Windows
  PROVE  /\ hits'[w] = Alive(w) \cup NewMembers(w)
         /\ HitsAt(w)' = Alive(w) \cup NewMembers(w)
         /\ SeqAt(w)' = SeqAt(w) + Copies(w)
         /\ dies'[w] = now + w
<1>1. hits'[w] = Alive(w) \cup NewMembers(w) /\ seq'[w] = SeqAt(w) + Copies(w) /\ dies'[w] = now + w
  BY DEF Record
<1>2. now \in Nat /\ w \in Nat \ {0}
  BY WindowTypes DEF TypeOK
<1>3. now' < dies'[w]
  BY <1>1, <1>2
<1>4. QED
  BY <1>1, <1>3 DEF HitsAt, SeqAt

(* Trimming changes nothing that counts. *)
LEMMA TrimEffect ==
  ASSUME now' = now, Trim, NEW w \in Windows
  PROVE  /\ hits'[w] = Alive(w)
         /\ HitsAt(w)' = Alive(w)
         /\ SeqAt(w)' = SeqAt(w)
         /\ dies' = dies /\ counted' = counted
<1>1. hits'[w] = Alive(w) /\ seq'[w] = SeqAt(w) /\ dies' = dies /\ counted' = counted
  BY DEF Trim
<1>2. CASE now < dies[w]
  BY <1>1, <1>2 DEF HitsAt, SeqAt
<1>3. CASE ~(now < dies[w])
  BY <1>1, <1>3 DEF HitsAt, SeqAt, Alive
<1>4. QED
  BY <1>2, <1>3

(* Every variable keeps its type. *)
LEMMA TypeStep ==
  ASSUME TypeOK, FiniteInv, NumberInv, [Next]_vars, promises' \subseteq Nat
  PROVE  TypeOK'
<1>1. /\ now \in Nat
      /\ hits \in [Windows -> SUBSET Members]
      /\ seq \in [Windows -> Nat]
      /\ dies \in [Windows -> Nat]
  BY DEF TypeOK
<1>2. now' \in Nat
  BY <1>1, StepCases
<1>3. failOpen' \in BOOLEAN
  BY StepCases DEF TypeOK
<1>4. counted' \subseteq Hits /\ served' \subseteq Hits
  BY StepCases, FreshHit DEF TypeOK
<1>5. ASSUME NEW w \in Windows
      PROVE  /\ Alive(w) \in SUBSET Members /\ NewMembers(w) \in SUBSET Members
             /\ SeqAt(w) \in Nat /\ SeqAt(w) + Copies(w) \in Nat /\ now + w \in Nat
  <2>1. SeqAt(w) \in Nat /\ Alive(w) \in SUBSET HitsAt(w) /\ HitsAt(w) \in SUBSET (Nat \X Nat)
    BY HitsAtTypes DEF Alive
  <2>2. NewMembers(w) \in SUBSET (Nat \X Nat)
    BY NewMembersCount
  <2>3. Copies(w) \in Nat /\ w \in Nat
    BY WindowTypes
  <2>4. QED
    BY <1>1, <2>1, <2>2, <2>3 DEF Members
<1>6. /\ hits' \in [Windows -> SUBSET Members]
      /\ seq' \in [Windows -> Nat]
      /\ dies' \in [Windows -> Nat]
  <2>1. CASE UNCHANGED redis
    BY <1>1, <2>1 DEF redis
  <2>2. CASE Record
    BY <1>5, <2>2 DEF Record
  <2>3. CASE Trim
    BY <1>1, <1>5, <2>3 DEF Trim
  <2>4. QED
    BY <2>1, <2>2, <2>3, StepCases
<1>7. QED
  BY <1>2, <1>3, <1>4, <1>6 DEF TypeOK

(* Sorted sets and histories stay finite. *)
LEMMA FiniteStep ==
  ASSUME TypeOK, FiniteInv, NumberInv, [Next]_vars
  PROVE  FiniteInv'
<1>1. IsFiniteSet(counted') /\ IsFiniteSet(served')
  BY StepCases, FS_AddElement DEF FiniteInv
<1>2. ASSUME NEW w \in Windows PROVE IsFiniteSet(hits'[w])
  <2>1. IsFiniteSet(hits[w]) /\ IsFiniteSet(Alive(w))
    <3>1. now \in Nat /\ w \in Nat
      BY WindowTypes DEF TypeOK
    <3>2. now - w \in Int
      BY <3>1
    <3>3. QED
      BY <3>2, HitsAtTypes DEF FiniteInv
  <2>2. IsFiniteSet(NewMembers(w))
    BY NewMembersCount
  <2>3. IsFiniteSet(Alive(w) \cup NewMembers(w))
    BY <2>1, <2>2, FS_Union
  <2>4. hits'[w] = hits[w] \/ hits'[w] = Alive(w) \/ hits'[w] = Alive(w) \cup NewMembers(w)
    BY StepCases DEF redis, Record, Trim
  <2>5. QED
    BY <2>1, <2>3, <2>4
<1>3. QED
  BY <1>1, <1>2 DEF FiniteInv

(* Members and requests keep numbers of their own. *)
LEMMA NumberStep ==
  ASSUME TypeOK, FiniteInv, NumberInv, [Next]_vars
  PROVE  NumberInv'
<1>1. now \in Nat /\ (now' = now \/ now' = now + 1)
  BY StepCases DEF TypeOK
<1>2. ASSUME NEW w \in Windows, NEW m \in HitsAt(w)'
      PROVE  m[1] <= now' /\ m[2] <= SeqAt(w)'
  <2>1. HitsAt(w) \in SUBSET (Nat \X Nat) /\ SeqAt(w) \in Nat /\ Alive(w) \in SUBSET HitsAt(w)
    BY HitsAtTypes DEF Alive
  <2>2. \A n \in HitsAt(w) : n[1] \in Nat /\ n[2] \in Nat /\ n[1] <= now /\ n[2] <= SeqAt(w)
    BY <2>1 DEF NumberInv
  <2>3. Copies(w) \in Nat
    BY WindowTypes
  <2>4. CASE now' = now /\ UNCHANGED redis
    BY <1>2, <2>2, <2>4 DEF redis, HitsAt, SeqAt
  <2>5. CASE now' = now /\ Record
    <3>1. m \in Alive(w) \/ m \in NewMembers(w)
      BY <1>2, <2>5, RecordEffect
    <3>2. SeqAt(w)' = SeqAt(w) + Copies(w)
      BY <2>5, RecordEffect
    <3>3. CASE m \in Alive(w)
      BY <2>1, <2>2, <2>3, <2>5, <3>2, <3>3
    <3>4. CASE m \in NewMembers(w)
      <4>1. m[1] = now /\ m[2] <= SeqAt(w) + Copies(w)
        BY <3>4, NewMembersCount
      <4>2. QED
        BY <1>1, <2>5, <3>2, <4>1
    <3>5. QED
      BY <3>1, <3>3, <3>4
  <2>6. CASE now' = now /\ Trim
    BY <1>2, <2>1, <2>2, <2>6, TrimEffect
  <2>7. CASE now' = now + 1 /\ UNCHANGED redis
    <3>1. now' < dies[w]
      BY <1>2, <2>7 DEF redis, HitsAt
    <3>2. dies[w] \in Nat
      BY DEF TypeOK
    <3>3. now < dies[w]
      BY <1>1, <2>7, <3>1, <3>2
    <3>4. HitsAt(w)' = HitsAt(w) /\ SeqAt(w)' = SeqAt(w)
      BY <2>7, <3>1, <3>3 DEF redis, HitsAt, SeqAt
    <3>5. QED
      BY <1>1, <1>2, <2>2, <2>7, <3>4
  <2>8. QED
    BY <2>4, <2>5, <2>6, <2>7, StepCases
<1>3. ASSUME NEW h \in counted' \cup served'
      PROVE  h.at <= now' /\ h.id < Cardinality(counted' \cup served')
  <2> DEFINE S == counted \cup served
             T == counted' \cup served'
  <2>1. \A g \in S : g.at \in Nat /\ g.id \in Nat /\ g.at <= now /\ g.id < Cardinality(S)
    BY DEF NumberInv, TypeOK, Hits
  <2>2. T = S \/ (T = S \cup {ThisHit} /\ now' = now)
    <3>1. T = S \/ T = S \cup {ThisHit}
      BY StepCases
    <3>2. now' = now \/ T = S
      BY StepCases
    <3>3. QED
      BY <3>1, <3>2
  <2>3. /\ IsFiniteSet(S) /\ Cardinality(S) \in Nat
        /\ ThisHit.at = now /\ ThisHit.id = Cardinality(S) /\ ThisHit \notin S
    BY FreshHit
  <2> HIDE DEF S, T
  <2>4. CASE T = S
    <3>1. h \in S
      BY <1>3, <2>4 DEF T
    <3>2. h.at <= now' /\ h.id < Cardinality(T)
      BY <1>1, <2>1, <2>4, <3>1
    <3>3. QED
      BY <3>2 DEF T
  <2>5. CASE T = S \cup {ThisHit} /\ now' = now
    <3>1. Cardinality(T) = Cardinality(S) + 1
      BY <2>3, <2>5, FS_AddElement
    <3>2. h \in S \/ h = ThisHit
      BY <1>3, <2>5 DEF T
    <3>3. h.at <= now' /\ h.id < Cardinality(T)
      BY <1>1, <2>1, <2>3, <2>5, <3>1, <3>2
    <3>4. QED
      BY <3>3 DEF T
  <2>6. QED
    BY <2>2, <2>4, <2>5
<1>4. QED
  BY <1>2, <1>3 DEF NumberInv

(* A sorted set lives on for a window after each hit. *)
LEMMA LifeStep ==
  ASSUME TypeOK, FiniteInv, NumberInv, LifeInv, [Next]_vars
  PROVE  LifeInv'
<1> SUFFICES ASSUME NEW h \in counted', NEW w \in Windows PROVE h.at + w <= dies'[w]
  BY DEF LifeInv
<1>1. now \in Nat /\ w \in Nat
  BY WindowTypes DEF TypeOK
<1>2. CASE UNCHANGED <<redis, counted>>
  BY <1>2 DEF redis, LifeInv
<1>3. CASE Trim
  BY <1>3 DEF Trim, LifeInv
<1>4. CASE now' = now /\ Record
  <2>1. dies'[w] = now + w /\ counted' = counted \cup {ThisHit}
    BY <1>4 DEF Record
  <2>2. h.at \in Nat /\ h.at <= now
    <3>1. CASE h = ThisHit
      BY <1>1, <3>1, FreshHit
    <3>2. CASE h \in counted
      BY <3>2 DEF NumberInv, TypeOK, Hits
    <3>3. QED
      BY <2>1, <3>1, <3>2
  <2>3. QED
    BY <1>1, <2>1, <2>2
<1>5. QED
  BY <1>2, <1>3, <1>4, StepCases

(* A sorted set keeps as many members for each hit as it has tiers. *)
LEMMA MatchStep ==
  ASSUME TypeOK, FiniteInv, NumberInv, LifeInv, MatchInv, [Next]_vars
  PROVE  MatchInv'
<1> SUFFICES ASSUME NEW w \in Windows, NEW x \in (now' - w) .. now'
             PROVE  Cardinality(MembersAfter(w, x)') = Copies(w) * Cardinality(CountedAfter(x)')
  BY DEF MatchInv
<1> DEFINE M == MembersAfter(w, x)
           N == MembersAfter(w, x)'
           C == CountedAfter(x)
           D == CountedAfter(x)'
           K == Copies(w)
<1>1. now \in Nat /\ w \in Nat \ {0} /\ K \in Nat \ {0}
  <2>1. w \in Nat \ {0} /\ K \in Nat \ {0}
    BY WindowTypes, Zenon
  <2>2. QED
    BY <2>1 DEF TypeOK
<1>2. x \in Int
  BY <1>1, StepCases
<1>3. IsFiniteSet(M) /\ Cardinality(M) \in Nat /\ IsFiniteSet(C) /\ Cardinality(C) \in Nat
  BY <1>2, HitsAtTypes
<1>4. HitsAt(w) \in SUBSET (Nat \X Nat) /\ \A m \in HitsAt(w) : m[1] \in Nat /\ m[1] <= now
  BY HitsAtTypes DEF NumberInv
<1>5. \A h \in counted : h.at \in Nat /\ h.at <= now
  BY DEF NumberInv, TypeOK, Hits
<1>6. ASSUME x \in (now - w) .. now PROVE Cardinality(M) = K * Cardinality(C)
  BY <1>6 DEF MatchInv
<1> SUFFICES Cardinality(N) = K * Cardinality(D)
  OBVIOUS
<1> HIDE DEF K
<1>7. CASE now' = now /\ UNCHANGED <<redis, counted>>
  <2>1. N = M /\ D = C
    BY <1>7 DEF redis, MembersAfter, HitsAt, CountedAfter
  <2>2. QED
    BY <1>6, <1>7, <2>1
<1>8. CASE now' = now /\ Trim
  <2>1. HitsAt(w)' = Alive(w) /\ counted' = counted
    BY <1>8, TrimEffect
  <2>2. \A s \in Nat : s > x => s > now - w
    BY <1>1, <1>2, <1>8
  <2>3. N = M
    BY <1>4, <2>1, <2>2 DEF MembersAfter, Alive
  <2>4. D = C
    BY <2>1 DEF CountedAfter
  <2>5. QED
    BY <1>6, <1>8, <2>3, <2>4
<1>9. CASE now' = now /\ Record
  <2> DEFINE Z == NewMembers(w)
             g == ThisHit
  <2>1. HitsAt(w)' = Alive(w) \cup Z /\ counted' = counted \cup {g}
    BY <1>9, RecordEffect DEF Record
  <2>2. IsFiniteSet(Z) /\ Cardinality(Z) = K /\ \A m \in Z : m[1] = now /\ m \notin HitsAt(w)
    BY NewMembersCount DEF K
  <2>3. g.at = now /\ g \notin counted
    BY FreshHit
  <2>4. \A s \in Nat : s > x => s > now - w
    BY <1>1, <1>2, <1>9
  <2> HIDE DEF Z, g
  <2>5. CASE x < now
    <3>1. N = M \cup Z /\ M \cap Z = {}
      BY <1>1, <1>2, <1>4, <2>1, <2>2, <2>4, <2>5 DEF MembersAfter, Alive
    <3>2. D = C \cup {g} /\ g \notin C
      BY <1>1, <1>2, <2>1, <2>3, <2>5 DEF CountedAfter
    <3> HIDE DEF M, N, C, D
    <3>3. Cardinality(N) = Cardinality(M) + K
      <4>1. Cardinality(M \cap Z) = 0
        BY <3>1, FS_EmptySet
      <4>2. Cardinality(M \cup Z) = Cardinality(M) + Cardinality(Z) - Cardinality(M \cap Z)
        BY <1>3, <2>2, FS_Union, Zenon
      <4>3. Cardinality(M) \in Nat /\ K \in Nat
        BY <1>1, <1>3, FS_CardinalityType
      <4>4. QED
        BY <2>2, <3>1, <4>1, <4>2, <4>3
    <3>4. Cardinality(D) = Cardinality(C) + 1
      BY <1>3, <3>2, FS_AddElement
    <3>5. K * (Cardinality(C) + 1) = K * Cardinality(C) + K
      BY <1>1, <1>3, Products
    <3>6. QED
      BY <1>6, <1>9, <3>3, <3>4, <3>5
  <2>6. CASE x = now
    <3>1. N = M
      BY <1>1, <1>4, <2>1, <2>2, <2>4, <2>6 DEF MembersAfter, Alive
    <3>2. D = C
      BY <1>1, <2>1, <2>3, <2>6 DEF CountedAfter
    <3>3. QED
      BY <1>6, <1>9, <3>1, <3>2
  <2>7. QED
    BY <1>1, <1>2, <1>9, <2>5, <2>6
<1>10. CASE now' = now + 1 /\ UNCHANGED <<redis, counted>>
  <2>1. D = C
    BY <1>10 DEF CountedAfter
  <2>2. dies[w] \in Nat
    BY DEF TypeOK
  <2>3. ASSUME N = {}, D = {} PROVE Cardinality(N) = K * Cardinality(D)
    <3>1. Cardinality(N) = 0 /\ Cardinality(D) = 0
      BY <2>3, FS_EmptySet
    <3> HIDE DEF N, D
    <3>2. QED
      BY <1>1, <3>1
  <2>4. CASE now' < dies[w]
    <3>1. HitsAt(w)' = HitsAt(w)
      BY <1>1, <1>10, <2>2, <2>4 DEF HitsAt, redis
    <3>2. N = M
      BY <3>1 DEF MembersAfter
    <3>3. CASE x <= now
      <4>1. x \in (now - w) .. now
        BY <1>1, <1>2, <1>10, <3>3
      <4>2. QED
        BY <1>6, <2>1, <3>2, <4>1
    <3>4. CASE x > now
      <4>1. \A s \in Nat : s <= now => ~(s > x)
        BY <1>1, <1>2, <3>4
      <4>2. M = {} /\ C = {}
        BY <1>4, <1>5, <4>1 DEF MembersAfter, CountedAfter
      <4>3. QED
        BY <2>1, <2>3, <3>2, <4>2
    <3>5. QED
      BY <1>1, <1>2, <3>3, <3>4
  <2>5. CASE ~(now' < dies[w])
    <3>1. N = {}
      BY <1>10, <2>5 DEF MembersAfter, HitsAt, redis
    <3>2. \A h \in counted : ~(h.at > x)
      <4> SUFFICES ASSUME NEW h \in counted PROVE ~(h.at > x)
        OBVIOUS
      <4>1. h.at + w <= dies[w] /\ h.at \in Nat
        BY <1>5 DEF LifeInv
      <4>2. QED
        BY <1>1, <1>2, <1>10, <2>2, <2>5, <4>1
    <3>3. D = {}
      BY <2>1, <3>2 DEF CountedAfter
    <3>4. QED
      BY <2>3, <3>1, <3>3
  <2>6. QED
    BY <2>4, <2>5
<1>11. QED
  BY <1>7, <1>8, <1>9, <1>10, StepCases

(* A hit is admitted only where there was room for one. *)
LEMMA SlackStep ==
  ASSUME TypeOK, FiniteInv, NumberInv, MatchInv, SlackInv, [Next]_vars
  PROVE  SlackInv'
<1> SUFFICES ASSUME NEW t \in Tiers
             PROVE  Copies(Window[t]) * Cardinality(CountedAfter(now - Window[t])')
                        < Limit[t] + Copies(Window[t])
  BY DEF SlackInv
<1> DEFINE w == Window[t]
           K == Copies(w)
           C == CountedAfter(now - w)
           D == CountedAfter(now - w)'
<1>1. now \in Nat /\ w \in Windows /\ w \in Nat \ {0} /\ Limit[t] \in Nat \ {0}
  <2>1. w \in Windows /\ w \in Nat \ {0} /\ Limit[t] \in Nat \ {0}
    BY WindowTypes, Zenon
  <2>2. QED
    BY <2>1 DEF TypeOK
<1>2. K \in Nat \ {0}
  BY <1>1, WindowTypes, Zenon
<1>3. now - w \in Int /\ now - w \in (now - w) .. now
  BY <1>1
<1>4. IsFiniteSet(C) /\ Cardinality(C) \in Nat
  BY <1>1, <1>3, HitsAtTypes
<1>5. K * Cardinality(C) < Limit[t] + K
  BY DEF SlackInv
<1>6. \A h \in counted : h.at \in Nat /\ h.at <= now
  BY DEF NumberInv, TypeOK, Hits
<1> SUFFICES K * Cardinality(D) < Limit[t] + K
  OBVIOUS
<1>7. ASSUME D \in SUBSET C PROVE K * Cardinality(D) < Limit[t] + K
  <2> HIDE DEF C, D, K
  <2>1. Cardinality(D) <= Cardinality(C) /\ Cardinality(D) \in Nat
    BY <1>4, <1>7, FS_Subset, FS_CardinalityType
  <2>2. K * Cardinality(D) <= K * Cardinality(C) /\ K * Cardinality(D) \in Nat /\ K * Cardinality(C) \in Nat
    BY <1>2, <1>4, <2>1, Products
  <2>3. QED
    BY <1>1, <1>2, <1>5, <2>2
<1>8. CASE now' = now /\ counted' = counted
  BY <1>7, <1>8 DEF CountedAfter
<1>9. CASE now' = now + 1 /\ counted' = counted
  <2>1. D \in SUBSET C
    BY <1>1, <1>6, <1>9 DEF CountedAfter
  <2>2. QED
    BY <1>7, <2>1
<1>10. CASE now' = now /\ Room /\ Record
  <2> DEFINE g == ThisHit
  <2>1. ~(Cardinality(Alive(w)) >= Limit[t])
    BY <1>10 DEF Room, Full
  <2>2. Cardinality(Alive(w)) = K * Cardinality(C)
    BY <1>1, <1>3, HitsAtTypes DEF MatchInv
  <2>3. counted' = counted \cup {g} /\ g.at = now /\ g \notin counted
    BY <1>10, FreshHit DEF Record
  <2> HIDE DEF g
  <2>4. D = C \cup {g} /\ g \notin C
    BY <1>1, <1>10, <2>3 DEF CountedAfter
  <2> HIDE DEF C, D, K
  <2>5. Cardinality(D) = Cardinality(C) + 1
    BY <1>4, <2>4, FS_AddElement
  <2>6. K * (Cardinality(C) + 1) = K * Cardinality(C) + K /\ K * Cardinality(C) \in Nat
    BY <1>2, <1>4, Products
  <2>7. QED
    BY <1>1, <1>2, <2>1, <2>2, <2>5, <2>6
<1>11. QED
  <2>1. Trim => counted' = counted
    BY DEF Trim
  <2>2. QED
    BY <1>8, <1>9, <1>10, <2>1, StepCases

(* The window that ends now is within the limit by SlackInv; one that      *)
(* ended in the past gets no new hits.                                     *)
LEMMA WindowStep ==
  ASSUME TypeOK, FiniteInv, NumberInv, WindowLimit, [Next]_vars, TypeOK', FiniteInv', SlackInv'
  PROVE  WindowLimit'
<1> SUFFICES ASSUME NEW t \in Tiers, NEW e \in 0 .. now'
             PROVE  Cardinality(Between(counted', e - Window[t], e)) <= Limit[t]
  BY DEF WindowLimit, Between
<1> DEFINE w == Window[t]
           K == Copies(w)
           D == Between(counted', e - w, e)
<1>1. now \in Nat /\ now' \in Nat /\ w \in Nat \ {0} /\ Limit[t] \in Nat \ {0} /\ K \in Nat \ {0}
  <2>1. w \in Windows /\ w \in Nat \ {0} /\ Limit[t] \in Nat \ {0}
    BY WindowTypes, Zenon
  <2>2. K \in Nat \ {0}
    BY <2>1, WindowTypes, Zenon
  <2>3. QED
    BY <2>1, <2>2 DEF TypeOK
<1>2. IsFiniteSet(D) /\ Cardinality(D) \in Nat
  <2>1. D \in SUBSET counted' /\ IsFiniteSet(counted')
    BY DEF Between, FiniteInv
  <2>2. QED
    BY <2>1, FS_Subset, FS_CardinalityType
<1>3. CASE e = now'
  <2> DEFINE C == CountedAfter(now - w)'
  <2>1. K * Cardinality(C) < Limit[t] + K
    BY DEF SlackInv
  <2>2. IsFiniteSet(C) /\ Cardinality(C) \in Nat
    <3>1. C \in SUBSET counted' /\ IsFiniteSet(counted')
      BY DEF CountedAfter, FiniteInv
    <3>2. QED
      BY <3>1, FS_Subset, FS_CardinalityType
  <2>3. D \in SUBSET C
    <3>1. \A h \in counted' : h.at \in Nat
      BY DEF TypeOK, Hits
    <3>2. QED
      BY <1>1, <1>3, <3>1 DEF Between, CountedAfter
  <2> HIDE DEF C, D, K
  <2>4. Cardinality(D) <= Cardinality(C)
    BY <2>2, <2>3, FS_Subset
  <2>5. Cardinality(C) <= Limit[t]
    BY <1>1, <2>1, <2>2, Products
  <2>6. Cardinality(D) <= Limit[t]
    BY <1>1, <1>2, <2>2, <2>4, <2>5
  <2>7. QED
    BY <2>6 DEF D
<1>4. CASE e < now'
  <2> DEFINE C == Between(counted, e - w, e)
  <2>1. e \in 0 .. now
    BY <1>1, <1>4, StepCases
  <2>2. Cardinality(C) <= Limit[t]
    BY <2>1 DEF WindowLimit
  <2>3. IsFiniteSet(C) /\ Cardinality(C) \in Nat
    <3>1. C \in SUBSET counted /\ IsFiniteSet(counted)
      BY DEF Between, FiniteInv
    <3>2. QED
      BY <3>1, FS_Subset, FS_CardinalityType
  <2>4. D \in SUBSET C
    <3>1. CASE counted' = counted
      BY <3>1
    <3>2. CASE now' = now /\ counted' = counted \cup {ThisHit}
      <4>1. ~(ThisHit.at <= e)
        BY <1>1, <1>4, <3>2, FreshHit
      <4>2. QED
        BY <3>2, <4>1 DEF Between
    <3>3. QED
      BY <3>1, <3>2, StepCases
  <2> HIDE DEF C, D
  <2>5. Cardinality(D) <= Limit[t]
    <3>1. Cardinality(D) <= Cardinality(C)
      BY <2>3, <2>4, FS_Subset
    <3>2. QED
      BY <1>1, <1>2, <2>2, <2>3, <3>1
  <2>6. QED
    BY <2>5 DEF D
<1>5. QED
  BY <1>1, <1>3, <1>4
-----------------------------------------------------------------------------
(* A full tier has an oldest member, and waits until it leaves. *)
LEMMA RetryOfOldest ==
  ASSUME TypeOK, FiniteInv, NEW t \in Tiers, Full(t)
  PROVE  /\ Retry(t) \in Nat \ {0}
         /\ \E m \in Alive(Window[t]) : Retry(t) = m[1] + Window[t] - now
<1> DEFINE w == Window[t]
           A == Alive(w)
           T == {m[1] : m \in A}
<1>1. now \in Nat /\ w \in Windows /\ w \in Nat \ {0} /\ Limit[t] \in Nat \ {0}
  <2>1. w \in Windows /\ w \in Nat \ {0} /\ Limit[t] \in Nat \ {0}
    BY WindowTypes, Zenon
  <2>2. QED
    BY <2>1 DEF TypeOK
<1>2. now - w \in Int
  BY <1>1
<1>3. IsFiniteSet(A) /\ Cardinality(A) \in Nat /\ A \in SUBSET (Nat \X Nat)
  <2>1. A = MembersAfter(w, now - w) /\ A \in SUBSET HitsAt(w) /\ HitsAt(w) \in SUBSET (Nat \X Nat)
    BY <1>1, HitsAtTypes DEF Alive
  <2>2. QED
    BY <1>1, <1>2, <2>1, HitsAtTypes
<1>4. Cardinality(A) >= Limit[t]
  BY DEF Full
<1>5. \A m \in A : m[1] > now - w
  BY DEF Alive
<1> HIDE DEF A
<1>6. A # {}
  <2>1. Cardinality(A) # 0
    BY <1>1, <1>3, <1>4
  <2>2. QED
    BY <2>1, FS_EmptySet
<1>7. T \in SUBSET Nat /\ T # {}
  BY <1>3, <1>6
<1>8. \E x \in T : \A y \in T : x <= y
  <2> HIDE DEF T
  <2>1. QED
    BY <1>7, LeastNat
<1>9. \E m \in A : \A n \in A : m[1] <= n[1]
  BY <1>8
<1>10. PICK m \in A : Retry(t) = m[1] + w - now
  BY <1>9 DEF Retry, A
<1>11. m[1] \in Nat
  BY <1>3
<1>12. Retry(t) \in Nat \ {0}
  BY <1>1, <1>5, <1>10, <1>11
<1>13. QED
  BY <1>10, <1>12 DEF A

(* A refused caller is told a wait no shorter than any full tier's. *)
LEMMA WaitIsMax ==
  ASSUME TypeOK, FiniteInv, ~Room
  PROVE  Wait \in Nat /\ \A t \in Tiers : Full(t) => Retry(t) <= Wait
<1> DEFINE F == {x \in Tiers : Full(x)}
           W == {Retry(t) : t \in F}
           f == [t \in F |-> Retry(t)]
<1>1. IsFiniteSet(F) /\ F # {}
  BY TiersAssumption, FS_Subset DEF Room
<1>2. \A t \in F : Retry(t) \in Nat
  BY RetryOfOldest
<1>3. \A t \in Tiers : Full(t) => t \in F
  OBVIOUS
<1>4. Wait = CHOOSE w \in W : \A t \in Tiers : Full(t) => Retry(t) <= w
  BY DEF Wait
<1>5. \A t \in F : t \in Tiers /\ Full(t)
  OBVIOUS
<1> HIDE DEF F
<1>6. f \in Surjection(F, W)
  BY DEF Surjection
<1>7. W \in SUBSET Int /\ W # {} /\ W \in SUBSET Nat
  BY <1>1, <1>2
<1>8. \E x \in W : \A y \in W : y <= x
  <2> HIDE DEF W, f
  <2>1. IsFiniteSet(W)
    BY <1>1, <1>6, FS_Surjection
  <2>2. QED
    BY <1>7, <2>1, FiniteMax
<1>9. \E w \in W : \A t \in Tiers : Full(t) => Retry(t) <= w
  <2>1. PICK x \in W : \A y \in W : y <= x
    BY <1>8
  <2>2. \A t \in F : Retry(t) \in W
    OBVIOUS
  <2> HIDE DEF W
  <2>3. QED
    BY <1>3, <2>1, <2>2
<1> HIDE DEF W
<1>10. Wait \in W /\ \A t \in Tiers : Full(t) => Retry(t) <= Wait
  BY <1>4, <1>9
<1>11. QED
  BY <1>7, <1>10

(* Rounded up to whole seconds, a wait is no shorter. *)
LEMMA RetryAfterEnough ==
  ASSUME NEW wait \in Nat
  PROVE  RetryAfter(wait) \in Nat /\ wait <= RetryAfter(wait)
<1> DEFINE d == (wait + Second - 1) \div Second
           l == IF d < 1 THEN 1 ELSE d
<1>1. Second \in Nat \ {0}
  BY SecondAssumption
<1>2. d \in Nat /\ wait <= Second * d
  BY <1>1
<1>3. RetryAfter(wait) = Second * l
  BY DEF RetryAfter
<1> HIDE DEF d
<1>4. l \in Nat /\ d <= l
  BY <1>2
<1> HIDE DEF l
<1>5. Second * d <= Second * l /\ Second * l \in Nat /\ Second * d \in Nat
  BY <1>1, <1>2, <1>4, Products
<1>6. QED
  BY <1>2, <1>3, <1>5

(* Promises are times. *)
LEMMA PromiseTypes ==
  ASSUME TypeOK, FiniteInv, [Next]_vars
  PROVE  promises' \subseteq Nat
<1>1. now \in Nat /\ promises \subseteq Nat
  BY DEF TypeOK
<1>2. ~Room => now + RetryAfter(Wait) \in Nat
  <2> SUFFICES ASSUME ~Room PROVE now + RetryAfter(Wait) \in Nat
    OBVIOUS
  <2>1. Wait \in Nat
    BY WaitIsMax
  <2>2. RetryAfter(Wait) \in Nat
    BY <2>1, RetryAfterEnough
  <2>3. QED
    BY <1>1, <2>2
<1>3. Record => promises' = {}
  BY DEF Record
<1>4. QED
  BY <1>1, <1>2, <1>3, StepCases

(* A promise that is made now is kept: by then the oldest hit of every     *)
(* full tier has left, and one hit was all that was too many.              *)
LEMMA PromiseMade ==
  ASSUME TypeOK, FiniteInv, NumberInv, MatchInv, SlackInv, ~Room, NEW t \in Tiers
  PROVE  Cardinality(MembersAfter(Window[t], now + RetryAfter(Wait) - Window[t])) < Limit[t]
<1> DEFINE w == Window[t]
           K == Copies(w)
           r == RetryAfter(Wait)
           x == now - w
           y == now + r - w
           A == MembersAfter(w, x)
           B == MembersAfter(w, y)
<1>1. now \in Nat /\ w \in Windows /\ w \in Nat \ {0} /\ Limit[t] \in Nat \ {0}
  <2>1. w \in Windows /\ w \in Nat \ {0} /\ Limit[t] \in Nat \ {0}
    BY WindowTypes, Zenon
  <2>2. QED
    BY <2>1 DEF TypeOK
<1>2. K \in Nat \ {0}
  BY <1>1, WindowTypes, Zenon
<1>3. Wait \in Nat /\ \A u \in Tiers : Full(u) => Retry(u) <= Wait
  BY WaitIsMax
<1>4. r \in Nat /\ Wait <= r
  BY <1>3, RetryAfterEnough
<1> HIDE DEF r, K
<1>5. x \in Int /\ y \in Int /\ x \in (now - w) .. now /\ x <= y
  BY <1>1, <1>4
<1>6. /\ IsFiniteSet(A) /\ Cardinality(A) \in Nat
      /\ IsFiniteSet(B) /\ Cardinality(B) \in Nat
      /\ A = Alive(w) /\ A \in SUBSET (Nat \X Nat)
      /\ HitsAt(w) \in SUBSET (Nat \X Nat)
  <2>1. IsFiniteSet(A) /\ Cardinality(A) \in Nat /\ IsFiniteSet(B) /\ Cardinality(B) \in Nat
        /\ A = Alive(w)
    BY <1>1, <1>5, HitsAtTypes
  <2>2. HitsAt(w) \in SUBSET (Nat \X Nat) /\ A \in SUBSET HitsAt(w)
    BY <1>1, <1>5, HitsAtTypes
  <2>3. QED
    BY <2>1, <2>2
<1>7. B \in SUBSET A
  <2>1. \A s \in Nat : s > y => s > x
    BY <1>5
  <2> HIDE DEF x, y
  <2>2. QED
    BY <1>6, <2>1 DEF MembersAfter
<1>8. Cardinality(B) <= Cardinality(A)
  <2> HIDE DEF A, B
  <2>1. QED
    BY <1>6, <1>7, FS_Subset
<1>9. CASE ~Full(t)
  <2>1. ~(Cardinality(A) >= Limit[t])
    BY <1>6, <1>9 DEF Full
  <2>2. QED
    <3> HIDE DEF A, B
    <3>1. Cardinality(B) < Limit[t]
      BY <1>1, <1>6, <1>8, <2>1
    <3>2. QED
      BY <3>1 DEF B, r
<1>10. CASE Full(t)
  <2>1. PICK m \in A : Retry(t) = m[1] + w - now
    BY <1>6, <1>10, RetryOfOldest
  <2>2. m[1] \in Nat /\ m[1] + w - now <= Wait
    BY <1>3, <1>6, <1>10, <2>1
  <2>3. m[1] <= y
    BY <1>1, <1>3, <1>4, <2>2
  <2>4. m \notin B
    <3>1. ~(m[1] > y)
      BY <1>5, <2>2, <2>3
    <3> HIDE DEF y
    <3>2. QED
      BY <3>1 DEF MembersAfter
  <2>5. Cardinality(B) < Cardinality(A)
    <3> HIDE DEF A, B
    <3>1. Cardinality(A) # Cardinality(B)
      BY <1>6, <1>7, <2>4, FS_Subset
    <3>2. QED
      BY <1>6, <1>8, <3>1
  <2> DEFINE a == Cardinality(CountedAfter(x))
             b == Cardinality(CountedAfter(y))
  <2>6. a \in Nat /\ b \in Nat
    BY <1>1, <1>5, HitsAtTypes
  <2>7. Cardinality(A) = K * a /\ K * a < Limit[t] + K
    BY <1>1, <1>5 DEF MatchInv, SlackInv, K
  <2>8. CASE y <= now
    <3>1. y \in (now - w) .. now
      BY <1>1, <1>4, <2>8
    <3>2. Cardinality(B) = K * b
      BY <1>1, <3>1 DEF MatchInv, K
    <3> HIDE DEF A, B, a, b
    <3>3. K * b + K <= K * a
      BY <1>2, <2>5, <2>6, <2>7, <3>2, Products
    <3>4. Cardinality(B) < Limit[t]
      BY <1>1, <1>2, <1>6, <2>6, <2>7, <3>2, <3>3
    <3>5. QED
      BY <3>4 DEF B, r
  <2>9. CASE y > now
    <3>1. \A n \in HitsAt(w) : n[1] \in Nat /\ n[1] <= now
      BY <1>1, <1>6 DEF NumberInv
    <3>2. \A s \in Nat : s <= now => ~(s > y)
      BY <1>1, <1>5, <2>9
    <3>3. B = {}
      <4> HIDE DEF y
      <4>1. QED
        BY <3>1, <3>2 DEF MembersAfter
    <3>4. Cardinality(B) = 0
      BY <3>3, FS_EmptySet
    <3> HIDE DEF B
    <3>5. Cardinality(B) < Limit[t]
      BY <1>1, <3>4
    <3>6. QED
      BY <3>5 DEF B, r
  <2>10. QED
    BY <1>1, <1>5, <2>8, <2>9
<1>11. QED
  BY <1>9, <1>10

(* Promises stay good until the next hit, which cancels them. *)
LEMMA PromiseStep ==
  ASSUME TypeOK, FiniteInv, NumberInv, MatchInv, SlackInv, PromiseInv, [Next]_vars
  PROVE  PromiseInv'
<1> SUFFICES ASSUME NEW p \in promises', NEW t \in Tiers
             PROVE  Cardinality(MembersAfter(Window[t], p - Window[t])') < Limit[t]
  BY DEF PromiseInv
<1> DEFINE w == Window[t]
           x == p - w
           B == MembersAfter(w, x)
           D == MembersAfter(w, x)'
<1>1. w \in Windows /\ w \in Nat \ {0} /\ Limit[t] \in Nat \ {0} /\ p \in Nat /\ x \in Int
  <2>1. w \in Windows /\ w \in Nat \ {0} /\ Limit[t] \in Nat \ {0}
    BY WindowTypes, Zenon
  <2>2. p \in Nat
    BY PromiseTypes
  <2>3. QED
    BY <2>1, <2>2
<1>2. ~Record
  BY DEF Record
<1>3. Cardinality(B) < Limit[t]
  <2>1. CASE p \in promises
    BY <2>1 DEF PromiseInv
  <2>2. CASE ~Room /\ p = now + RetryAfter(Wait)
    <3>1. Cardinality(MembersAfter(Window[t], now + RetryAfter(Wait) - Window[t])) < Limit[t]
      BY <2>2, PromiseMade
    <3>2. x = now + RetryAfter(Wait) - Window[t]
      <4>1. RetryAfter(Wait) \in Nat /\ now \in Nat
        BY <2>2, WaitIsMax, RetryAfterEnough DEF TypeOK
      <4>2. QED
        BY <1>1, <2>2, <4>1
    <3> HIDE DEF x
    <3>3. QED
      BY <3>1, <3>2
  <2>3. QED
    BY <1>2, <2>1, <2>2, StepCases
<1>4. IsFiniteSet(B) /\ Cardinality(B) \in Nat
  BY <1>1, HitsAtTypes
<1> HIDE DEF x
<1>5. D \in SUBSET B
  <2>1. HitsAt(w)' \in SUBSET HitsAt(w)
    <3>1. CASE UNCHANGED redis /\ now' = now
      BY <3>1 DEF redis, HitsAt
    <3>2. CASE now' = now /\ Trim
      BY <1>1, <3>2, TrimEffect DEF Alive
    <3>3. CASE now' = now + 1 /\ UNCHANGED redis
      <4>1. now \in Nat /\ dies[w] \in Nat
        BY <1>1 DEF TypeOK
      <4>2. now' < dies[w] => now < dies[w]
        BY <3>3, <4>1
      <4>3. QED
        BY <3>3, <4>2 DEF redis, HitsAt
    <3>4. QED
      BY <1>2, <3>1, <3>2, <3>3, StepCases
  <2>2. QED
    BY <2>1 DEF MembersAfter
<1> HIDE DEF B, D
<1>6. Cardinality(D) <= Cardinality(B) /\ Cardinality(D) \in Nat
  BY <1>4, <1>5, FS_Subset, FS_CardinalityType
<1>7. Cardinality(D) < Limit[t]
  BY <1>1, <1>3, <1>4, <1>6
<1>8. QED
  BY <1>7 DEF D, x

-----------------------------------------------------------------------------
(* The state before the first hit. *)
LEMMA InitInv == Init => IInv
<1> SUFFICES ASSUME Init PROVE IInv
  OBVIOUS
<1>1. now = 0 /\ counted = {} /\ served = {} /\ promises = {} /\ failOpen \in BOOLEAN
  BY DEF Init
<1>2. TypeOK
  <2>1. hits = [w \in Windows |-> {}] /\ seq = [w \in Windows |-> 0] /\ dies = [w \in Windows |-> 0]
    BY DEF Init
  <2>2. hits \in [Windows -> SUBSET Members] /\ seq \in [Windows -> Nat] /\ dies \in [Windows -> Nat]
    BY <2>1
  <2>3. QED
    BY <1>1, <2>2 DEF TypeOK
<1>3. \A w \in Windows : hits[w] = {} /\ HitsAt(w) = {}
  BY DEF Init, HitsAt
<1>4. FiniteInv
  BY <1>1, <1>3, FS_EmptySet DEF FiniteInv
<1>5. NumberInv /\ LifeInv /\ ClosedInv /\ PromiseInv
  BY <1>1, <1>3 DEF NumberInv, LifeInv, ClosedInv, PromiseInv
<1>6. \A x : Cardinality(CountedAfter(x)) = 0
  <2> SUFFICES ASSUME NEW x PROVE Cardinality(CountedAfter(x)) = 0
    OBVIOUS
  <2>1. CountedAfter(x) = {}
    BY <1>1 DEF CountedAfter
  <2>2. QED
    BY <2>1, FS_EmptySet
<1>7. MatchInv
  <2> SUFFICES ASSUME NEW w \in Windows, NEW x \in (now - w) .. now
               PROVE  Cardinality(MembersAfter(w, x)) = Copies(w) * Cardinality(CountedAfter(x))
    BY DEF MatchInv
  <2>1. MembersAfter(w, x) = {}
    BY <1>3 DEF MembersAfter
  <2>2. Cardinality(MembersAfter(w, x)) = 0
    BY <2>1, FS_EmptySet
  <2>3. Copies(w) \in Nat
    BY WindowTypes
  <2>4. QED
    BY <1>6, <2>2, <2>3
<1>8. SlackInv
  <2> SUFFICES ASSUME NEW t \in Tiers
               PROVE  Copies(Window[t]) * Cardinality(CountedAfter(now - Window[t]))
                         < Limit[t] + Copies(Window[t])
    BY DEF SlackInv
  <2>1. Window[t] \in Windows /\ Limit[t] \in Nat \ {0}
    BY WindowTypes, Zenon
  <2>2. Copies(Window[t]) \in Nat \ {0}
    BY <2>1, WindowTypes, Zenon
  <2>3. Cardinality(CountedAfter(now - Window[t])) = 0
    BY <1>6
  <2>4. QED
    BY <2>1, <2>2, <2>3
<1>9. WindowLimit
  <2> SUFFICES ASSUME NEW t \in Tiers, NEW e \in 0 .. now
               PROVE  Cardinality(Between(counted, e - Window[t], e)) <= Limit[t]
    BY DEF WindowLimit
  <2>1. Between(counted, e - Window[t], e) = {}
    BY <1>1 DEF Between
  <2>2. Cardinality(Between(counted, e - Window[t], e)) = 0
    BY <2>1, FS_EmptySet
  <2>3. Limit[t] \in Nat
    BY WindowTypes
  <2>4. QED
    BY <2>2, <2>3
<1>10. QED
  BY <1>2, <1>4, <1>5, <1>7, <1>8, <1>9 DEF IInv

(* Every run of the script, every silence of Redis and every tick of its   *)
(* clock preserves the invariant of this module.                           *)
THEOREM Inductive == Spec => []IInv
<1>1. IInv /\ [Next]_vars => IInv'
  <2> SUFFICES ASSUME IInv, [Next]_vars PROVE IInv'
    OBVIOUS
  <2> USE DEF IInv
  <2>1. TypeOK'
    BY PromiseTypes, TypeStep
  <2>2. FiniteInv' /\ NumberInv' /\ LifeInv' /\ MatchInv' /\ SlackInv' /\ PromiseInv'
    BY FiniteStep, NumberStep, LifeStep, MatchStep, SlackStep, PromiseStep
  <2>3. WindowLimit'
    BY <2>1, <2>2, WindowStep
  <2>4. ClosedInv'
    <3>1. counted \subseteq counted'
      BY StepCases
    <3>2. QED
      BY <3>1, StepCases DEF ClosedInv
  <2>5. QED
    BY <2>1, <2>2, <2>3, <2>4
<1>2. QED
  BY <1>1, InitInv, PTL DEF Spec

(* Every variable of the limiter has its type in every reachable state. *)
THEOREM TypeCorrect == Spec => []TypeOK
<1>1. IInv => TypeOK
  BY DEF IInv
<1>2. QED
  BY <1>1, Inductive, PTL

(* admitOne admits at most a tier's limit of hits over any window of the   *)
(* tier's length, wherever the window ends, even when tiers share a window *)
(* and so a sorted set.                                                    *)
THEOREM LimitHolds == Spec => []WindowLimit
<1>1. IInv => WindowLimit
  BY DEF IInv
<1>2. QED
  BY <1>1, Inductive, PTL

(* RateLimit, built to fail closed, passes on no more requests than that,  *)
(* whatever replies of Redis are lost.                                     *)
THEOREM FailClosedHolds == Spec => []ServedWithinLimit
<1>1. IInv => ServedWithinLimit
  <2> SUFFICES ASSUME IInv, ~failOpen, NEW t \in Tiers, NEW e \in 0 .. now
               PROVE  Cardinality(Between(served, e - Window[t], e)) <= Limit[t]
    BY DEF ServedWithinLimit
  <2> DEFINE S == Between(served, e - Window[t], e)
             C == Between(counted, e - Window[t], e)
  <2>1. S \in SUBSET C
    BY DEF IInv, ClosedInv, Between
  <2>2. IsFiniteSet(C) /\ Cardinality(C) \in Nat
    <3>1. C \in SUBSET counted /\ IsFiniteSet(counted)
      BY DEF Between, IInv, FiniteInv
    <3>2. QED
      BY <3>1, FS_Subset, FS_CardinalityType
  <2>3. Cardinality(C) <= Limit[t] /\ Limit[t] \in Nat
    BY WindowTypes DEF IInv, WindowLimit
  <2> HIDE DEF S, C
  <2>4. Cardinality(S) <= Limit[t]
    <3>1. Cardinality(S) <= Cardinality(C) /\ Cardinality(S) \in Nat
      BY <2>1, <2>2, FS_Subset, FS_CardinalityType
    <3>2. QED
      BY <2>2, <2>3, <3>1
  <2>5. QED
    BY <2>4 DEF S
<1>2. QED
  BY <1>1, Inductive, PTL

(* A caller that comes back when Retry-After said finds room in every      *)
(* tier, unless another hit was admitted: even when tiers share a sorted   *)
(* set and a hit overfills it, the copies of the oldest leave together.    *)
THEOREM PromisesKept == Spec => []RetryAfterHonest
<1>1. IInv => RetryAfterHonest
  <2> SUFFICES ASSUME IInv, NEW p \in promises, now >= p, NEW t \in Tiers PROVE ~Full(t)
    BY DEF RetryAfterHonest, Room
  <2> DEFINE w == Window[t]
             A == Alive(w)
             B == MembersAfter(w, p - w)
  <2>1. now \in Nat /\ p \in Nat /\ w \in Windows /\ w \in Nat /\ Limit[t] \in Nat
    <3>1. w \in Windows /\ w \in Nat /\ Limit[t] \in Nat
      BY WindowTypes
    <3>2. QED
      BY <3>1 DEF IInv, TypeOK
  <2>2. p - w \in Int
    BY <2>1
  <2>3. IsFiniteSet(B) /\ Cardinality(B) \in Nat /\ HitsAt(w) \in SUBSET (Nat \X Nat)
    BY <2>1, <2>2, HitsAtTypes DEF IInv
  <2>4. A \in SUBSET B
    <3>1. \A s \in Nat : s > now - w => s > p - w
      BY <2>1
    <3>2. QED
      BY <2>3, <3>1 DEF Alive, MembersAfter
  <2>5. Cardinality(B) < Limit[t]
    BY DEF IInv, PromiseInv
  <2> HIDE DEF A, B
  <2>6. Cardinality(A) <= Cardinality(B) /\ Cardinality(A) \in Nat
    BY <2>3, <2>4, FS_Subset, FS_CardinalityType
  <2>7. ~(Cardinality(A) >= Limit[t])
    BY <2>1, <2>3, <2>5, <2>6
  <2>8. QED
    BY <2>7 DEF Full, A
<1>2. QED
  BY <1>1, Inductive, PTL

(* No two tiers share a window, as in every limiter that main.go builds. *)
DistinctWindows == \A t, u \in Tiers : Window[t] = Window[u] => t = u

(* A hit is refused only when the admitted hits fill some tier: a refused  *)
(* hit is never counted. Tiers that share a window are excepted, because   *)
(* they count a hit once each.                                             *)
THEOREM RefusalsEarned == DistinctWindows /\ Spec => []RefusedOnlyWhenSpent
<1>1. DistinctWindows /\ IInv => RefusedOnlyWhenSpent
  <2> SUFFICES ASSUME DistinctWindows, IInv, NEW t \in Tiers,
                      Cardinality(Between(counted, now - Window[t], now)) < Limit[t]
               PROVE  ~Full(t)
    BY DEF RefusedOnlyWhenSpent, Room
  <2> DEFINE w == Window[t]
             C == CountedAfter(now - w)
  <2>1. now \in Nat /\ w \in Windows /\ w \in Nat \ {0} /\ Limit[t] \in Nat
    <3>1. w \in Windows /\ w \in Nat \ {0} /\ Limit[t] \in Nat \ {0}
      BY WindowTypes, Zenon
    <3>2. QED
      BY <3>1 DEF IInv, TypeOK
  <2>2. Copies(w) = 1
    <3>1. {u \in Tiers : Window[u] = w} = {t}
      BY DEF DistinctWindows
    <3>2. QED
      BY <3>1, FS_Singleton DEF Copies
  <2>3. now - w \in Int /\ now - w \in (now - w) .. now
    BY <2>1
  <2>4. Cardinality(C) \in Nat /\ Alive(w) = MembersAfter(w, now - w)
    BY <2>1, <2>3, HitsAtTypes DEF IInv
  <2>5. Cardinality(Alive(w)) = Copies(w) * Cardinality(C)
    BY <2>1, <2>3, <2>4 DEF IInv, MatchInv
  <2>6. Cardinality(Alive(w)) = Cardinality(C)
    <3> HIDE DEF C
    <3>1. QED
      BY <2>2, <2>4, <2>5
  <2>7. C = Between(counted, now - w, now)
    <3>1. \A h \in counted : h.at \in Nat /\ h.at <= now
      BY DEF IInv, NumberInv, TypeOK, Hits
    <3>2. QED
      BY <2>1, <3>1 DEF CountedAfter, Between
  <2>8. Cardinality(Alive(w)) < Limit[t]
    BY <2>6, <2>7
  <2>9. QED
    BY <2>1, <2>4, <2>6, <2>8 DEF Full
<1>2. DistinctWindows => []DistinctWindows
  OBVIOUS
<1>3. QED
  BY <1>1, <1>2, Inductive, PTL
=============================================================================
