------------------------- MODULE OrderedListProofs -------------------------
(* Proofs about Fracdex and OrderedList, for any base, any widest integer, *)
(* any list and any number of people who reorder it.                       *)
EXTENDS OrderedList, SequenceTheorems, WellFoundedInduction, TLAPS

(* The integer part and the fraction of a key. *)
IsInteger(s) ==
    /\ s \in Seq(Int)
    /\ Len(s) > 0
    /\ s[1] \in Headers
    /\ Len(s) = integerWidth(s[1])
    /\ \A i \in 2 .. Len(s) : s[i] \in Digits

IsFraction(f) ==
    /\ f \in Seq(Int)
    /\ \A i \in 1 .. Len(f) : f[i] \in Digits
    /\ Len(f) > 0 => f[Len(f)] # 0

IsKey(k) == k \in Seq(Int) /\ Validate(k)
-----------------------------------------------------------------------------
(* Every nonempty set of naturals has a least element. *)
LEMMA LeastNat ==
  ASSUME NEW T \in SUBSET Nat, T # {}
  PROVE  \E x \in T : \A y \in T : x <= y
<1> DEFINE R == OpToRel(<, Nat)
<1>1. IsWellFoundedOn(R, Nat)
  BY NatLessThanWellFounded
<1>2. \A x, y \in Nat : x < y => <<x, y>> \in R
  BY DEF OpToRel
<1> HIDE DEF R
<1>3. PICK x \in T : \A y \in T : ~(<<y, x>> \in R)
  BY <1>1, WFMin
<1>4. ASSUME NEW y \in T, y < x PROVE FALSE
  <2>1. x \in Nat /\ y \in Nat
    OBVIOUS
  <2>2. <<y, x>> \in R
    BY <1>2, <1>4, <2>1
  <2>3. QED
    BY <1>3, <2>2, Zenon
<1>5. \A y \in T : x <= y
  BY <1>4
<1>6. QED
  BY <1>5

(* A function on an initial interval is a sequence. *)
LEMMA SeqOfFunction ==
  ASSUME NEW n \in Nat, NEW f \in [1 .. n -> Int]
  PROVE  f \in Seq(Int) /\ Len(f) = n
OBVIOUS

(* Concatenation, place by place. *)
LEMMA ConcatSeq ==
  ASSUME NEW s \in Seq(Int), NEW t \in Seq(Int)
  PROVE  /\ s \o t \in Seq(Int)
         /\ Len(s \o t) = Len(s) + Len(t)
         /\ \A i \in 1 .. Len(s) : (s \o t)[i] = s[i]
         /\ \A i \in 1 .. Len(t) : (s \o t)[Len(s) + i] = t[i]
OBVIOUS

(* A sequence cut in two, place by place. *)
LEMMA CutSeq ==
  ASSUME NEW s \in Seq(Int), NEW n \in 0 .. Len(s)
  PROVE  /\ SubSeq(s, 1, n) \in Seq(Int)
         /\ Len(SubSeq(s, 1, n)) = n
         /\ \A i \in 1 .. n : SubSeq(s, 1, n)[i] = s[i]
         /\ drop(s, n) \in Seq(Int)
         /\ Len(drop(s, n)) = Len(s) - n
         /\ \A i \in 1 .. Len(s) - n : drop(s, n)[i] = s[n + i]
         /\ s = SubSeq(s, 1, n) \o drop(s, n)
<1>1. /\ SubSeq(s, 1, n) \in Seq(Int)
      /\ Len(SubSeq(s, 1, n)) = n
      /\ \A i \in 1 .. n : SubSeq(s, 1, n)[i] = s[i]
  OBVIOUS
<1>2. /\ drop(s, n) \in Seq(Int)
      /\ Len(drop(s, n)) = Len(s) - n
      /\ \A i \in 1 .. Len(s) - n : drop(s, n)[i] = s[n + i]
  BY DEF drop
<1>3. s = SubSeq(s, 1, n) \o drop(s, n)
  <2> DEFINE t == SubSeq(s, 1, n) \o drop(s, n)
  <2>1. t \in Seq(Int) /\ Len(t) = Len(s)
    BY <1>1, <1>2, ConcatSeq
  <2>2. \A i \in 1 .. Len(s) : t[i] = s[i]
    <3> SUFFICES ASSUME NEW i \in 1 .. Len(s) PROVE t[i] = s[i]
      OBVIOUS
    <3>1. CASE i <= n
      BY <1>1, <1>2, <3>1, ConcatSeq
    <3>2. CASE i > n
      <4> DEFINE j == i - n
      <4>1. j \in 1 .. Len(s) - n /\ i = n + j
        BY <3>2
      <4>2. t[n + j] = drop(s, n)[j]
        BY <1>1, <1>2, <4>1, ConcatSeq
      <4>3. QED
        BY <1>2, <4>1, <4>2
    <3>3. i <= n \/ i > n
      OBVIOUS
    <3>4. QED
      BY <3>1, <3>2, <3>3, Zenon
  <2> HIDE DEF t
  <2>3. s = t
    BY <2>1, <2>2, SeqEqual
  <2>4. QED
    BY <2>3 DEF t
<1>4. QED
  BY <1>1, <1>2, <1>3

(* Past its end a fraction has zeros, and drop leaves them out. *)
LEMMA DropDigits ==
  ASSUME NEW s \in Seq(Int), NEW n \in Nat
  PROVE  /\ drop(s, n) \in Seq(Int)
         /\ \A i \in Nat \ {0} : DigitAt(drop(s, n), i) = DigitAt(s, n + i)
         /\ (\A i \in 1 .. Len(s) : s[i] \in Digits) =>
                \A i \in 1 .. Len(drop(s, n)) : drop(s, n)[i] \in Digits
<1>1. CASE n <= Len(s)
  <2>1. n \in 0 .. Len(s)
    BY <1>1
  <2>2. /\ drop(s, n) \in Seq(Int)
        /\ Len(drop(s, n)) = Len(s) - n
        /\ \A i \in 1 .. Len(s) - n : drop(s, n)[i] = s[n + i]
    BY <2>1, CutSeq
  <2>3. Len(s) \in Nat
    OBVIOUS
  <2>4. ASSUME NEW i \in Nat \ {0} PROVE DigitAt(drop(s, n), i) = DigitAt(s, n + i)
    <3>1. CASE i <= Len(s) - n
      <4>1. i <= Len(drop(s, n)) /\ n + i <= Len(s) /\ i \in 1 .. Len(s) - n
        BY <2>1, <2>2, <2>3, <3>1
      <4>2. QED
        BY <2>2, <4>1 DEF DigitAt
    <3>2. CASE ~(i <= Len(s) - n)
      <4>1. ~(i <= Len(drop(s, n))) /\ ~(n + i <= Len(s))
        BY <2>1, <2>2, <2>3, <3>2
      <4>2. QED
        BY <4>1 DEF DigitAt
    <3>3. QED
      BY <3>1, <3>2
  <2>5. ASSUME \A i \in 1 .. Len(s) : s[i] \in Digits, NEW i \in 1 .. Len(drop(s, n))
        PROVE  drop(s, n)[i] \in Digits
    <3>1. i \in 1 .. Len(s) - n /\ n + i \in 1 .. Len(s)
      BY <2>1, <2>2, <2>3
    <3>2. QED
      BY <2>2, <2>5, <3>1
  <2>6. QED
    BY <2>2, <2>4, <2>5
<1>2. CASE n > Len(s)
  <2>1. drop(s, n) = << >>
    BY <1>2, SubSeqEmpty DEF drop
  <2>2. Len(<< >>) = 0 /\ << >> \in Seq(Int)
    OBVIOUS
  <2>3. QED
    BY <1>2, <2>1, <2>2 DEF DigitAt
<1>3. QED
  BY <1>1, <1>2

-----------------------------------------------------------------------------
(* The order of keys that differ inside their integer parts is decided     *)
(* there, whatever their fractions.                                        *)
LEMMA IntegerBelow ==
  ASSUME NEW s \in Seq(Int), NEW t \in Seq(Int), NEW a \in Seq(Int), NEW b \in Seq(Int),
         NEW i \in 1 .. Len(s), i <= Len(t),
         \A j \in 1 .. i - 1 : s[j] = t[j], s[i] < t[i]
  PROVE  Below(s \o a, t \o b)
<1>1. /\ Len(s \o a) = Len(s) + Len(a) /\ Len(t \o b) = Len(t) + Len(b)
      /\ \A j \in 1 .. Len(s) : (s \o a)[j] = s[j]
      /\ \A j \in 1 .. Len(t) : (t \o b)[j] = t[j]
  BY ConcatSeq
<1>2. Len(s) \in Nat /\ Len(t) \in Nat /\ Len(a) \in Nat /\ Len(b) \in Nat
  OBVIOUS
<1> DEFINE u == s \o a
           v == t \o b
<1> HIDE DEF u, v
<1>3. /\ i \in 1 .. Len(v) /\ i <= Len(u) + 1
      /\ \A j \in 1 .. i - 1 : u[j] = v[j]
      /\ u[i] < v[i]
  BY <1>1, <1>2 DEF u, v
<1>4. Below(u, v)
  BY <1>3 DEF Below
<1>5. QED
  BY <1>4 DEF u, v

(* Keys with the same integer part are ordered by their fractions. *)
LEMMA FractionBelow ==
  ASSUME NEW s \in Seq(Int), NEW a \in Seq(Int), NEW b \in Seq(Int)
  PROVE  Below(s \o a, s \o b) <=> Below(a, b)
<1> DEFINE u == s \o a
           v == s \o b
           n == Len(s)
<1>1. /\ Len(u) = n + Len(a) /\ Len(v) = n + Len(b)
      /\ \A j \in 1 .. n : u[j] = s[j] /\ v[j] = s[j]
      /\ \A j \in 1 .. Len(a) : u[n + j] = a[j]
      /\ \A j \in 1 .. Len(b) : v[n + j] = b[j]
  BY ConcatSeq
<1>2. n \in Nat /\ Len(a) \in Nat /\ Len(b) \in Nat
      /\ \A j \in 1 .. n : s[j] \in Int
  OBVIOUS
<1> HIDE DEF u, v, n
<1>3. ASSUME Below(a, b) PROVE Below(u, v)
  <2>1. PICK i \in 1 .. Len(b) :
           /\ i <= Len(a) + 1
           /\ \A j \in 1 .. i - 1 : a[j] = b[j]
           /\ i <= Len(a) => a[i] < b[i]
    BY <1>3 DEF Below
  <2>2. n + i \in 1 .. Len(v) /\ n + i <= Len(u) + 1
    BY <1>1, <1>2, <2>1
  <2>3. ASSUME NEW j \in 1 .. n + i - 1 PROVE u[j] = v[j]
    <3>1. CASE j <= n
      BY <1>1, <1>2, <3>1
    <3>2. CASE j > n
      <4> DEFINE k == j - n
      <4>1. k \in 1 .. i - 1 /\ k \in 1 .. Len(a) /\ k \in 1 .. Len(b) /\ j = n + k
        BY <1>2, <2>1, <3>2
      <4> HIDE DEF k
      <4>2. QED
        BY <1>1, <2>1, <4>1
    <3>3. QED
      BY <1>2, <3>1, <3>2
  <2>4. n + i <= Len(u) => u[n + i] < v[n + i]
    BY <1>1, <1>2, <2>1
  <2> DEFINE k == n + i
  <2>5. /\ k \in 1 .. Len(v) /\ k <= Len(u) + 1
        /\ \A j \in 1 .. k - 1 : u[j] = v[j]
        /\ k <= Len(u) => u[k] < v[k]
    <3>1. k - 1 = n + i - 1
      BY <1>2
    <3>2. QED
      BY <2>2, <2>3, <2>4, <3>1
  <2> HIDE DEF k
  <2>6. QED
    BY <2>5 DEF Below
<1>4. ASSUME Below(u, v) PROVE Below(a, b)
  <2>1. PICK i \in 1 .. Len(v) :
           /\ i <= Len(u) + 1
           /\ \A j \in 1 .. i - 1 : u[j] = v[j]
           /\ i <= Len(u) => u[i] < v[i]
    BY <1>4 DEF Below
  <2>2. i > n
    <3> SUFFICES ASSUME i <= n PROVE FALSE
      BY <1>2
    <3>1. i \in 1 .. n /\ i <= Len(u)
      BY <1>1, <1>2
    <3>2. u[i] < v[i] /\ u[i] = v[i] /\ u[i] \in Int
      BY <1>1, <1>2, <2>1, <3>1
    <3>3. QED
      BY <3>2
  <2> DEFINE k == i - n
  <2>3. k \in 1 .. Len(b) /\ i = n + k /\ k <= Len(a) + 1
    BY <1>1, <1>2, <2>1, <2>2
  <2> HIDE DEF k
  <2>4. ASSUME NEW j \in 1 .. k - 1 PROVE a[j] = b[j]
    <3>1. n + j \in 1 .. i - 1 /\ j \in 1 .. Len(a) /\ j \in 1 .. Len(b)
      BY <1>2, <2>3
    <3>2. QED
      BY <1>1, <2>1, <3>1
  <2>5. ASSUME k <= Len(a) PROVE a[k] < b[k]
    <3>1. k \in 1 .. Len(a) /\ i <= Len(u)
      BY <1>1, <1>2, <2>3, <2>5
    <3>2. QED
      BY <1>1, <2>1, <2>3, <3>1
  <2>6. QED
    BY <2>3, <2>4, <2>5 DEF Below
<1>5. QED
  BY <1>3, <1>4 DEF u, v

(* A key is below every key that goes on behind it. *)
LEMMA PrefixBelow ==
  ASSUME NEW s \in Seq(Int), NEW a \in Seq(Int), Len(a) > 0
  PROVE  Below(s, s \o a)
<1> DEFINE v == s \o a
<1>1. /\ Len(v) = Len(s) + Len(a)
      /\ \A j \in 1 .. Len(s) : v[j] = s[j]
  BY ConcatSeq
<1>2. Len(s) \in Nat /\ Len(a) \in Nat
  OBVIOUS
<1> HIDE DEF v
<1>3. Len(s) + 1 \in 1 .. Len(v) /\ \A j \in 1 .. (Len(s) + 1) - 1 : s[j] = v[j]
  BY <1>1, <1>2
<1>4. Below(s, v)
  <2> DEFINE i == Len(s) + 1
  <2>1. i \in 1 .. Len(v) /\ i <= Len(s) + 1 /\ (\A j \in 1 .. i - 1 : s[j] = v[j]) /\ ~(i <= Len(s))
    BY <1>2, <1>3
  <2> HIDE DEF i
  <2>2. QED
    BY <2>1 DEF Below
<1>5. QED
  BY <1>4 DEF v

(* A fraction is below another when it is, read with its zeros. *)
LEMMA PaddedBelow ==
  ASSUME NEW a \in Seq(Int), NEW r \in Seq(Int), NEW i \in 1 .. Len(r),
         \A j \in 1 .. i - 1 : DigitAt(a, j) = r[j], DigitAt(a, i) < r[i]
  PROVE  Below(a, r)
<1>1. Len(a) \in Nat /\ Len(r) \in Nat
  OBVIOUS
<1>2. CASE i <= Len(a)
  <2>1. a[i] < r[i] /\ \A j \in 1 .. i - 1 : a[j] = r[j]
    BY <1>1, <1>2 DEF DigitAt
  <2>2. i <= Len(a) + 1
    BY <1>1, <1>2
  <2>3. QED
    BY <2>1, <2>2 DEF Below
<1>3. CASE i > Len(a)
  <2> DEFINE k == Len(a) + 1
  <2>1. k \in 1 .. Len(r) /\ k <= Len(a) + 1 /\ ~(k <= Len(a))
    BY <1>1, <1>3
  <2>2. \A j \in 1 .. k - 1 : a[j] = r[j]
    BY <1>1, <1>3 DEF DigitAt
  <2> HIDE DEF k
  <2>3. QED
    BY <2>1, <2>2 DEF Below
<1>4. QED
  BY <1>1, <1>2, <1>3
-----------------------------------------------------------------------------
(* Digits are integers, and there are at least two. *)
LEMMA DigitTypes ==
  /\ Base \in Nat /\ Base > 1 /\ top \in Digits /\ top > 0 /\ 0 \in Digits
  /\ \A d \in Digits : d \in Nat /\ d <= top
  /\ \A d \in Int : d >= 0 /\ d <= top => d \in Digits
  /\ top = Base - 1
BY BaseAssumption DEF Digits, top

(* The digit past the end of a fraction is zero. *)
LEMMA DigitAtType ==
  ASSUME NEW a \in Seq(Int), \A i \in 1 .. Len(a) : a[i] \in Digits, NEW i \in Nat \ {0}
  PROVE  DigitAt(a, i) \in Digits
<1>1. CASE i <= Len(a)
  <2>1. i \in 1 .. Len(a)
    BY <1>1
  <2>2. QED
    BY <1>1, <2>1 DEF DigitAt
<1>2. CASE ~(i <= Len(a))
  BY <1>2, DigitTypes DEF DigitAt
<1>3. QED
  BY <1>1, <1>2

(* r names a place above a: they agree up to some digit, and there r's is  *)
(* the larger.                                                             *)
Above(r, a) ==
    \E i \in 1 .. Len(r) :
        /\ \A j \in 1 .. i - 1 : DigitAt(a, j) = r[j]
        /\ DigitAt(a, i) < r[i]

(* midpointAfter answers a fraction above the one it is given. *)
LEMMA MidpointAfterCorrect ==
  ASSUME NEW a \in Seq(Int), \A i \in 1 .. Len(a) : a[i] \in Digits
  PROVE  IsFraction(midpointAfter(a)) /\ Len(midpointAfter(a)) > 0 /\ Above(midpointAfter(a), a)
<1> DEFINE P(k) == (\A i \in 1 .. k : a[i] = top) /\ DigitAt(a, k + 1) # top
           T == {i \in 1 .. Len(a) : a[i] # top}
           n == CHOOSE k \in 0 .. Len(a) : P(k)
           d == (DigitAt(a, n + 1) + Base + 1) \div 2
           r == Append(SubSeq(a, 1, n), d)
<1>1. Len(a) \in Nat
  OBVIOUS
<1>2. \E k \in 0 .. Len(a) : P(k)
  <2>1. CASE T = {}
    <3>1. \A i \in 1 .. Len(a) : a[i] = top
      BY <2>1
    <3>2. DigitAt(a, Len(a) + 1) = 0
      BY <1>1 DEF DigitAt
    <3>3. P(Len(a)) /\ Len(a) \in 0 .. Len(a)
      BY <1>1, <3>1, <3>2, DigitTypes
    <3>4. QED
      BY <3>3
  <2>2. CASE T # {}
    <3>1. T \in SUBSET Nat
      OBVIOUS
    <3>2. PICK x \in T : \A y \in T : x <= y
      <4> HIDE DEF T
      <4>1. QED
        BY <2>2, <3>1, LeastNat
    <3>3. x \in 1 .. Len(a) /\ a[x] # top
      OBVIOUS
    <3>4. ASSUME NEW i \in 1 .. x - 1 PROVE a[i] = top
      <4>1. i \in 1 .. Len(a) /\ ~(x <= i)
        BY <1>1, <3>3
      <4>2. i \notin T
        BY <3>2, <4>1
      <4>3. QED
        BY <4>1, <4>2
    <3>5. DigitAt(a, (x - 1) + 1) # top
      BY <1>1, <3>3 DEF DigitAt
    <3>6. x - 1 \in 0 .. Len(a)
      BY <1>1, <3>3
    <3>7. P(x - 1)
      BY <3>4, <3>5
    <3> HIDE DEF P
    <3>8. QED
      BY <3>6, <3>7
  <2>3. QED
    BY <2>1, <2>2
<1>3. n \in 0 .. Len(a) /\ P(n)
  <2> HIDE DEF P
  <2>1. QED
    BY <1>2
<1>4. midpointAfter(a) = r
  BY DEF midpointAfter
<1> HIDE DEF n
<1>5. DigitAt(a, n + 1) \in Digits /\ DigitAt(a, n + 1) # top
  <2>1. n + 1 \in Nat \ {0}
    BY <1>1, <1>3
  <2>2. QED
    BY <1>3, <2>1, DigitAtType
<1>6. d \in Digits /\ d > DigitAt(a, n + 1) /\ d # 0 /\ d \in Int
  <2> DEFINE e == DigitAt(a, n + 1)
  <2> HIDE DEF e
  <2>1. e \in Nat /\ e <= Base - 2 /\ Base \in Nat
    <3>1. e \in Digits /\ e # top
      BY <1>5 DEF e
    <3>2. e \in Nat /\ e <= top /\ top = Base - 1 /\ Base \in Nat
      BY <3>1, DigitTypes
    <3>3. QED
      BY <3>1, <3>2
  <2>2. (e + Base + 1) \div 2 \in Nat /\ (e + Base + 1) \div 2 <= Base - 1 /\ (e + Base + 1) \div 2 > e
    BY <2>1
  <2>3. QED
    BY <2>1, <2>2, DigitTypes DEF e
<1> HIDE DEF d
<1>7. /\ r \in Seq(Int) /\ Len(r) = n + 1
      /\ \A i \in 1 .. n : r[i] = a[i]
      /\ r[n + 1] = d
  <2>1. /\ SubSeq(a, 1, n) \in Seq(Int)
        /\ Len(SubSeq(a, 1, n)) = n
        /\ \A i \in 1 .. n : SubSeq(a, 1, n)[i] = a[i]
    BY <1>3, CutSeq
  <2> DEFINE q == SubSeq(a, 1, n)
  <2> HIDE DEF q
  <2>2. /\ Append(q, d) \in Seq(Int) /\ Len(Append(q, d)) = Len(q) + 1
        /\ \A i \in 1 .. Len(q) : Append(q, d)[i] = q[i]
        /\ Append(q, d)[Len(q) + 1] = d
    BY <1>6, <2>1, AppendProperties DEF q
  <2>3. QED
    BY <2>1, <2>2 DEF q
<1> HIDE DEF r
<1>8. n \in Nat /\ n <= Len(a)
  BY <1>1, <1>3
<1>9. ASSUME NEW i \in 1 .. Len(r) PROVE r[i] \in Digits
  <2>1. CASE i = n + 1
    BY <1>6, <1>7, <2>1
  <2>2. CASE i # n + 1
    <3>1. i \in 1 .. n /\ i \in 1 .. Len(a)
      BY <1>1, <1>7, <1>8, <2>2
    <3>2. QED
      BY <1>7, <3>1
  <2>3. QED
    BY <2>1, <2>2
<1>10. IsFraction(r) /\ Len(r) > 0
  BY <1>6, <1>7, <1>8, <1>9 DEF IsFraction
<1>11. Above(r, a)
  <2> DEFINE i == n + 1
  <2>1. i \in 1 .. Len(r) /\ DigitAt(a, i) < r[i]
    BY <1>5, <1>6, <1>7, <1>8, DigitTypes
  <2>2. ASSUME NEW j \in 1 .. i - 1 PROVE DigitAt(a, j) = r[j]
    <3>1. j \in 1 .. n /\ j <= Len(a)
      BY <1>1, <1>8
    <3>2. QED
      BY <1>7, <3>1 DEF DigitAt
  <2> HIDE DEF i
  <2>3. QED
    BY <2>1, <2>2 DEF Above
<1>12. QED
  BY <1>4, <1>10, <1>11

(* Where two fractions part, the lower one read with zeros. *)
LEMMA CommonPrefix ==
  ASSUME NEW a \in Seq(Int), NEW b \in Seq(Int), IsFraction(a), IsFraction(b), Below(a, b)
  PROVE  /\ commonPrefixLen(a, b) \in 0 .. Len(b) - 1
         /\ \A i \in 1 .. commonPrefixLen(a, b) : DigitAt(a, i) = b[i]
         /\ DigitAt(a, commonPrefixLen(a, b) + 1) < b[commonPrefixLen(a, b) + 1]
<1> DEFINE P(n) == (\A i \in 1 .. n : DigitAt(a, i) = b[i])
                      /\ (n < Len(b) => DigitAt(a, n + 1) # b[n + 1])
           T == {i \in 1 .. Len(b) : DigitAt(a, i) # b[i]}
           n == commonPrefixLen(a, b)
<1>1. /\ Len(a) \in Nat /\ Len(b) \in Nat
      /\ \A i \in 1 .. Len(a) : a[i] \in Digits
      /\ \A i \in 1 .. Len(b) : b[i] \in Digits /\ b[i] \in Nat
      /\ Len(b) > 0 => b[Len(b)] # 0
  BY DigitTypes DEF IsFraction
<1>2. PICK p \in 1 .. Len(b) :
         /\ p <= Len(a) + 1
         /\ \A j \in 1 .. p - 1 : a[j] = b[j]
         /\ p <= Len(a) => a[p] < b[p]
  BY DEF Below
<1>3. \E k \in 0 .. Len(b) : P(k)
  <2>1. CASE T = {}
    <3>1. P(Len(b)) /\ Len(b) \in 0 .. Len(b)
      <4>1. \A i \in 1 .. Len(b) : DigitAt(a, i) = b[i]
        BY <2>1
      <4>2. ~(Len(b) < Len(b)) /\ Len(b) \in 0 .. Len(b)
        BY <1>1
      <4>3. QED
        BY <4>1, <4>2
    <3>2. QED
      BY <3>1
  <2>2. CASE T # {}
    <3>1. T \in SUBSET Nat
      OBVIOUS
    <3>2. PICK x \in T : \A y \in T : x <= y
      <4> HIDE DEF T
      <4>1. QED
        BY <2>2, <3>1, LeastNat
    <3>3. x \in 1 .. Len(b) /\ DigitAt(a, x) # b[x]
      OBVIOUS
    <3>4. ASSUME NEW i \in 1 .. x - 1 PROVE DigitAt(a, i) = b[i]
      <4>1. i \in 1 .. Len(b) /\ ~(x <= i)
        BY <1>1, <3>3
      <4>2. i \notin T
        BY <3>2, <4>1
      <4>3. QED
        BY <4>1, <4>2
    <3>5. (x - 1) + 1 = x /\ x - 1 \in 0 .. Len(b)
      BY <1>1, <3>3
    <3>6. P(x - 1)
      BY <3>3, <3>4, <3>5
    <3> HIDE DEF P
    <3>7. QED
      BY <3>5, <3>6
  <2>3. QED
    BY <2>1, <2>2
<1>4. n \in 0 .. Len(b) /\ P(n)
  <2>1. n = CHOOSE k \in 0 .. Len(b) : P(k)
    BY DEF commonPrefixLen
  <2> HIDE DEF P, n
  <2>2. QED
    BY <1>3, <2>1
<1> HIDE DEF n
<1>5. ASSUME NEW i \in 1 .. Len(a) PROVE DigitAt(a, i) = a[i]
  BY DEF DigitAt
<1>6. ASSUME NEW i \in Nat, i > Len(a) PROVE DigitAt(a, i) = 0
  BY <1>1, <1>6 DEF DigitAt
<1>7. p > n \/ p = Len(a) + 1
  <2> SUFFICES ASSUME p <= n, p <= Len(a) PROVE FALSE
    BY <1>1, <1>2, <1>4
  <2>1. p \in 1 .. n /\ p \in 1 .. Len(a)
    BY <1>1, <1>4
  <2>2. a[p] = b[p] /\ a[p] < b[p] /\ b[p] \in Nat
    BY <1>1, <1>2, <1>4, <1>5, <2>1
  <2>3. QED
    BY <2>2
<1>8. n < Len(b)
  <2> SUFFICES ASSUME n = Len(b) PROVE FALSE
    BY <1>1, <1>4
  <2>1. p = Len(a) + 1 /\ Len(b) > Len(a)
    BY <1>1, <1>2, <1>7
  <2>2. Len(b) \in 1 .. n /\ DigitAt(a, Len(b)) = 0
    BY <1>1, <1>6, <2>1
  <2>3. b[Len(b)] = 0
    BY <1>4, <2>2
  <2>4. QED
    BY <1>1, <2>1, <2>3
<1>9. DigitAt(a, n + 1) # b[n + 1] /\ n + 1 \in 1 .. Len(b) /\ b[n + 1] \in Nat
  BY <1>1, <1>4, <1>8
<1>10. DigitAt(a, n + 1) < b[n + 1]
  <2>1. CASE n + 1 > Len(a)
    <3>1. DigitAt(a, n + 1) = 0
      BY <1>4, <1>6, <2>1
    <3>2. QED
      BY <1>9, <3>1
  <2>2. CASE n + 1 <= Len(a)
    <3>1. n + 1 \in 1 .. Len(a) /\ DigitAt(a, n + 1) = a[n + 1]
      BY <1>1, <1>4, <1>5, <2>2
    <3>2. p > n
      BY <1>1, <1>4, <1>7, <2>2
    <3>3. p = n + 1
      <4> SUFFICES ASSUME n + 1 \in 1 .. p - 1 PROVE FALSE
        BY <1>4, <3>2
      <4>1. a[n + 1] = b[n + 1]
        BY <1>2
      <4>2. QED
        BY <1>9, <3>1, <4>1
    <3>4. a[n + 1] < b[n + 1]
      BY <1>2, <2>2, <3>3
    <3>5. QED
      BY <3>1, <3>4
  <2>3. QED
    BY <1>1, <1>4, <2>1, <2>2
<1>11. QED
  BY <1>1, <1>4, <1>8, <1>10 DEF n

(* The first digits of a fraction and one more, place by place. *)
LEMMA SharedDigits ==
  ASSUME NEW b \in Seq(Int), \A i \in 1 .. Len(b) : b[i] \in Digits,
         NEW n \in 0 .. Len(b), NEW d \in Digits
  PROVE  LET r == Append(SubSeq(b, 1, n), d)
         IN  /\ r \in Seq(Int) /\ Len(r) = n + 1
             /\ \A i \in 1 .. n : r[i] = b[i]
             /\ r[n + 1] = d
             /\ \A i \in 1 .. Len(r) : r[i] \in Digits
<1> DEFINE q == SubSeq(b, 1, n)
           r == Append(q, d)
<1>1. Len(b) \in Nat /\ d \in Int
  BY DigitTypes
<1>2. q \in Seq(Int) /\ Len(q) = n /\ \A i \in 1 .. n : q[i] = b[i]
  BY CutSeq
<1> HIDE DEF q
<1>3. /\ r \in Seq(Int) /\ Len(r) = Len(q) + 1
      /\ \A i \in 1 .. Len(q) : r[i] = q[i]
      /\ r[Len(q) + 1] = d
  BY <1>1, <1>2, AppendProperties
<1> HIDE DEF r
<1>4. ASSUME NEW i \in 1 .. Len(r) PROVE r[i] \in Digits
  <2>1. i = n + 1 \/ (i \in 1 .. n /\ i \in 1 .. Len(b))
    BY <1>1, <1>2, <1>3
  <2>2. QED
    BY <1>2, <1>3, <2>1
<1>5. /\ r \in Seq(Int) /\ Len(r) = n + 1
      /\ \A i \in 1 .. n : r[i] = b[i]
      /\ r[n + 1] = d
      /\ \A i \in 1 .. Len(r) : r[i] \in Digits
  BY <1>2, <1>3, <1>4
<1>6. QED
  BY <1>5 DEF r, q

(* midpoint answers a fraction strictly between two others. *)
LEMMA MidpointCorrect ==
  ASSUME NEW a \in Seq(Int), NEW b \in Seq(Int), IsFraction(a), IsFraction(b), Below(a, b)
  PROVE  /\ IsFraction(midpoint(a, b)) /\ Len(midpoint(a, b)) > 0
         /\ Below(a, midpoint(a, b)) /\ Below(midpoint(a, b), b)
<1> DEFINE n == commonPrefixLen(a, b)
           low == DigitAt(a, n + 1)
           high == b[n + 1]
           Good(r) == IsFraction(r) /\ Len(r) > 0 /\ Below(a, r) /\ Below(r, b)
<1>1. /\ n \in 0 .. Len(b) - 1
      /\ \A i \in 1 .. n : DigitAt(a, i) = b[i]
      /\ low < high
  BY CommonPrefix
<1> HIDE DEF n
<1>2. /\ Len(a) \in Nat /\ Len(b) \in Nat
      /\ \A i \in 1 .. Len(a) : a[i] \in Digits
      /\ \A i \in 1 .. Len(b) : b[i] \in Digits
  BY DEF IsFraction
<1>3. n \in Nat /\ n \in 0 .. Len(b) /\ n + 1 \in 1 .. Len(b) /\ n + 1 \in Nat \ {0}
  BY <1>1, <1>2
<1>4. low \in Digits /\ high \in Digits /\ low \in Nat /\ high \in Nat /\ high <= top /\ top = Base - 1
  BY <1>2, <1>3, DigitAtType, DigitTypes
<1> HIDE DEF low, high
<1>5. DigitAt(a, n + 1) = low /\ b[n + 1] = high
  BY DEF low, high
(* A digit above low behind the shared ones is above a. *)
<1>6. ASSUME NEW r \in Seq(Int), Len(r) >= n + 1, \A i \in 1 .. n : r[i] = b[i], low < r[n + 1]
      PROVE  Below(a, r)
  <2> DEFINE i == n + 1
  <2>1. i \in 1 .. Len(r)
    BY <1>3, <1>6
  <2>2. ASSUME NEW j \in 1 .. i - 1 PROVE DigitAt(a, j) = r[j]
    <3>1. j \in 1 .. n
      BY <1>3
    <3>2. QED
      BY <1>1, <1>6, <3>1
  <2>3. DigitAt(a, i) < r[i]
    BY <1>5, <1>6
  <2> HIDE DEF i
  <2>4. QED
    BY <2>1, <2>2, <2>3, PaddedBelow
(* A digit below high behind the shared ones is below b. *)
<1>7. ASSUME NEW r \in Seq(Int), Len(r) >= n + 1, \A i \in 1 .. n : r[i] = b[i], r[n + 1] < high
      PROVE  Below(r, b)
  <2> DEFINE i == n + 1
  <2>1. i \in 1 .. Len(b) /\ i <= Len(r) + 1
    BY <1>3, <1>7
  <2>2. ASSUME NEW j \in 1 .. i - 1 PROVE r[j] = b[j]
    <3>1. j \in 1 .. n
      BY <1>3
    <3>2. QED
      BY <1>7, <3>1
  <2>3. r[i] < b[i]
    BY <1>5, <1>7
  <2> HIDE DEF i
  <2>4. QED
    BY <2>1, <2>2, <2>3 DEF Below
<1>8. ASSUME high - low > 1 PROVE Good(Append(SubSeq(b, 1, n), (low + high + 1) \div 2))
  <2> DEFINE d == (low + high + 1) \div 2
             r == Append(SubSeq(b, 1, n), d)
  <2>1. d \in Nat /\ low < d /\ d < high
    BY <1>4, <1>8
  <2>2. d \in Digits /\ d # 0
    BY <1>4, <2>1, DigitTypes
  <2> HIDE DEF d
  <2>3. /\ r \in Seq(Int) /\ Len(r) = n + 1
        /\ \A i \in 1 .. n : r[i] = b[i]
        /\ r[n + 1] = d
        /\ \A i \in 1 .. Len(r) : r[i] \in Digits
    BY <1>2, <1>3, <2>2, SharedDigits
  <2> HIDE DEF r
  <2>4. IsFraction(r) /\ Len(r) > 0
    BY <1>3, <2>2, <2>3 DEF IsFraction
  <2>5. Len(r) >= n + 1
    BY <1>3, <2>3
  <2>6. Below(a, r)
    BY <1>6, <2>1, <2>3, <2>5
  <2>7. Below(r, b)
    BY <1>7, <2>1, <2>3, <2>5
  <2>8. QED
    BY <2>4, <2>6, <2>7 DEF r, d
<1>9. ASSUME Len(b) > n + 1 PROVE Good(Append(SubSeq(b, 1, n), high))
  <2> DEFINE r == Append(SubSeq(b, 1, n), high)
  <2>1. /\ r \in Seq(Int) /\ Len(r) = n + 1
        /\ \A i \in 1 .. n : r[i] = b[i]
        /\ r[n + 1] = high
        /\ \A i \in 1 .. Len(r) : r[i] \in Digits
    BY <1>2, <1>3, <1>4, SharedDigits
  <2> HIDE DEF r
  <2>2. high # 0
    BY <1>1, <1>4
  <2>3. IsFraction(r) /\ Len(r) > 0
    BY <1>3, <2>1, <2>2 DEF IsFraction
  <2>4. Below(a, r)
    <3>1. Len(r) >= n + 1
      BY <1>3, <2>1
    <3>2. QED
      BY <1>1, <1>6, <2>1, <3>1
  <2>5. Below(r, b)
    <3> DEFINE i == n + 2
    <3>1. i \in 1 .. Len(b) /\ i <= Len(r) + 1 /\ ~(i <= Len(r))
      BY <1>2, <1>3, <1>9, <2>1
    <3>2. ASSUME NEW j \in 1 .. i - 1 PROVE r[j] = b[j]
      <4>1. j \in 1 .. n \/ j = n + 1
        BY <1>3
      <4>2. QED
        BY <1>5, <2>1, <4>1
    <3> HIDE DEF i
    <3>3. QED
      BY <3>1, <3>2 DEF Below
  <2>6. QED
    BY <2>3, <2>4, <2>5 DEF r
<1>10. Good(Append(SubSeq(b, 1, n), low) \o midpointAfter(drop(a, n + 1)))
  <2> DEFINE q == Append(SubSeq(b, 1, n), low)
             e == drop(a, n + 1)
             m == midpointAfter(e)
             r == q \o m
  <2>1. /\ q \in Seq(Int) /\ Len(q) = n + 1
        /\ \A i \in 1 .. n : q[i] = b[i]
        /\ q[n + 1] = low
        /\ \A i \in 1 .. Len(q) : q[i] \in Digits
    BY <1>2, <1>3, <1>4, SharedDigits
  <2>2. /\ e \in Seq(Int)
        /\ \A i \in Nat \ {0} : DigitAt(e, i) = DigitAt(a, (n + 1) + i)
        /\ \A i \in 1 .. Len(e) : e[i] \in Digits
    BY <1>2, <1>3, DropDigits
  <2> HIDE DEF q, e
  <2>3. IsFraction(m) /\ Len(m) > 0 /\ Above(m, e)
    BY <2>2, MidpointAfterCorrect
  <2> HIDE DEF m
  <2>4. /\ m \in Seq(Int) /\ Len(m) \in Nat /\ m[Len(m)] # 0
        /\ \A i \in 1 .. Len(m) : m[i] \in Digits
    BY <2>3 DEF IsFraction
  <2>5. /\ r \in Seq(Int) /\ Len(r) = (n + 1) + Len(m)
        /\ \A i \in 1 .. n + 1 : r[i] = q[i]
        /\ \A i \in 1 .. Len(m) : r[(n + 1) + i] = m[i]
    <3>1. /\ r \in Seq(Int) /\ Len(r) = Len(q) + Len(m)
          /\ \A i \in 1 .. Len(q) : r[i] = q[i]
          /\ \A i \in 1 .. Len(m) : r[Len(q) + i] = m[i]
      BY <2>1, <2>4, ConcatSeq
    <3> HIDE DEF r
    <3>2. QED
      BY <2>1, <3>1
  <2> HIDE DEF r
  <2>6. ASSUME NEW i \in 1 .. Len(r) PROVE r[i] \in Digits
    <3>1. CASE i <= n + 1
      <4>1. i \in 1 .. n + 1 /\ i \in 1 .. Len(q)
        BY <1>3, <2>1, <3>1
      <4>2. QED
        BY <2>1, <2>5, <4>1
    <3>2. CASE i > n + 1
      <4> DEFINE j == i - (n + 1)
      <4>1. j \in 1 .. Len(m) /\ i = (n + 1) + j
        BY <1>3, <2>4, <2>5, <3>2
      <4> HIDE DEF j
      <4>2. QED
        BY <2>4, <2>5, <4>1
    <3>3. QED
      BY <1>3, <2>5, <3>1, <3>2
  <2>7. IsFraction(r) /\ Len(r) > 0
    <3>1. Len(m) \in 1 .. Len(m) /\ Len(r) > 0
      BY <1>3, <2>3, <2>4, <2>5
    <3>2. r[Len(r)] # 0
      BY <2>4, <2>5, <3>1
    <3>3. QED
      BY <2>5, <2>6, <3>1, <3>2 DEF IsFraction
  <2>8. \A i \in 1 .. n : r[i] = b[i]
    <3>1. \A i \in 1 .. n : i \in 1 .. n + 1
      BY <1>3
    <3>2. QED
      BY <2>1, <2>5, <3>1
  <2>9. r[n + 1] = low
    <3>1. n + 1 \in 1 .. n + 1
      BY <1>3
    <3>2. QED
      BY <2>1, <2>5, <3>1
  <2>10. Below(r, b)
    <3>1. Len(r) >= n + 1
      BY <1>3, <2>4, <2>5
    <3>2. QED
      BY <1>1, <1>7, <2>5, <2>8, <2>9, <3>1
  <2>11. Below(a, r)
    <3>1. PICK k \in 1 .. Len(m) :
             /\ \A j \in 1 .. k - 1 : DigitAt(e, j) = m[j]
             /\ DigitAt(e, k) < m[k]
      BY <2>3 DEF Above
    <3> DEFINE i == (n + 1) + k
    <3>2. i \in 1 .. Len(r) /\ r[i] = m[k] /\ k \in Nat \ {0}
      BY <1>3, <2>4, <2>5, <3>1
    <3>3. DigitAt(a, i) < r[i]
      BY <2>2, <3>1, <3>2
    <3>4. ASSUME NEW j \in 1 .. i - 1 PROVE DigitAt(a, j) = r[j]
      <4>1. CASE j <= n
        <5>1. j \in 1 .. n
          BY <4>1
        <5>2. QED
          BY <1>1, <2>8, <5>1
      <4>2. CASE j = n + 1
        BY <1>5, <2>9, <4>2
      <4>3. CASE j > n + 1
        <5> DEFINE l == j - (n + 1)
        <5>1. l \in 1 .. k - 1 /\ l \in 1 .. Len(m) /\ l \in Nat \ {0} /\ j = (n + 1) + l
          BY <1>3, <2>4, <4>3
        <5> HIDE DEF l
        <5>2. DigitAt(e, l) = m[l] /\ r[j] = m[l]
          BY <2>5, <3>1, <5>1
        <5>3. DigitAt(e, l) = DigitAt(a, j)
          BY <2>2, <5>1
        <5>4. QED
          BY <5>2, <5>3
      <4>4. QED
        BY <1>3, <4>1, <4>2, <4>3
    <3> HIDE DEF i
    <3>5. QED
      BY <2>5, <3>2, <3>3, <3>4, PaddedBelow
  <2>12. QED
    BY <2>7, <2>10, <2>11 DEF r, q, e, m
<1>11. Good(midpoint(a, b))
  <2> HIDE DEF Good
  <2>1. \/ high - low > 1 /\ midpoint(a, b) = Append(SubSeq(b, 1, n), (low + high + 1) \div 2)
        \/ Len(b) > n + 1 /\ midpoint(a, b) = Append(SubSeq(b, 1, n), high)
        \/ midpoint(a, b) = Append(SubSeq(b, 1, n), low) \o midpointAfter(drop(a, n + 1))
    <3>1. CASE high - low > 1
      <4>1. ~(high - low <= 1)
        BY <1>4, <3>1
      <4>2. QED
        BY <3>1, <4>1 DEF midpoint, n, low, high
    <3>2. CASE ~(high - low > 1) /\ Len(b) > n + 1
      <4>1. high - low <= 1
        BY <1>4, <3>2
      <4>2. QED
        BY <3>2, <4>1 DEF midpoint, n, low, high
    <3>3. CASE ~(high - low > 1) /\ ~(Len(b) > n + 1)
      BY <3>3 DEF midpoint, n, low, high
    <3>4. QED
      BY <3>1, <3>2, <3>3
  <2>2. QED
    BY <1>8, <1>9, <1>10, <2>1
<1>12. QED
  BY <1>11
-----------------------------------------------------------------------------
(* A header announces at least one digit. *)
LEMMA HeaderTypes ==
  /\ Widest \in Nat /\ Widest > 0
  /\ \A h \in Headers : /\ h \in Int /\ h # 0 /\ -Widest <= h /\ h <= Widest
                        /\ integerWidth(h) \in Nat /\ integerWidth(h) >= 2
                        /\ h > 0 => integerWidth(h) = h + 1
                        /\ h < 0 => integerWidth(h) = -h + 1
  /\ \A h \in Int : h # 0 /\ -Widest <= h /\ h <= Widest => h \in Headers
BY WidestAssumption DEF Headers, integerWidth

(* A header and the digits behind it, place by place. *)
LEMMA HeaderAndDigits ==
  ASSUME NEW h \in Int, NEW n \in Nat, NEW f \in [1 .. n -> Int]
  PROVE  /\ <<h>> \o f \in Seq(Int)
         /\ Len(<<h>> \o f) = n + 1
         /\ (<<h>> \o f)[1] = h
         /\ \A i \in 1 .. n : (<<h>> \o f)[i + 1] = f[i]
<1>1. f \in Seq(Int) /\ Len(f) = n
  BY SeqOfFunction
<1> DEFINE s == <<h>>
<1>2. s \in Seq(Int) /\ Len(s) = 1 /\ s[1] = h
  OBVIOUS
<1> HIDE DEF s
<1>3. /\ s \o f \in Seq(Int)
      /\ Len(s \o f) = Len(s) + Len(f)
      /\ \A i \in 1 .. Len(s) : (s \o f)[i] = s[i]
      /\ \A i \in 1 .. Len(f) : (s \o f)[Len(s) + i] = f[i]
  BY <1>1, <1>2, ConcatSeq
<1> DEFINE r == s \o f
<1> HIDE DEF r
<1>4. /\ r \in Seq(Int)
      /\ Len(r) = n + 1
      /\ r[1] = h
      /\ \A i \in 1 .. n : r[i + 1] = f[i]
  <2>1. \A i \in 1 .. n : 1 + i = i + 1
    OBVIOUS
  <2>2. QED
    BY <1>1, <1>2, <1>3, <2>1 DEF r
<1>5. QED
  BY <1>4 DEF r, s

(* A header and as many digits as it announces are an integer part. *)
LEMMA MakeInteger ==
  ASSUME NEW h \in Headers, NEW f \in [1 .. integerWidth(h) - 1 -> Digits]
  PROVE  /\ IsInteger(<<h>> \o f)
         /\ Len(<<h>> \o f) = integerWidth(h)
         /\ (<<h>> \o f)[1] = h
         /\ \A i \in 2 .. integerWidth(h) : (<<h>> \o f)[i] = f[i - 1]
<1> DEFINE w == integerWidth(h)
           n == w - 1
           r == <<h>> \o f
<1>1. h \in Int /\ w \in Nat /\ w >= 2
  BY HeaderTypes
<1>2. n \in Nat /\ w = n + 1
  BY <1>1
<1>3. f \in [1 .. n -> Int] /\ \A i \in 1 .. n : f[i] \in Digits
  <2>1. \A d \in Digits : d \in Int
    BY DigitTypes
  <2>2. QED
    BY <2>1
<1> HIDE DEF n
<1>4. /\ r \in Seq(Int) /\ Len(r) = n + 1 /\ r[1] = h
      /\ \A i \in 1 .. n : r[i + 1] = f[i]
  BY <1>1, <1>2, <1>3, HeaderAndDigits
<1> HIDE DEF r
<1>5. ASSUME NEW i \in 2 .. w PROVE r[i] = f[i - 1] /\ r[i] \in Digits
  <2> DEFINE j == i - 1
  <2>1. j \in 1 .. n /\ i = j + 1
    BY <1>1, <1>2
  <2> HIDE DEF j
  <2>2. r[i] = f[j] /\ f[j] \in Digits
    BY <1>3, <1>4, <2>1
  <2>3. QED
    BY <2>2 DEF j
<1>6. IsInteger(r)
  BY <1>1, <1>2, <1>4, <1>5 DEF IsInteger
<1>7. QED
  BY <1>2, <1>4, <1>5, <1>6 DEF r

(* smallestInteger is an integer part: the lowest header and zeros. *)
LEMMA FloorType ==
  /\ IsInteger(smallestInteger)
  /\ Len(smallestInteger) = Widest + 1
  /\ smallestInteger[1] = -Widest
  /\ \A i \in 2 .. Widest + 1 : smallestInteger[i] = 0
<1> DEFINE h == -Widest
           f == [i \in 1 .. Widest |-> 0]
<1>1. h \in Headers /\ integerWidth(h) = Widest + 1 /\ Widest \in Nat
  BY HeaderTypes
<1>2. integerWidth(h) - 1 = Widest
  BY <1>1
<1>3. f \in [1 .. integerWidth(h) - 1 -> Digits]
  BY <1>2, DigitTypes
<1>4. smallestInteger = <<h>> \o f
  BY DEF smallestInteger
<1>5. \A i \in 2 .. Widest + 1 : f[i - 1] = 0
  BY <1>1
<1> HIDE DEF f, h
<1>6. /\ IsInteger(<<h>> \o f)
      /\ Len(<<h>> \o f) = integerWidth(h)
      /\ (<<h>> \o f)[1] = h
      /\ \A i \in 2 .. integerWidth(h) : (<<h>> \o f)[i] = f[i - 1]
  BY <1>1, <1>3, MakeInteger
<1>7. QED
  BY <1>1, <1>4, <1>5, <1>6 DEF h

(* An integer part and a fraction are a key, unless they are the floor of  *)
(* the space, and the key splits into them again.                          *)
LEMMA Compose ==
  ASSUME NEW s, NEW f, IsInteger(s), IsFraction(f), Len(f) > 0 \/ s # smallestInteger
  PROVE  IsKey(s \o f) /\ integer(s \o f) = s /\ fraction(s \o f) = f
<1> DEFINE k == s \o f
           w == Len(s)
<1>1. /\ s \in Seq(Int) /\ f \in Seq(Int)
      /\ s[1] \in Headers /\ w = integerWidth(s[1])
      /\ \A i \in 2 .. w : s[i] \in Digits
      /\ \A i \in 1 .. Len(f) : f[i] \in Digits
      /\ Len(f) > 0 => f[Len(f)] # 0
  BY DEF IsInteger, IsFraction
<1>2. w \in Nat /\ Len(f) \in Nat /\ w >= 2
  BY <1>1, HeaderTypes
<1>3. /\ k \in Seq(Int) /\ Len(k) = w + Len(f)
      /\ \A i \in 1 .. w : k[i] = s[i]
      /\ \A i \in 1 .. Len(f) : k[w + i] = f[i]
  BY <1>1, ConcatSeq
<1>4. Len(f) = 0 => k = s
  <2> SUFFICES ASSUME Len(f) = 0 PROVE k = s
    OBVIOUS
  <2>1. Len(k) = Len(s)
    BY <1>2, <1>3
  <2> HIDE DEF k
  <2>2. QED
    BY <1>1, <1>3, <2>1, SeqEqual
<1> HIDE DEF k, w
<1>5. k[1] = s[1] /\ integerWidth(k[1]) = w /\ w \in 0 .. Len(k)
  BY <1>1, <1>2, <1>3
<1>6. integer(k) = s
  <2>1. /\ integer(k) \in Seq(Int) /\ Len(integer(k)) = w
        /\ \A i \in 1 .. w : integer(k)[i] = k[i]
    BY <1>3, <1>5, CutSeq DEF integer
  <2>2. Len(integer(k)) = Len(s) /\ \A i \in 1 .. Len(s) : integer(k)[i] = s[i]
    BY <1>3, <2>1 DEF w
  <2>3. QED
    BY <1>1, <2>1, <2>2, SeqEqual
<1>7. fraction(k) = f
  <2>1. /\ fraction(k) \in Seq(Int) /\ Len(fraction(k)) = Len(k) - w
        /\ \A i \in 1 .. Len(k) - w : fraction(k)[i] = k[w + i]
    BY <1>3, <1>5, CutSeq DEF fraction
  <2>2. Len(k) - w = Len(f)
    BY <1>2, <1>3
  <2>3. Len(fraction(k)) = Len(f) /\ \A i \in 1 .. Len(f) : fraction(k)[i] = f[i]
    BY <1>3, <2>1, <2>2
  <2>4. QED
    BY <1>1, <2>1, <2>3, SeqEqual
<1>8. k # smallestInteger
  <2>1. CASE Len(f) = 0
    BY <1>4, <2>1
  <2>2. CASE Len(f) > 0
    <3> SUFFICES ASSUME k = smallestInteger PROVE FALSE
      OBVIOUS
    <3>1. Len(k) = Widest + 1 /\ k[1] = -Widest
      BY FloorType
    <3>2. w = Widest + 1
      BY <1>1, <1>5, <3>1, HeaderTypes
    <3>3. QED
      BY <1>2, <1>3, <2>2, <3>1, <3>2, HeaderTypes
  <2>3. QED
    BY <1>2, <2>1, <2>2
<1>9. ASSUME NEW i \in 2 .. Len(k) PROVE k[i] \in Digits
  <2>1. CASE i <= w
    <3>1. i \in 2 .. w /\ i \in 1 .. w
      BY <1>2, <2>1
    <3>2. QED
      BY <1>1, <1>3, <3>1
  <2>2. CASE i > w
    <3> DEFINE j == i - w
    <3>1. j \in 1 .. Len(f) /\ i = w + j
      BY <1>2, <1>3, <2>2
    <3> HIDE DEF j
    <3>2. QED
      BY <1>1, <1>3, <3>1
  <2>3. QED
    BY <1>2, <1>3, <2>1, <2>2
<1>10. fraction(k) = NoKey \/ k[Len(k)] # 0
  <2>1. CASE Len(f) = 0
    BY <1>1, <1>7, <2>1, EmptySeq DEF NoKey
  <2>2. CASE Len(f) > 0
    <3>1. Len(f) \in 1 .. Len(f)
      BY <1>2, <2>2
    <3>2. QED
      BY <1>1, <1>3, <2>2, <3>1
  <2>3. QED
    BY <1>2, <2>1, <2>2
<1>11. k # NoKey
  <2>1. Len(k) # 0
    BY <1>2, <1>3
  <2>2. Len(NoKey) = 0
    BY DEF NoKey
  <2>3. QED
    BY <2>1, <2>2
<1>12. integerWidth(k[1]) <= Len(k)
  BY <1>2, <1>3, <1>5
<1>13. IsKey(k)
  BY <1>1, <1>3, <1>5, <1>8, <1>9, <1>10, <1>11, <1>12 DEF IsKey, Validate
<1>14. QED
  BY <1>6, <1>7, <1>13 DEF k

(* A key splits into an integer part and a fraction, and is not the floor. *)
LEMMA Decompose ==
  ASSUME NEW k, IsKey(k)
  PROVE  /\ IsInteger(integer(k)) /\ IsFraction(fraction(k))
         /\ k = integer(k) \o fraction(k)
         /\ integer(k) = smallestInteger => Len(fraction(k)) > 0
<1> DEFINE w == integerWidth(k[1])
           s == integer(k)
           f == fraction(k)
<1>1. /\ k \in Seq(Int) /\ k # smallestInteger /\ k[1] \in Headers /\ w <= Len(k)
      /\ \A i \in 2 .. Len(k) : k[i] \in Digits
      /\ f = NoKey \/ k[Len(k)] # 0
  BY DEF IsKey, Validate
<1>2. Len(k) \in Nat /\ w \in Nat /\ w >= 2
  BY <1>1, HeaderTypes
<1>3. w \in 0 .. Len(k)
  BY <1>1, <1>2
<1>4. /\ s \in Seq(Int) /\ Len(s) = w
      /\ \A i \in 1 .. w : s[i] = k[i]
      /\ f \in Seq(Int) /\ Len(f) = Len(k) - w
      /\ \A i \in 1 .. Len(k) - w : f[i] = k[w + i]
      /\ k = s \o f
  BY <1>1, <1>3, CutSeq DEF integer, fraction
<1>5. s[1] = k[1] /\ w = integerWidth(s[1])
  BY <1>2, <1>4
<1> HIDE DEF w, s, f
<1>6. Len(s) > 0 /\ s[1] \in Headers /\ Len(s) = integerWidth(s[1])
  <2>1. Len(s) = w /\ s[1] = k[1] /\ w = integerWidth(s[1]) /\ k[1] \in Headers
    BY <1>1, <1>4, <1>5, Zenon
  <2>2. QED
    BY <1>2, <2>1
<1>7. IsInteger(s)
  <2>1. ASSUME NEW i \in 2 .. Len(s) PROVE s[i] \in Digits
    <3>1. i \in 1 .. w /\ i \in 2 .. Len(k)
      BY <1>1, <1>2, <1>4
    <3>2. QED
      BY <1>1, <1>4, <3>1
  <2>2. QED
    BY <1>4, <1>6, <2>1 DEF IsInteger
<1>8. IsFraction(f)
  <2>1. ASSUME NEW i \in 1 .. Len(f) PROVE f[i] \in Digits
    <3>1. w + i \in 2 .. Len(k) /\ i \in 1 .. Len(k) - w
      BY <1>2, <1>4
    <3>2. QED
      BY <1>1, <1>4, <3>1
  <2>2. ASSUME Len(f) > 0 PROVE f[Len(f)] # 0
    <3>1. k[Len(k)] # 0
      <4>1. Len(NoKey) = 0
        BY DEF NoKey
      <4>2. f # NoKey
        BY <2>2, <4>1
      <4>3. QED
        BY <1>1, <4>2
    <3>2. Len(f) \in 1 .. Len(k) - w /\ w + Len(f) = Len(k)
      <4>1. Len(f) \in Nat /\ Len(f) = Len(k) - w
        BY <1>4
      <4>2. QED
        BY <1>2, <2>2, <4>1
    <3>3. QED
      BY <1>4, <3>1, <3>2
  <2>3. QED
    BY <1>4, <2>1, <2>2 DEF IsFraction
<1>9. s = smallestInteger => Len(f) > 0
  <2> SUFFICES ASSUME s = smallestInteger, Len(f) = 0 PROVE FALSE
    BY <1>4
  <2>1. Len(s) = Len(k)
    BY <1>2, <1>4
  <2>2. k = s
    BY <1>1, <1>4, <2>1, SeqEqual
  <2>3. QED
    BY <1>1, <2>2
<1>10. QED
  BY <1>4, <1>7, <1>8, <1>9 DEF s, f
-----------------------------------------------------------------------------
(* s is below t at a place that both have. *)
Less(s, t) ==
    \E i \in 1 .. Len(s) :
        /\ i <= Len(t)
        /\ \A j \in 1 .. i - 1 : s[j] = t[j]
        /\ s[i] < t[i]

(* An integer part is a header and digits. *)
LEMMA IntegerTypes ==
  ASSUME NEW s, IsInteger(s)
  PROVE  /\ s \in Seq(Int) /\ Len(s) \in Nat /\ Len(s) >= 2
         /\ s[1] \in Headers /\ s[1] \in Int /\ Len(s) = integerWidth(s[1])
         /\ \A i \in 2 .. Len(s) : s[i] \in Digits
BY HeaderTypes DEF IsInteger

(* The order of two keys with different integer parts is the order of the  *)
(* integer parts, and is decided inside both of them.                      *)
LEMMA IntegersDecide ==
  ASSUME NEW s, NEW t, NEW a \in Seq(Int), NEW b \in Seq(Int), IsInteger(s), IsInteger(t),
         s # t, Below(s \o a, t \o b)
  PROVE  Less(s, t)
<1> DEFINE u == s \o a
           v == t \o b
<1>1. /\ s \in Seq(Int) /\ Len(s) \in Nat /\ Len(s) >= 2 /\ Len(s) = integerWidth(s[1])
      /\ t \in Seq(Int) /\ Len(t) \in Nat /\ Len(t) >= 2 /\ Len(t) = integerWidth(t[1])
  BY IntegerTypes
<1>2. /\ Len(u) = Len(s) + Len(a) /\ Len(v) = Len(t) + Len(b)
      /\ \A j \in 1 .. Len(s) : u[j] = s[j]
      /\ \A j \in 1 .. Len(t) : v[j] = t[j]
  BY <1>1, ConcatSeq
<1>3. Len(a) \in Nat /\ Len(b) \in Nat
  OBVIOUS
<1>4. Below(u, v)
  OBVIOUS
<1> HIDE DEF u, v
<1>5. PICK i \in 1 .. Len(v) :
         /\ i <= Len(u) + 1
         /\ \A j \in 1 .. i - 1 : u[j] = v[j]
         /\ i <= Len(u) => u[i] < v[i]
  BY <1>4 DEF Below
<1>6. i <= Len(s) /\ i <= Len(t)
  <2> SUFFICES ASSUME i > Len(s) \/ i > Len(t) PROVE FALSE
    <3>1. i \in Int /\ Len(s) \in Int /\ Len(t) \in Int
      BY <1>1
    <3>2. QED
      BY <3>1
  <2>1. i > 1
    BY <1>1
  <2>2. 1 \in 1 .. i - 1 /\ 1 \in 1 .. Len(s) /\ 1 \in 1 .. Len(t)
    BY <1>1, <2>1
  <2>3. s[1] = t[1]
    BY <1>2, <1>5, <2>2
  <2>4. Len(s) = Len(t)
    BY <1>1, <2>3
  <2>5. ASSUME NEW j \in 1 .. Len(s) PROVE s[j] = t[j]
    <3>1. j \in 1 .. i - 1 /\ j \in 1 .. Len(t)
      BY <1>1, <1>2, <1>3, <2>4
    <3>2. QED
      BY <1>2, <1>5, <3>1
  <2>6. QED
    BY <1>1, <2>4, <2>5, SeqEqual
<1>7. i \in 1 .. Len(s) /\ i \in 1 .. Len(t) /\ i <= Len(u)
  BY <1>1, <1>2, <1>3, <1>5, <1>6
<1>8. s[i] < t[i]
  BY <1>2, <1>5, <1>7
<1>9. ASSUME NEW j \in 1 .. i - 1 PROVE s[j] = t[j]
  <2>1. j \in 1 .. Len(s) /\ j \in 1 .. Len(t)
    BY <1>1, <1>6
  <2>2. QED
    BY <1>2, <1>5, <2>1
<1>10. QED
  BY <1>6, <1>7, <1>8, <1>9 DEF Less

(* Keys are ordered as their integer parts are. *)
LEMMA LessBelow ==
  ASSUME NEW s \in Seq(Int), NEW t \in Seq(Int), NEW a \in Seq(Int), NEW b \in Seq(Int), Less(s, t)
  PROVE  Below(s \o a, t \o b)
<1>1. PICK i \in 1 .. Len(s) : i <= Len(t) /\ (\A j \in 1 .. i - 1 : s[j] = t[j]) /\ s[i] < t[i]
  BY DEF Less
<1>2. QED
  BY <1>1, IntegerBelow

(* No integer part is below the floor. *)
LEMMA FloorIsLeast ==
  ASSUME NEW s, IsInteger(s)
  PROVE  ~Less(s, smallestInteger)
<1> SUFFICES ASSUME NEW i \in 1 .. Len(s), i <= Len(smallestInteger), s[i] < smallestInteger[i] PROVE FALSE
  BY DEF Less
<1>1. CASE i = 1
  <2>1. s[1] \in Headers /\ s[1] < -Widest
    BY <1>1, IntegerTypes, FloorType
  <2>2. QED
    BY <2>1, HeaderTypes
<1>2. CASE i # 1
  <2>1. i \in 2 .. Len(s) /\ i \in 2 .. Widest + 1
    BY <1>2, IntegerTypes, FloorType, HeaderTypes
  <2>2. s[i] \in Digits /\ s[i] < 0
    BY <2>1, IntegerTypes, FloorType
  <2>3. s[i] \in Nat
    BY <2>2, DigitTypes, Zenon
  <2>4. QED
    BY <2>2, <2>3
<1>3. QED
  BY <1>1, <1>2

(* No integer part is above the widest one whose digits are all top. *)
LEMMA CeilingIsGreatest ==
  ASSUME NEW s, NEW t, IsInteger(s), IsInteger(t), s[1] = Widest, \A i \in 2 .. Len(s) : s[i] = top
  PROVE  ~Less(s, t)
<1> SUFFICES ASSUME NEW i \in 1 .. Len(s), i <= Len(t), s[i] < t[i] PROVE FALSE
  BY DEF Less
<1>1. CASE i = 1
  <2>1. t[1] \in Headers /\ Widest < t[1]
    BY <1>1, IntegerTypes
  <2>2. QED
    BY <2>1, HeaderTypes
<1>2. CASE i # 1
  <2>1. i \in 2 .. Len(s) /\ i \in 2 .. Len(t)
    BY <1>2, IntegerTypes
  <2>2. t[i] \in Digits /\ top < t[i]
    BY <2>1, IntegerTypes
  <2>3. t[i] \in Nat /\ t[i] <= top /\ top \in Nat
    BY <2>2, DigitTypes, Zenon
  <2>4. QED
    BY <2>2, <2>3
<1>3. QED
  BY <1>1, <1>2

(* LastOther names a place that differs from d, or there is none. *)
LEMMA LastOtherCorrect ==
  ASSUME NEW s \in Seq(Int), NEW d \in Int
  PROVE  \/ LastOther(s, d) = 0 /\ \A i \in 1 .. Len(s) : s[i] = d
         \/ LastOther(s, d) \in 1 .. Len(s) /\ s[LastOther(s, d)] # d
<1> DEFINE T == {i \in 1 .. Len(s) : s[i] # d}
           U == {Len(s) - i : i \in T}
<1>1. CASE T = {}
  BY <1>1 DEF LastOther
<1>2. CASE T # {}
  <2>1. Len(s) \in Nat
    OBVIOUS
  <2>2. U \in SUBSET Nat /\ U # {}
    BY <1>2, <2>1
  <2>3. PICK x \in U : \A y \in U : x <= y
    <3> HIDE DEF U
    <3>1. QED
      BY <2>2, LeastNat
  <2>4. PICK i \in T : x = Len(s) - i
    OBVIOUS
  <2>5. ASSUME NEW j \in T PROVE j <= i
    <3>1. Len(s) - j \in U /\ j \in Int /\ i \in Int
      OBVIOUS
    <3>2. Len(s) - i <= Len(s) - j
      BY <2>3, <2>4, <3>1
    <3>3. QED
      BY <2>1, <3>1, <3>2
  <2>6. LastOther(s, d) = CHOOSE k \in T : \A j \in T : j <= k
    BY <1>2 DEF LastOther
  <2>7. \E k \in T : \A j \in T : j <= k
    BY <2>5
  <2> HIDE DEF T
  <2>8. LastOther(s, d) \in T
    BY <2>6, <2>7
  <2>9. QED
    BY <2>8 DEF T
<1>3. QED
  BY <1>1, <1>2
-----------------------------------------------------------------------------
(* The digits behind the header, place by place. *)
LEMMA TailDigits ==
  ASSUME NEW s, IsInteger(s)
  PROVE  /\ Tail(s) \in Seq(Int) /\ Len(Tail(s)) = Len(s) - 1
         /\ \A i \in 1 .. Len(s) - 1 : Tail(s)[i] = s[i + 1] /\ Tail(s)[i] \in Digits
<1>1. /\ s \in Seq(Int) /\ Len(s) \in Nat /\ Len(s) >= 2
      /\ \A i \in 2 .. Len(s) : s[i] \in Digits
  BY IntegerTypes
<1>2. /\ Tail(s) \in Seq(Int) /\ Len(Tail(s)) = Len(s) - 1
      /\ \A i \in 1 .. Len(s) - 1 : Tail(s)[i] = s[i + 1]
  BY <1>1
<1>3. ASSUME NEW i \in 1 .. Len(s) - 1 PROVE i + 1 \in 2 .. Len(s)
  BY <1>1
<1>4. QED
  BY <1>1, <1>2, <1>3

(* An integer part whose digits first differ from those of s at p. *)
LEMMA StepDigit ==
  ASSUME NEW s, IsInteger(s), NEW p \in 1 .. Len(s) - 1, NEW f \in [1 .. Len(s) - 1 -> Digits],
         \A i \in 1 .. p - 1 : f[i] = Tail(s)[i]
  PROVE  /\ IsInteger(<<s[1]>> \o f) /\ Len(<<s[1]>> \o f) = Len(s)
         /\ \A j \in 1 .. p : (<<s[1]>> \o f)[j] = s[j]
         /\ (<<s[1]>> \o f)[p + 1] = f[p]
<1> DEFINE w == integerWidth(s[1])
           r == <<s[1]>> \o f
<1>1. /\ Len(s) \in Nat /\ Len(s) >= 2 /\ s[1] \in Headers /\ Len(s) = w
  BY IntegerTypes
<1>2. \A i \in 1 .. Len(s) - 1 : Tail(s)[i] = s[i + 1]
  BY TailDigits
<1>3. /\ IsInteger(r) /\ Len(r) = w /\ r[1] = s[1]
      /\ \A i \in 2 .. w : r[i] = f[i - 1]
  BY <1>1, MakeInteger
<1> HIDE DEF r, w
<1>4. ASSUME NEW j \in 1 .. p PROVE r[j] = s[j]
  <2>1. CASE j = 1
    BY <1>3, <2>1
  <2>2. CASE j # 1
    <3> DEFINE k == j - 1
    <3>1. k \in 1 .. Len(s) - 1 /\ k \in 1 .. p - 1 /\ j = k + 1 /\ j \in 2 .. w
      BY <1>1, <2>2
    <3>2. r[j] = f[k]
      BY <1>3, <3>1
    <3> HIDE DEF k
    <3>3. f[k] = s[j]
      BY <1>2, <3>1
    <3>4. QED
      BY <3>2, <3>3
  <2>3. QED
    BY <2>1, <2>2
<1>5. r[p + 1] = f[p]
  <2>1. p + 1 \in 2 .. w /\ (p + 1) - 1 = p
    BY <1>1
  <2>2. QED
    BY <1>3, <2>1
<1>6. QED
  BY <1>1, <1>3, <1>4, <1>5 DEF r

(* A header and one digit repeated as often as it announces. *)
LEMMA FullInteger ==
  ASSUME NEW h \in Headers, NEW d \in Digits
  PROVE  LET r == <<h>> \o [i \in 1 .. (integerWidth(h) - 1) |-> d]
         IN  IsInteger(r) /\ Len(r) \in Nat /\ Len(r) >= 2 /\ r[1] = h
<1> DEFINE f == [i \in 1 .. (integerWidth(h) - 1) |-> d]
<1>1. f \in [1 .. (integerWidth(h) - 1) -> Digits]
  OBVIOUS
<1> HIDE DEF f
<1>2. IsInteger(<<h>> \o f) /\ (<<h>> \o f)[1] = h
  BY <1>1, MakeInteger
<1>3. Len(<<h>> \o f) \in Nat /\ Len(<<h>> \o f) >= 2
  BY <1>2, IntegerTypes
<1>4. QED
  BY <1>2, <1>3 DEF f

(* The one digit behind a header of width two. *)
LEMMA ShortIntegers ==
  /\ IsInteger(firstKey) /\ Len(firstKey) = 2 /\ firstKey[1] = 1
  /\ IsInteger(<<-1, top>>) /\ Len(<<-1, top>>) = 2 /\ <<-1, top>>[1] = -1
<1>1. 1 \in Headers /\ -1 \in Headers /\ integerWidth(1) = 2 /\ integerWidth(-1) = 2
  BY WidestAssumption DEF Headers, integerWidth
<1>2. top \in Int /\ top \in Digits /\ 0 \in Digits
  BY DigitTypes
<1>3. IsInteger(firstKey) /\ Len(firstKey) = 2 /\ firstKey[1] = 1
  <2> DEFINE k == <<1, 0>>
  <2>1. k \in Seq(Int) /\ Len(k) = 2 /\ k[1] = 1 /\ k[2] = 0
    OBVIOUS
  <2> HIDE DEF k
  <2>2. \A i \in 2 .. Len(k) : k[i] \in Digits
    BY <1>2, <2>1
  <2>3. IsInteger(k)
    BY <1>1, <2>1, <2>2 DEF IsInteger
  <2>4. QED
    BY <2>1, <2>3 DEF k, firstKey
<1>4. IsInteger(<<-1, top>>) /\ Len(<<-1, top>>) = 2 /\ <<-1, top>>[1] = -1
  <2> DEFINE k == <<-1, top>>
  <2>1. k \in Seq(Int) /\ Len(k) = 2 /\ k[1] = -1 /\ k[2] = top
    BY <1>2
  <2> HIDE DEF k
  <2>2. \A i \in 2 .. Len(k) : k[i] \in Digits
    BY <1>2, <2>1
  <2>3. IsInteger(k)
    BY <1>1, <2>1, <2>2 DEF IsInteger
  <2>4. QED
    BY <2>1, <2>3 DEF k
<1>5. QED
  BY <1>3, <1>4

(* A larger header is a larger integer part. *)
LEMMA HeaderLess ==
  ASSUME NEW s, NEW t, IsInteger(s), IsInteger(t), s[1] < t[1]
  PROVE  Less(s, t)
<1>1. 1 \in 1 .. Len(s) /\ 1 <= Len(t) /\ \A j \in 1 .. 1 - 1 : s[j] = t[j]
  BY IntegerTypes
<1>2. QED
  BY <1>1 DEF Less

(* increment answers a larger integer part, or refuses the largest one. *)
LEMMA IncrementCorrect ==
  ASSUME NEW s, IsInteger(s)
  PROVE  \/ /\ increment(s) = ErrExhausted
            /\ s[1] = Widest /\ \A i \in 2 .. Len(s) : s[i] = top
         \/ IsInteger(increment(s)) /\ Less(s, increment(s))
<1> DEFINE h == s[1]
           body == Tail(s)
           p == LastOther(body, top)
<1>1. /\ s \in Seq(Int) /\ Len(s) \in Nat /\ Len(s) >= 2 /\ h \in Headers
      /\ h \in Int /\ h # 0 /\ -Widest <= h /\ h <= Widest /\ Widest \in Nat /\ Widest > 0
  BY IntegerTypes, HeaderTypes
<1>2. /\ body \in Seq(Int) /\ Len(body) = Len(s) - 1
      /\ \A i \in 1 .. Len(s) - 1 : body[i] = s[i + 1] /\ body[i] \in Digits
  BY TailDigits
<1>3. \/ p = 0 /\ \A i \in 1 .. Len(body) : body[i] = top
      \/ p \in 1 .. Len(body) /\ body[p] # top
  <2>1. top \in Int
    BY DigitTypes
  <2> HIDE DEF body
  <2>2. QED
    BY <1>2, <2>1, LastOtherCorrect, Zenon
<1>4. increment(s) =
        CASE p > 0 -> <<h>> \o [i \in 1 .. Len(body) |->
                          IF i < p THEN body[i] ELSE IF i = p THEN body[i] + 1 ELSE 0]
          [] p = 0 /\ h = -1 -> firstKey
          [] p = 0 /\ h = Widest -> ErrExhausted
          [] OTHER -> <<h + 1>> \o [i \in 1 .. (integerWidth(h + 1) - 1) |-> 0]
  BY DEF increment
<1>5. CASE p # 0
  <2> DEFINE d == s[p + 1] + 1
             f == [i \in 1 .. Len(body) |->
                     IF i < p THEN body[i] ELSE IF i = p THEN body[i] + 1 ELSE 0]
             r == <<s[1]>> \o f
  <2>1. p \in 1 .. Len(s) - 1 /\ body[p] # top /\ p > 0
    BY <1>1, <1>2, <1>3, <1>5
  <2>2. body[p] = s[p + 1] /\ s[p + 1] \in Digits /\ s[p + 1] # top
    BY <1>2, <2>1
  <2>3. s[p + 1] \in Nat /\ s[p + 1] <= top /\ top \in Nat
    BY <2>2, DigitTypes, Zenon
  <2>4. d \in Digits /\ s[p + 1] < d
    <3>1. d \in Int /\ d >= 0 /\ d <= top /\ s[p + 1] < d
      BY <2>2, <2>3
    <3> HIDE DEF d
    <3>2. QED
      BY <3>1, DigitTypes, Zenon
  <2>5. increment(s) = r
    BY <1>4, <2>1, <2>2
  <2>6. f \in [1 .. Len(s) - 1 -> Digits]
    <3>1. 1 .. Len(body) = 1 .. Len(s) - 1 /\ 0 \in Digits
      BY <1>2, DigitTypes
    <3>2. ASSUME NEW i \in 1 .. Len(body)
          PROVE  (IF i < p THEN body[i] ELSE IF i = p THEN body[i] + 1 ELSE 0) \in Digits
      BY <1>2, <2>2, <2>4, <3>1
    <3>3. QED
      BY <3>1, <3>2
  <2>7. /\ \A i \in 1 .. p - 1 : f[i] = Tail(s)[i]
        /\ f[p] = d
    BY <1>2, <2>1, <2>2
  <2> HIDE DEF d, p, f
  <2>8. /\ IsInteger(r) /\ Len(r) = Len(s)
        /\ \A j \in 1 .. p : r[j] = s[j]
        /\ r[p + 1] = d
    BY <2>1, <2>6, <2>7, StepDigit
  <2> HIDE DEF r
  <2>9. Less(s, r)
    <3> DEFINE i == p + 1
    <3>1. i \in 1 .. Len(s) /\ i <= Len(r) /\ s[i] < r[i]
      BY <1>1, <2>1, <2>4, <2>8
    <3>2. ASSUME NEW j \in 1 .. i - 1 PROVE s[j] = r[j]
      <4>1. j \in 1 .. p
        BY <2>1
      <4>2. QED
        BY <2>8, <4>1
    <3> HIDE DEF i
    <3>3. QED
      BY <3>1, <3>2 DEF Less
  <2>10. QED
    BY <2>5, <2>8, <2>9
<1>6. CASE p = 0 /\ h = -1
  <2>1. increment(s) = firstKey
    <3> HIDE DEF p
    <3>1. ~(p > 0)
      BY <1>6
    <3>2. QED
      BY <1>1, <1>4, <1>6, <3>1
  <2>2. IsInteger(firstKey) /\ s[1] < firstKey[1]
    BY <1>6, ShortIntegers
  <2>3. QED
    BY <2>1, <2>2, HeaderLess
<1>7. CASE p = 0 /\ h = Widest
  <2>1. increment(s) = ErrExhausted
    BY <1>1, <1>4, <1>7
  <2>2. ASSUME NEW i \in 2 .. Len(s) PROVE s[i] = top
    <3> DEFINE j == i - 1
    <3>1. j \in 1 .. Len(body) /\ j \in 1 .. Len(s) - 1 /\ i = j + 1
      BY <1>1, <1>2
    <3> HIDE DEF j
    <3>2. QED
      BY <1>2, <1>3, <1>7, <3>1
  <2>3. QED
    BY <1>7, <2>1, <2>2
<1>8. CASE p = 0 /\ h # -1 /\ h # Widest
  <2> DEFINE r == <<h + 1>> \o [i \in 1 .. (integerWidth(h + 1) - 1) |-> 0]
  <2>1. increment(s) = r
    <3> HIDE DEF p
    <3>1. ~(p > 0)
      BY <1>8
    <3>2. QED
      BY <1>4, <1>8, <3>1
  <2>2. h + 1 \in Headers
    <3>1. h + 1 \in Int /\ h + 1 # 0 /\ -Widest <= h + 1 /\ h + 1 <= Widest
      BY <1>1, <1>8
    <3>2. QED
      BY <3>1, HeaderTypes, Zenon
  <2>3. IsInteger(r) /\ r[1] = h + 1
    BY <2>2, DigitTypes, FullInteger
  <2> HIDE DEF r
  <2>4. Less(s, r)
    BY <1>1, <2>3, HeaderLess
  <2>5. QED
    BY <2>1, <2>3, <2>4
<1>9. QED
  BY <1>5, <1>6, <1>7, <1>8

(* decrement answers a smaller integer part of every one but the floor. *)
LEMMA DecrementCorrect ==
  ASSUME NEW s, IsInteger(s), s # smallestInteger
  PROVE  IsInteger(decrement(s)) /\ Less(decrement(s), s)
<1> DEFINE h == s[1]
           body == Tail(s)
           p == LastOther(body, 0)
<1>1. /\ s \in Seq(Int) /\ Len(s) \in Nat /\ Len(s) >= 2 /\ h \in Headers /\ Len(s) = integerWidth(h)
      /\ h \in Int /\ h # 0 /\ -Widest <= h /\ h <= Widest /\ Widest \in Nat /\ Widest > 0
  BY IntegerTypes, HeaderTypes
<1>2. /\ body \in Seq(Int) /\ Len(body) = Len(s) - 1
      /\ \A i \in 1 .. Len(s) - 1 : body[i] = s[i + 1] /\ body[i] \in Digits
  BY TailDigits
<1>3. \/ p = 0 /\ \A i \in 1 .. Len(body) : body[i] = 0
      \/ p \in 1 .. Len(body) /\ body[p] # 0
  <2>1. 0 \in Int
    OBVIOUS
  <2> HIDE DEF body
  <2>2. QED
    BY <1>2, <2>1, LastOtherCorrect, Zenon
<1>4. decrement(s) =
        CASE p > 0 -> <<h>> \o [i \in 1 .. Len(body) |->
                          IF i < p THEN body[i] ELSE IF i = p THEN body[i] - 1 ELSE top]
          [] p = 0 /\ h = 1 -> <<-1, top>>
          [] p = 0 /\ h = -Widest -> ErrExhausted
          [] OTHER -> <<h - 1>> \o [i \in 1 .. (integerWidth(h - 1) - 1) |-> top]
  BY DEF decrement
<1>5. CASE p # 0
  <2> DEFINE d == s[p + 1] - 1
             f == [i \in 1 .. Len(body) |->
                     IF i < p THEN body[i] ELSE IF i = p THEN body[i] - 1 ELSE top]
             r == <<s[1]>> \o f
  <2>1. p \in 1 .. Len(s) - 1 /\ body[p] # 0 /\ p > 0
    BY <1>1, <1>2, <1>3, <1>5
  <2>2. body[p] = s[p + 1] /\ s[p + 1] \in Digits /\ s[p + 1] # 0
    BY <1>2, <2>1
  <2>3. s[p + 1] \in Nat /\ s[p + 1] <= top /\ top \in Nat
    BY <2>2, DigitTypes, Zenon
  <2>4. d \in Digits /\ d < s[p + 1]
    <3>1. d \in Int /\ d >= 0 /\ d <= top /\ d < s[p + 1]
      BY <2>2, <2>3
    <3> HIDE DEF d
    <3>2. QED
      BY <3>1, DigitTypes, Zenon
  <2>5. decrement(s) = r
    BY <1>4, <2>1, <2>2
  <2>6. f \in [1 .. Len(s) - 1 -> Digits]
    <3>1. 1 .. Len(body) = 1 .. Len(s) - 1 /\ top \in Digits
      BY <1>2, DigitTypes
    <3>2. ASSUME NEW i \in 1 .. Len(body)
          PROVE  (IF i < p THEN body[i] ELSE IF i = p THEN body[i] - 1 ELSE top) \in Digits
      BY <1>2, <2>2, <2>4, <3>1
    <3>3. QED
      BY <3>1, <3>2
  <2>7. /\ \A i \in 1 .. p - 1 : f[i] = Tail(s)[i]
        /\ f[p] = d
    BY <1>2, <2>1, <2>2
  <2> HIDE DEF d, p, f
  <2>8. /\ IsInteger(r) /\ Len(r) = Len(s)
        /\ \A j \in 1 .. p : r[j] = s[j]
        /\ r[p + 1] = d
    BY <2>1, <2>6, <2>7, StepDigit
  <2> HIDE DEF r
  <2>9. Less(r, s)
    <3> DEFINE i == p + 1
    <3>1. i \in 1 .. Len(r) /\ i <= Len(s) /\ r[i] < s[i]
      BY <1>1, <2>1, <2>4, <2>8
    <3>2. ASSUME NEW j \in 1 .. i - 1 PROVE r[j] = s[j]
      <4>1. j \in 1 .. p
        BY <2>1
      <4>2. QED
        BY <2>8, <4>1
    <3> HIDE DEF i
    <3>3. QED
      BY <3>1, <3>2 DEF Less
  <2>10. QED
    BY <2>5, <2>8, <2>9
<1>6. CASE p = 0 /\ h = 1
  <2> DEFINE r == <<-1, top>>
  <2>1. decrement(s) = r
    <3> HIDE DEF p
    <3>1. ~(p > 0) /\ h # -Widest
      BY <1>1, <1>6
    <3>2. QED
      BY <1>4, <1>6, <3>1
  <2>2. IsInteger(r) /\ r[1] = -1
    BY ShortIntegers
  <2> HIDE DEF r
  <2>3. Less(r, s)
    BY <1>6, <2>2, HeaderLess
  <2>4. QED
    BY <2>1, <2>2, <2>3
<1>7. CASE p = 0 /\ h = -Widest
  <2>1. Len(s) = Widest + 1 /\ Len(smallestInteger) = Widest + 1
        /\ smallestInteger \in Seq(Int) /\ s[1] = smallestInteger[1]
        /\ \A i \in 2 .. Widest + 1 : smallestInteger[i] = 0
    <3>1. Len(s) = Widest + 1
      BY <1>1, <1>7 DEF integerWidth
    <3>2. QED
      BY <1>7, <3>1, FloorType, IntegerTypes
  <2>2. ASSUME NEW i \in 1 .. Len(s) PROVE s[i] = smallestInteger[i]
    <3>1. CASE i = 1
      BY <2>1, <3>1
    <3>2. CASE i # 1
      <4> DEFINE j == i - 1
      <4>1. j \in 1 .. Len(body) /\ j \in 1 .. Len(s) - 1 /\ i = j + 1 /\ i \in 2 .. Widest + 1
        BY <1>1, <1>2, <2>1, <3>2
      <4> HIDE DEF j
      <4>2. s[i] = 0
        BY <1>2, <1>3, <1>7, <4>1
      <4>3. QED
        BY <2>1, <4>1, <4>2
    <3>3. QED
      BY <3>1, <3>2
  <2>3. s = smallestInteger
    BY <1>1, <2>1, <2>2, SeqEqual
  <2>4. QED
    BY <2>3
<1>8. CASE p = 0 /\ h # 1 /\ h # -Widest
  <2> DEFINE r == <<h - 1>> \o [i \in 1 .. (integerWidth(h - 1) - 1) |-> top]
  <2>1. decrement(s) = r
    <3> HIDE DEF p
    <3>1. ~(p > 0)
      BY <1>8
    <3>2. QED
      BY <1>4, <1>8, <3>1
  <2>2. h - 1 \in Headers
    <3>1. h - 1 \in Int /\ h - 1 # 0 /\ -Widest <= h - 1 /\ h - 1 <= Widest
      BY <1>1, <1>8
    <3>2. QED
      BY <3>1, HeaderTypes, Zenon
  <2>3. IsInteger(r) /\ r[1] = h - 1
    BY <2>2, DigitTypes, FullInteger
  <2> HIDE DEF r
  <2>4. Less(r, s)
    BY <1>1, <2>3, HeaderLess
  <2>5. QED
    BY <2>1, <2>3, <2>4
<1>9. QED
  BY <1>5, <1>6, <1>7, <1>8

-----------------------------------------------------------------------------
(* An integer part without a fraction. *)
LEMMA BareInteger ==
  ASSUME NEW s, IsInteger(s)
  PROVE  /\ s \in Seq(Int) /\ <<>> \in Seq(Int) /\ IsFraction(<<>>) /\ s \o <<>> = s
         /\ s # smallestInteger => IsKey(s)
<1>1. s \in Seq(Int)
  BY IntegerTypes
<1>2. <<>> \in Seq(Int) /\ Len(<<>>) = 0 /\ s \o <<>> = s
  BY <1>1
<1>3. IsFraction(<<>>)
  BY <1>2 DEF IsFraction
<1>4. ASSUME s # smallestInteger PROVE IsKey(s)
  <2>1. IsKey(s \o <<>>)
    BY <1>3, <1>4, Compose
  <2>2. QED
    BY <1>2, <2>1
<1>5. QED
  BY <1>1, <1>2, <1>3, <1>4

(* A key behind which more digits come is below the longer one. *)
LEMMA AboveBelow ==
  ASSUME NEW s, NEW f, IsInteger(s), IsFraction(f)
  PROVE  IsKey(s \o midpointAfter(f)) /\ Below(s \o f, s \o midpointAfter(f))
<1>1. s \in Seq(Int) /\ f \in Seq(Int) /\ \A i \in 1 .. Len(f) : f[i] \in Digits
  BY IntegerTypes DEF IsFraction
<1> DEFINE m == midpointAfter(f)
<1>2. IsFraction(m) /\ Len(m) > 0 /\ Above(m, f)
  BY <1>1, MidpointAfterCorrect
<1> HIDE DEF m
<1>3. m \in Seq(Int)
  BY <1>2 DEF IsFraction
<1>4. Below(f, m)
  BY <1>1, <1>2, <1>3, PaddedBelow DEF Above
<1>5. Below(s \o f, s \o m)
  BY <1>1, <1>3, <1>4, FractionBelow
<1>6. IsKey(s \o m)
  BY <1>2, Compose
<1>7. QED
  BY <1>5, <1>6 DEF m

(* before answers a key below the one it is given. *)
LEMMA BeforeCorrect ==
  ASSUME NEW k, IsKey(k)
  PROVE  IsKey(before(integer(k), fraction(k))) /\ Below(before(integer(k), fraction(k)), k)
<1> DEFINE s == integer(k)
           f == fraction(k)
<1>1. /\ IsInteger(s) /\ IsFraction(f) /\ k = s \o f
      /\ s = smallestInteger => Len(f) > 0
  BY Decompose
<1> HIDE DEF s, f
<1>2. s \in Seq(Int) /\ f \in Seq(Int)
  BY <1>1, IntegerTypes DEF IsFraction
<1>3. /\ <<>> \in Seq(Int) /\ IsFraction(<<>>) /\ s \o <<>> = s
      /\ s # smallestInteger => IsKey(s)
  BY <1>1, BareInteger
<1>4. Len(f) > 0 => Below(<<>>, f)
  <2> DEFINE e == <<>>
  <2>1. e \in Seq(Int) /\ Len(e) = 0 /\ Len(f) \in Nat
    BY <1>2
  <2> HIDE DEF e
  <2>2. ASSUME Len(f) > 0 PROVE Below(e, f)
    <3>1. 1 \in 1 .. Len(f) /\ 1 <= Len(e) + 1 /\ (\A j \in 1 .. 1 - 1 : e[j] = f[j]) /\ ~(1 <= Len(e))
      BY <2>1, <2>2
    <3>2. QED
      BY <3>1 DEF Below
  <2>3. QED
    BY <2>2 DEF e
<1>5. CASE s = smallestInteger
  <2> DEFINE m == midpoint(NoKey, f)
  <2>1. before(s, f) = s \o m
    BY <1>5 DEF before
  <2>2. IsFraction(m) /\ Len(m) > 0 /\ Below(m, f)
    BY <1>1, <1>2, <1>3, <1>4, <1>5, MidpointCorrect DEF NoKey
  <2> HIDE DEF m
  <2>3. IsKey(s \o m)
    BY <1>1, <2>2, Compose
  <2>4. Below(s \o m, s \o f)
    <3>1. m \in Seq(Int)
      BY <2>2 DEF IsFraction
    <3>2. QED
      BY <1>2, <2>2, <3>1, FractionBelow
  <2>5. QED
    BY <1>1, <2>1, <2>3, <2>4 DEF s, f
<1>6. CASE s # smallestInteger /\ f # NoKey
  <2>1. before(s, f) = s
    BY <1>6 DEF before
  <2>2. Len(f) > 0
    BY <1>2, <1>6, EmptySeq DEF NoKey
  <2>3. Below(s, s \o f)
    BY <1>2, <2>2, PrefixBelow
  <2>4. QED
    BY <1>1, <1>3, <1>6, <2>1, <2>3 DEF s, f
<1>7. CASE s # smallestInteger /\ f = NoKey
  <2> DEFINE r == decrement(s)
  <2>1. IsInteger(r) /\ Less(r, s)
    BY <1>1, <1>7, DecrementCorrect
  <2>2. before(s, f) = IF r = smallestInteger THEN smallestInteger \o midpointAfter(NoKey) ELSE r
    BY <1>7 DEF before
  <2> HIDE DEF r
  <2>3. r \in Seq(Int) /\ r \o <<>> = r /\ (r # smallestInteger => IsKey(r))
    BY <2>1, BareInteger
  <2>4. CASE r = smallestInteger
    <3> DEFINE m == midpointAfter(<<>>)
    <3>1. before(s, f) = r \o m
      BY <2>2, <2>4 DEF NoKey
    <3>2. IsKey(r \o m)
      BY <1>3, <2>1, AboveBelow
    <3>3. m \in Seq(Int)
      BY <1>3, MidpointAfterCorrect DEF IsFraction
    <3> HIDE DEF m
    <3>4. Below(r \o m, s \o f)
      BY <1>2, <2>1, <2>3, <3>3, LessBelow
    <3>5. QED
      BY <1>1, <3>1, <3>2, <3>4 DEF s, f
  <2>5. CASE r # smallestInteger
    <3>1. Below(r \o <<>>, s \o f)
      BY <1>2, <1>3, <2>1, <2>3, LessBelow
    <3>2. QED
      BY <1>1, <2>2, <2>3, <2>5, <3>1 DEF s, f
  <2>6. QED
    BY <2>4, <2>5
<1>8. QED
  BY <1>5, <1>6, <1>7

(* A step up is a key that is no error. *)
LEMMA StepUp ==
  ASSUME NEW s, NEW f \in Seq(Int), IsInteger(s), IsInteger(increment(s)), Less(s, increment(s))
  PROVE  IsKey(increment(s)) /\ increment(s) # ErrExhausted /\ Below(s \o f, increment(s))
<1> DEFINE r == increment(s)
<1> HIDE DEF r
<1>1. IsInteger(r) /\ Less(s, r)
  BY DEF r
<1>2. r # smallestInteger
  BY <1>1, FloorIsLeast
<1>3. /\ s \in Seq(Int) /\ r \in Seq(Int) /\ <<>> \in Seq(Int) /\ r \o <<>> = r
      /\ IsKey(r)
  BY <1>1, <1>2, BareInteger
<1>4. Below(s \o f, r \o <<>>)
  BY <1>1, <1>3, LessBelow
<1>5. r # ErrExhausted
  <2>1. r[1] # 0
    BY <1>1, IntegerTypes, HeaderTypes
  <2>2. ErrExhausted[1] = 0
    BY DEF ErrExhausted
  <2>3. QED
    BY <2>1, <2>2
<1>6. QED
  BY <1>3, <1>4, <1>5 DEF r

(* after answers a key above the one it is given. *)
LEMMA AfterCorrect ==
  ASSUME NEW k, IsKey(k)
  PROVE  IsKey(after(integer(k), fraction(k))) /\ Below(k, after(integer(k), fraction(k)))
<1> DEFINE s == integer(k)
           f == fraction(k)
<1>1. IsInteger(s) /\ IsFraction(f) /\ k = s \o f /\ f \in Seq(Int)
  BY Decompose DEF IsFraction
<1> HIDE DEF s, f
<1>2. CASE increment(s) = ErrExhausted
  <2>1. after(s, f) = s \o midpointAfter(f)
    BY <1>2 DEF after
  <2>2. QED
    BY <1>1, <2>1, AboveBelow DEF s, f
<1>3. CASE increment(s) # ErrExhausted
  <2>1. after(s, f) = increment(s)
    BY <1>3 DEF after
  <2>2. IsInteger(increment(s)) /\ Less(s, increment(s))
    BY <1>1, <1>3, IncrementCorrect
  <2>3. IsKey(increment(s)) /\ Below(s \o f, increment(s))
    BY <1>1, <2>2, StepUp
  <2>4. QED
    BY <1>1, <2>1, <2>3 DEF s, f
<1>4. QED
  BY <1>2, <1>3

(* inside answers a key strictly between two others. *)
LEMMA InsideCorrect ==
  ASSUME NEW k, NEW l, IsKey(k), IsKey(l), Below(k, l)
  PROVE  IsKey(inside(k, l)) /\ Below(k, inside(k, l)) /\ Below(inside(k, l), l)
<1> DEFINE s == integer(k)
           f == fraction(k)
           t == integer(l)
           g == fraction(l)
           r == increment(s)
<1>1. /\ IsInteger(s) /\ IsFraction(f) /\ k = s \o f
      /\ IsInteger(t) /\ IsFraction(g) /\ l = t \o g
  BY Decompose
<1> HIDE DEF s, f, t, g
<1>2. s \in Seq(Int) /\ t \in Seq(Int) /\ f \in Seq(Int) /\ g \in Seq(Int)
  BY <1>1, IntegerTypes DEF IsFraction
<1>3. CASE s = t
  <2> DEFINE m == midpoint(f, g)
  <2>1. inside(k, l) = s \o m
    BY <1>3 DEF inside, s, t, f, g
  <2>2. Below(f, g)
    BY <1>1, <1>2, <1>3, FractionBelow
  <2>3. IsFraction(m) /\ Len(m) > 0 /\ Below(f, m) /\ Below(m, g)
    BY <1>1, <1>2, <2>2, MidpointCorrect
  <2> HIDE DEF m
  <2>4. m \in Seq(Int)
    BY <2>3 DEF IsFraction
  <2>5. Below(s \o f, s \o m) /\ Below(s \o m, s \o g)
    BY <1>2, <2>3, <2>4, FractionBelow
  <2>6. IsKey(s \o m)
    BY <1>1, <2>3, Compose
  <2>7. QED
    BY <1>1, <1>3, <2>1, <2>5, <2>6
<1>4. CASE s # t
  <2>1. Less(s, t)
    BY <1>1, <1>2, <1>4, IntegersDecide
  <2>2. IsInteger(r) /\ Less(s, r)
    BY <1>1, <2>1, IncrementCorrect, CeilingIsGreatest
  <2>3. IsKey(r) /\ r # ErrExhausted /\ Below(k, r)
    BY <1>1, <1>2, <2>2, StepUp
  <2>4. inside(k, l) = IF Below(r, l) THEN r ELSE s \o midpointAfter(f)
    BY <1>4, <2>3 DEF inside, s, t, f, g
  <2> DEFINE m == midpointAfter(f)
  <2>5. IsKey(s \o m) /\ Below(k, s \o m)
    BY <1>1, AboveBelow
  <2>6. m \in Seq(Int)
    <3>1. \A i \in 1 .. Len(f) : f[i] \in Digits
      BY <1>1 DEF IsFraction
    <3>2. QED
      BY <1>2, <3>1, MidpointAfterCorrect DEF IsFraction
  <2> HIDE DEF m, r
  <2>7. Below(s \o m, l)
    BY <1>1, <1>2, <2>1, <2>6, LessBelow
  <2>8. QED
    BY <2>3, <2>4, <2>5, <2>7 DEF m
<1>5. QED
  BY <1>3, <1>4

(* A key is not one of the errors. *)
LEMMA KeysAreNoErrors ==
  ASSUME NEW k, IsKey(k)
  PROVE  k \notin Errors /\ k # NoKey
<1>1. k[1] # 0 /\ k # NoKey
  BY HeaderTypes DEF IsKey, Validate
<1>2. ErrInvalidKey[1] = 0 /\ ErrNotAscending[1] = 0 /\ ErrExhausted[1] = 0
  BY DEF ErrInvalidKey, ErrNotAscending, ErrExhausted
<1>3. QED
  BY <1>1, <1>2 DEF Errors

(* Between never refuses two keys that ascend, nor an open end: there is   *)
(* always a key strictly between them, and Between answers one. This is    *)
(* what fracdex.go promises of the space of keys.                          *)
THEOREM AlwaysRoom ==
  ASSUME NEW p, NEW n, p = NoKey \/ IsKey(p), n = NoKey \/ IsKey(n),
         p # NoKey /\ n # NoKey => Below(p, n)
  PROVE  /\ IsKey(Between(p, n)) /\ Between(p, n) \notin Errors
         /\ p # NoKey => Below(p, Between(p, n))
         /\ n # NoKey => Below(Between(p, n), n)
<1>1. splitBound(p) /\ splitBound(n)
  BY DEF splitBound, IsKey
<1>2. CASE p = NoKey /\ n = NoKey
  <2>1. Between(p, n) = firstKey
    BY <1>1, <1>2 DEF Between
  <2>2. IsInteger(firstKey) /\ firstKey[1] = 1
    BY ShortIntegers
  <2>3. firstKey # smallestInteger
    BY <2>2, FloorType, HeaderTypes
  <2>4. IsKey(firstKey)
    BY <2>2, <2>3, BareInteger
  <2>5. QED
    BY <1>2, <2>1, <2>4, KeysAreNoErrors
<1>3. CASE p = NoKey /\ n # NoKey
  <2>1. Between(p, n) = before(integer(n), fraction(n))
    BY <1>1, <1>3 DEF Between
  <2>2. QED
    BY <1>3, <2>1, BeforeCorrect, KeysAreNoErrors
<1>4. CASE p # NoKey /\ n = NoKey
  <2>1. Between(p, n) = after(integer(p), fraction(p))
    BY <1>1, <1>4 DEF Between
  <2>2. QED
    BY <1>4, <2>1, AfterCorrect, KeysAreNoErrors
<1>5. CASE p # NoKey /\ n # NoKey
  <2>1. Between(p, n) = inside(p, n)
    BY <1>1, <1>5 DEF Between
  <2>2. QED
    BY <1>5, <2>1, InsideCorrect, KeysAreNoErrors
<1>6. QED
  BY <1>2, <1>3, <1>4, <1>5

-----------------------------------------------------------------------------
(* What is stored is a key, whoever stored it. *)
PositionsAreKeys ==
    /\ DOMAIN position = Rows
    /\ \A r \in Rows : position[r] = NoKey \/ IsKey(position[r])

(* A mover holds what Between answered for two keys that ascend. They need *)
(* no longer be neighbours: others have written since.                     *)
HeldBetween ==
    /\ moving \in [Movers -> Rows \cup {Nobody}]
    /\ DOMAIN prev = Movers /\ DOMAIN next = Movers /\ DOMAIN key = Movers
    /\ \A m \in Movers :
        /\ prev[m] = NoKey \/ IsKey(prev[m])
        /\ next[m] = NoKey \/ IsKey(next[m])
        /\ moving[m] # Nobody =>
            /\ IsKey(key[m])
            /\ prev[m] # NoKey => Below(prev[m], key[m])
            /\ next[m] # NoKey => Below(key[m], next[m])

IInv == PositionsAreKeys /\ HeldBetween /\ moves \in 0 .. MaxMoves

(* The invariant holds at the start. *)
LEMMA InitInv == Init => IInv
<1> SUFFICES ASSUME Init PROVE IInv
  OBVIOUS
<1> USE DEF Init
<1>1. PositionsAreKeys
  <2>1. position \in [Rows -> Positions \cup {NoKey}]
    OBVIOUS
  <2>2. ASSUME NEW r \in Rows PROVE position[r] = NoKey \/ IsKey(position[r])
    BY <2>1, PositionsAssumption DEF IsKey
  <2>3. QED
    BY <2>1, <2>2 DEF PositionsAreKeys
<1>2. HeldBetween
  BY DEF HeldBetween
<1>3. moves \in 0 .. MaxMoves
  BY BoundsAssumption
<1>4. QED
  BY <1>1, <1>2, <1>3 DEF IInv

(* Every step keeps it: Drop because AlwaysRoom, Write because what it     *)
(* stores is what the mover holds.                                         *)
LEMMA NextInv == IInv /\ [Next]_vars => IInv'
<1> SUFFICES ASSUME IInv, [Next]_vars PROVE IInv'
  OBVIOUS
<1>1. PositionsAreKeys /\ HeldBetween /\ moves \in 0 .. MaxMoves
  BY DEF IInv
<1>2. ASSUME NEW m \in Movers, NEW r \in Rows, NEW g \in Gaps(r), Drop(m, r, g[1], g[2])
      PROVE  IInv'
  <2> DEFINE p == g[1]
             n == g[2]
             k == Between(p, n)
  <2>1. p \in Others(r) \cup {NoKey} /\ n \in Others(r) \cup {NoKey} /\ Adjacent(Others(r), p, n)
    BY DEF Gaps
  <2>2. (p = NoKey \/ IsKey(p)) /\ (n = NoKey \/ IsKey(n))
    BY <1>1, <2>1 DEF Others, PositionsAreKeys
  <2>3. p # NoKey /\ n # NoKey => Below(p, n)
    BY <2>1 DEF Adjacent
  <2> HIDE DEF p, n
  <2>4. /\ IsKey(k) /\ (p # NoKey => Below(p, k)) /\ (n # NoKey => Below(k, n))
    BY <2>2, <2>3, AlwaysRoom
  <2>5. /\ moving' = [moving EXCEPT ![m] = r]
        /\ prev' = [prev EXCEPT ![m] = p]
        /\ next' = [next EXCEPT ![m] = n]
        /\ key' = [key EXCEPT ![m] = k]
        /\ moves' = moves + 1 /\ moves < MaxMoves
        /\ UNCHANGED position
    BY <1>2 DEF Drop, p, n
  <2> HIDE DEF k
  <2>6. PositionsAreKeys'
    BY <1>1, <2>5 DEF PositionsAreKeys
  <2>7. HeldBetween'
    BY <1>1, <2>2, <2>4, <2>5 DEF HeldBetween
  <2>8. (moves \in 0 .. MaxMoves)'
    BY <1>1, <2>5, BoundsAssumption
  <2>9. QED
    BY <2>6, <2>7, <2>8 DEF IInv
<1>3. ASSUME NEW m \in Movers, Write(m) PROVE IInv'
  <2>1. HeldBetween'
    BY <1>1, <1>3 DEF HeldBetween, Write, Idle
  <2>2. PositionsAreKeys'
    <3>1. CASE position' = [position EXCEPT ![moving[m]] = key[m]]
      <4>1. moving[m] \in Rows /\ IsKey(key[m])
        BY <1>1, <1>3 DEF HeldBetween, Write
      <4>2. QED
        BY <1>1, <3>1, <4>1 DEF PositionsAreKeys
    <3>2. CASE UNCHANGED position
      BY <1>1, <3>2 DEF PositionsAreKeys
    <3>3. QED
      BY <1>3, <3>1, <3>2 DEF Write
  <2>3. (moves \in 0 .. MaxMoves)'
    BY <1>1, <1>3 DEF Write
  <2>4. QED
    BY <2>1, <2>2, <2>3 DEF IInv
<1>4. CASE UNCHANGED vars
  BY <1>1, <1>4 DEF IInv, PositionsAreKeys, HeldBetween, vars
<1>5. QED
  BY <1>2, <1>3, <1>4 DEF Next, Terminated

(* The inductive invariant of the list. *)
THEOREM Inductive == Spec => []IInv
<1>1. Init => IInv
  BY InitInv
<1>2. IInv /\ [Next]_vars => IInv'
  BY NextInv
<1>3. QED
  BY <1>1, <1>2, PTL DEF Spec

(* Every position in the list is a key that Validate accepts, for every    *)
(* list, however many people reorder it and however often: a stored key    *)
(* is a bound that Between will take.                                      *)
THEOREM TypeCorrect == Spec => []TypeOK
<1>1. IInv => TypeOK
  BY DEF IInv, PositionsAreKeys, HeldBetween, TypeOK, IsKey
<1>2. QED
  BY <1>1, Inductive, PTL

(* Between refuses no drop, and the key it answers lies strictly between   *)
(* the two rows the mover read, at both ends of the integer space, across  *)
(* every change of width and at every depth of the fractions.              *)
THEOREM RoomInEveryGap == Spec => []LandsInGap
<1>1. IInv => LandsInGap
  BY KeysAreNoErrors DEF IInv, HeldBetween, LandsInGap
<1>2. QED
  BY <1>1, Inductive, PTL
=============================================================================
