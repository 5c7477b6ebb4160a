------------------------------ MODULE Fracdex ------------------------------
(***************************************************************************)
(* The order keys of every ordered list: Between and Validate.             *)
(*                                                                         *)
(* A key is a sequence: a header, the digits of the integer part, and the  *)
(* digits of the fraction. A digit is its index in the alphabet, Base      *)
(* stands for a byte that is not a digit, and a header is the number of    *)
(* integer digits it announces, with the sign of its half: 1 is "a", 2 is  *)
(* "b", -1 is "Z", -2 is "Y", 0 is a byte that is no header. That keeps    *)
(* the order of bytes. The empty sequence is the empty string, "no bound". *)
(*                                                                         *)
(* The loops and the tail recursions of the code run to the first digit    *)
(* that stops them; the definitions name that digit instead.               *)
(***************************************************************************)
EXTENDS Integers, Sequences

CONSTANTS
    Base,   \* len(digits): 62
    Widest  \* integer digits under the headers "z" and "A": 26

ASSUME BaseAssumption == Base \in Nat /\ Base > 1
ASSUME WidestAssumption == Widest \in Nat \ {0}

Digits == 0 .. Base - 1
Headers == (-Widest .. -1) \cup (1 .. Widest)

top == Base - 1

NoKey == <<>>
firstKey == <<1, 0>>
smallestInteger == <<-Widest>> \o [i \in 1 .. Widest |-> 0]

(* What Between answers to a bound that is not a key, to bounds that do    *)
(* not ascend, and when an integer has no neighbour. An error is no key: 0 *)
(* is no header.                                                           *)
ErrInvalidKey == <<0, 1>>
ErrNotAscending == <<0, 2>>
ErrExhausted == <<0, 3>>
Errors == {ErrInvalidKey, ErrNotAscending, ErrExhausted}

(* Bytewise order: at the first place where they differ, a has ended or    *)
(* has the smaller byte.                                                   *)
Below(a, b) ==
    \E i \in 1 .. Len(b) :
        /\ i <= Len(a) + 1
        /\ \A j \in 1 .. i - 1 : a[j] = b[j]
        /\ i <= Len(a) => a[i] < b[i]

-----------------------------------------------------------------------------
(* The length of an integer part, header included. *)
integerWidth(h) == (IF h > 0 THEN h ELSE -h) + 1

(* drop: past the end of a fraction there are zeros, which are not kept. *)
drop(s, n) == SubSeq(s, n + 1, Len(s))

integer(key) == SubSeq(key, 1, integerWidth(key[1]))
fraction(key) == drop(key, integerWidth(key[1]))

(* split: the keys this package could have produced. *)
Validate(key) ==
    /\ key # NoKey
    /\ key # smallestInteger
    /\ key[1] \in Headers
    /\ integerWidth(key[1]) <= Len(key)
    /\ \A i \in 2 .. Len(key) : key[i] \in Digits
    /\ fraction(key) = NoKey \/ key[Len(key)] # 0

(* A bound is a key, or absent. *)
splitBound(key) == key = NoKey \/ Validate(key)

-----------------------------------------------------------------------------
(* The last place of s that holds something else than d, 0 when none does. *)
LastOther(s, d) ==
    LET places == {i \in 1 .. Len(s) : s[i] # d}
    IN  IF places = {} THEN 0 ELSE CHOOSE i \in places : \A j \in places : j <= i

(* increment: the carry runs through the top digits; out of the last one   *)
(* it changes the header, and with it the width.                           *)
increment(int) ==
    LET h == int[1]
        body == Tail(int)
        p == LastOther(body, top)
    IN  CASE p > 0 -> <<h>> \o [i \in 1 .. Len(body) |->
                          IF i < p THEN body[i] ELSE IF i = p THEN body[i] + 1 ELSE 0]
          [] p = 0 /\ h = -1 -> firstKey
          [] p = 0 /\ h = Widest -> ErrExhausted
          [] OTHER -> <<h + 1>> \o [i \in 1 .. (integerWidth(h + 1) - 1) |-> 0]

(* decrement: the same with a borrow. *)
decrement(int) ==
    LET h == int[1]
        body == Tail(int)
        p == LastOther(body, 0)
    IN  CASE p > 0 -> <<h>> \o [i \in 1 .. Len(body) |->
                          IF i < p THEN body[i] ELSE IF i = p THEN body[i] - 1 ELSE top]
          [] p = 0 /\ h = 1 -> <<-1, top>>
          [] p = 0 /\ h = -Widest -> ErrExhausted
          [] OTHER -> <<h - 1>> \o [i \in 1 .. (integerWidth(h - 1) - 1) |-> top]

-----------------------------------------------------------------------------
(* leadingDigit of what is left after i - 1 digits: a missing one is zero. *)
DigitAt(f, i) == IF i <= Len(f) THEN f[i] ELSE 0

(* How many leading digits of b a fraction a has too. *)
commonPrefixLen(a, b) ==
    CHOOSE n \in 0 .. Len(b) :
        /\ \A i \in 1 .. n : DigitAt(a, i) = b[i]
        /\ n < Len(b) => DigitAt(a, n + 1) # b[n + 1]

(* Mutant: the digit in the middle is rounded down. *)
midpointAfterDown(a) ==
    LET n == CHOOSE k \in 0 .. Len(a) :
                /\ \A i \in 1 .. k : a[i] = top
                /\ DigitAt(a, k + 1) # top
    IN  Append(SubSeq(a, 1, n), (DigitAt(a, n + 1) + Base - 1) \div 2)

(* midpointAfter: the leading top digits are kept, and the digit behind    *)
(* them goes half of the way up.                                           *)
midpointAfter(a) ==
    LET n == CHOOSE k \in 0 .. Len(a) :
                /\ \A i \in 1 .. k : a[i] = top
                /\ DigitAt(a, k + 1) # top
    IN  Append(SubSeq(a, 1, n), (DigitAt(a, n + 1) + Base + 1) \div 2)

(* midpoint: what is shared is kept. Between digits that are not           *)
(* neighbours there is one; b's own digit is below b when b goes on;       *)
(* otherwise the key goes behind the rest of a.                            *)
midpoint(a, b) ==
    LET n == commonPrefixLen(a, b)
        low == DigitAt(a, n + 1)
        high == b[n + 1]
        shared == SubSeq(b, 1, n)
    IN  CASE high - low > 1 -> Append(shared, (low + high + 1) \div 2)
          [] high - low <= 1 /\ Len(b) > n + 1 -> Append(shared, high)
          [] OTHER -> Append(shared, low) \o midpointAfter(drop(a, n + 1))

-----------------------------------------------------------------------------
(* Mutant: the web client's rule, which hands out the floor of the space. *)
beforeLikeTheClient(int, frac) ==
    CASE int = smallestInteger -> int \o midpoint(NoKey, frac)
      [] int # smallestInteger /\ frac # NoKey -> int
      [] OTHER -> decrement(int)

(* before: a key below the one that splits into int and frac. *)
before(int, frac) ==
    CASE int = smallestInteger -> int \o midpoint(NoKey, frac)
      [] int # smallestInteger /\ frac # NoKey -> int
      [] OTHER -> IF decrement(int) = smallestInteger
                  THEN smallestInteger \o midpointAfter(NoKey)
                  ELSE decrement(int)

(* after: a key above the one that splits into int and frac. *)
after(int, frac) ==
    IF increment(int) = ErrExhausted THEN int \o midpointAfter(frac) ELSE increment(int)

(* Both bounds are keys, on different integers or on the same. *)
inside(prev, next) ==
    LET stepped == increment(integer(prev))
    IN  CASE integer(prev) = integer(next) ->
                 integer(prev) \o midpoint(fraction(prev), fraction(next))
          [] integer(prev) # integer(next) /\ stepped = ErrExhausted -> ErrExhausted
          [] OTHER -> IF Below(stepped, next) THEN stepped
                      ELSE integer(prev) \o midpointAfter(fraction(prev))

Between(prev, next) ==
    CASE ~splitBound(prev) \/ ~splitBound(next) -> ErrInvalidKey
      [] prev # NoKey /\ next # NoKey /\ ~Below(prev, next) -> ErrNotAscending
      [] prev = NoKey /\ next = NoKey -> firstKey
      [] prev = NoKey /\ next # NoKey -> before(integer(next), fraction(next))
      [] prev # NoKey /\ next = NoKey -> after(integer(prev), fraction(prev))
      [] OTHER -> inside(prev, next)
=============================================================================
