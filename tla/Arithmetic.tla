----------------------------- MODULE Arithmetic -----------------------------
(***************************************************************************)
(* Facts about natural numbers that the proofs about several modules need. *)
(* The least element of a set is what replaces induction over numbers.     *)
(***************************************************************************)
EXTENDS Integers, WellFoundedInduction, TLAPS

(* A nonempty set of natural numbers has a least element: what the loops   *)
(* that search an array or a bitmap from its front rely on.                *)
LEMMA LeastNatural ==
  ASSUME NEW T \in SUBSET Nat, T # {}
  PROVE  \E x \in T : \A y \in T : x <= y
<1> DEFINE R == {ss \in Nat \X Nat : ss[1] < ss[2]}
<1>1. IsWellFoundedOn(R, Nat)
  BY NatLessThanWellFounded DEF OpToRel
<1> HIDE DEF R
<1>2. PICK x \in T : \A y \in T : <<y, x>> \notin R
  BY <1>1, WFMin
<1>3. ASSUME NEW y \in T
      PROVE  x <= y
  <2>1. ~ (y < x)
    BY <1>2 DEF R
  <2> QED
    BY <2>1
<1> QED
  BY <1>3

(* Quotient and remainder, for the index computations that split a number  *)
(* into a word and a bit, or a slot into bus, device and function.         *)
LEMMA DivMod ==
  ASSUME NEW b \in Nat \ {0}, NEW x \in Int
  PROVE  /\ x \div b \in Int
         /\ x % b \in 0 .. b - 1
         /\ x = b * (x \div b) + (x % b)
OBVIOUS

(* Only one quotient and remainder fit a number.                           *)
LEMMA DivModUnique ==
  ASSUME NEW b \in Nat \ {0}, NEW q \in Int, NEW r \in 0 .. b - 1
  PROVE  (q * b + r) \div b = q /\ (q * b + r) % b = r
OBVIOUS

(* A number below w words of b bits lies in one of the words.              *)
LEMMA DivBelow ==
  ASSUME NEW b \in Nat \ {0}, NEW w \in Nat, NEW x \in 0 .. w * b - 1
  PROVE  x \div b \in 0 .. w - 1
OBVIOUS

(* The powers of 2 of a machine word of 32 bits.                           *)
LEMMA Powers ==
  ASSUME NEW k \in 0 .. 31
  PROVE  2 ^ k \in Nat \ {0} /\ 2 ^ (k + 1) = 2 * 2 ^ k
<1>0. CASE k = 0
  BY <1>0
<1>1. CASE k = 1
  BY <1>1
<1>2. CASE k = 2
  BY <1>2
<1>3. CASE k = 3
  BY <1>3
<1>4. CASE k = 4
  BY <1>4
<1>5. CASE k = 5
  BY <1>5
<1>6. CASE k = 6
  BY <1>6
<1>7. CASE k = 7
  BY <1>7
<1>8. CASE k = 8
  BY <1>8
<1>9. CASE k = 9
  BY <1>9
<1>10. CASE k = 10
  BY <1>10
<1>11. CASE k = 11
  BY <1>11
<1>12. CASE k = 12
  BY <1>12
<1>13. CASE k = 13
  BY <1>13
<1>14. CASE k = 14
  BY <1>14
<1>15. CASE k = 15
  BY <1>15
<1>16. CASE k = 16
  BY <1>16
<1>17. CASE k = 17
  BY <1>17
<1>18. CASE k = 18
  BY <1>18
<1>19. CASE k = 19
  BY <1>19
<1>20. CASE k = 20
  BY <1>20
<1>21. CASE k = 21
  BY <1>21
<1>22. CASE k = 22
  BY <1>22
<1>23. CASE k = 23
  BY <1>23
<1>24. CASE k = 24
  BY <1>24
<1>25. CASE k = 25
  BY <1>25
<1>26. CASE k = 26
  BY <1>26
<1>27. CASE k = 27
  BY <1>27
<1>28. CASE k = 28
  BY <1>28
<1>29. CASE k = 29
  BY <1>29
<1>30. CASE k = 30
  BY <1>30
<1>31. CASE k = 31
  BY <1>31
<1> QED
  BY <1>0, <1>1, <1>2, <1>3, <1>4, <1>5, <1>6, <1>7, <1>8, <1>9, <1>10,
     <1>11, <1>12, <1>13, <1>14, <1>15, <1>16, <1>17, <1>18, <1>19, <1>20,
     <1>21, <1>22, <1>23, <1>24, <1>25, <1>26, <1>27, <1>28, <1>29, <1>30,
     <1>31

(* Taking the next bit of a number: b is the weight of the bit.            *)
LEMMA NextBit ==
  ASSUME NEW x \in Nat, NEW b \in Nat \ {0}
  PROVE  /\ (x \div b) % 2 \in {0, 1}
         /\ x \div b = 2 * (x \div (2 * b)) + ((x \div b) % 2)
         /\ x % (2 * b) = b * ((x \div b) % 2) + (x % b)
<1>1. /\ x \div b \in Int /\ x % b \in 0 .. b - 1
      /\ x = b * (x \div b) + (x % b)
  BY DivMod
<1> DEFINE q == x \div b
           r == x % b
<1> HIDE DEF q, r
<1>2. q \in Int /\ r \in 0 .. b - 1 /\ x = b * q + r
  BY <1>1 DEF q, r
<1>3. /\ q \div 2 \in Int /\ q % 2 \in {0, 1} /\ q = 2 * (q \div 2) + (q % 2)
  BY <1>2
<1> DEFINE h == q \div 2
           t == q % 2
<1> HIDE DEF h, t
<1>4. h \in Int /\ t \in {0, 1} /\ q = 2 * h + t
  BY <1>3 DEF h, t
<1>5. x = h * (2 * b) + (b * t + r) /\ b * t + r \in 0 .. 2 * b - 1
  <2>1. b * q = h * (2 * b) + b * t
    BY <1>4
  <2>2. b * t \in {0, b}
    BY <1>4
  <2> QED
    BY <1>2, <1>4, <2>1, <2>2
<1>6. x \div (2 * b) = h /\ x % (2 * b) = b * t + r
  <2>1. 2 * b \in Nat \ {0} /\ h \in Int
    BY <1>4
  <2> DEFINE m == b * t + r
  <2>2. m \in 0 .. 2 * b - 1 /\ x = h * (2 * b) + m
    BY <1>5
  <2> HIDE DEF m
  <2>3. x \div (2 * b) = h /\ x % (2 * b) = m
    BY <2>1, <2>2, DivModUnique
  <2> QED
    BY <2>3 DEF m
<1> QED
  BY <1>3, <1>4, <1>6 DEF h, t, q, r

\* A power that the solver takes as it is, and does not calculate with.
Power(k) == 2 ^ k

(* Two powers of 2 that make up the upper bit of a word of 16 bits.        *)
LEMMA PowerPairs ==
  ASSUME NEW k \in 0 .. 15, NEW m \in 0 .. 15, k + m = 15
  PROVE  Power(k) * Power(m) = 32768
<1>0. CASE k = 0 /\ m = 15
  BY <1>0 DEF Power
<1>1. CASE k = 1 /\ m = 14
  BY <1>1 DEF Power
<1>2. CASE k = 2 /\ m = 13
  BY <1>2 DEF Power
<1>3. CASE k = 3 /\ m = 12
  BY <1>3 DEF Power
<1>4. CASE k = 4 /\ m = 11
  BY <1>4 DEF Power
<1>5. CASE k = 5 /\ m = 10
  BY <1>5 DEF Power
<1>6. CASE k = 6 /\ m = 9
  BY <1>6 DEF Power
<1>7. CASE k = 7 /\ m = 8
  BY <1>7 DEF Power
<1>8. CASE k = 8 /\ m = 7
  BY <1>8 DEF Power
<1>9. CASE k = 9 /\ m = 6
  BY <1>9 DEF Power
<1>10. CASE k = 10 /\ m = 5
  BY <1>10 DEF Power
<1>11. CASE k = 11 /\ m = 4
  BY <1>11 DEF Power
<1>12. CASE k = 12 /\ m = 3
  BY <1>12 DEF Power
<1>13. CASE k = 13 /\ m = 2
  BY <1>13 DEF Power
<1>14. CASE k = 14 /\ m = 1
  BY <1>14 DEF Power
<1>15. CASE k = 15 /\ m = 0
  BY <1>15 DEF Power
<1> QED
  BY <1>0, <1>1, <1>2, <1>3, <1>4, <1>5, <1>6, <1>7, <1>8, <1>9, <1>10, <1>11, <1>12, <1>13, <1>14, <1>15

(* A multiple of a number has no remainder.                                *)
LEMMA Multiple ==
  ASSUME NEW s \in Nat \ {0}, NEW x \in Int
  PROVE  x % s = 0 <=> \E k \in Int : x = k * s
<1>1. ASSUME x % s = 0 PROVE \E k \in Int : x = k * s
  <2>1. x \div s \in Int /\ x = s * (x \div s) + (x % s)
    BY DivMod
  <2>2. x = (x \div s) * s
    BY <1>1, <2>1
  <2> QED
    BY <2>1, <2>2
<1>2. ASSUME NEW k \in Int, x = k * s PROVE x % s = 0
  <2>1. (k * s + 0) % s = 0
    BY DivModUnique
  <2>2. k * s + 0 = k * s
    BY <1>2
  <2> QED
    BY <1>2, <2>1, <2>2
<1> QED
  BY <1>1, <1>2

(* Multiples of s lie at least s apart, and s further is another one.      *)
LEMMA MultipleGap ==
  ASSUME NEW s \in Nat \ {0}, NEW x \in Int, NEW y \in Int, x % s = 0, y % s = 0, x < y
  PROVE  x + s <= y
<1>1. PICK k \in Int : x = k * s
  BY Multiple
<1>2. PICK m \in Int : y = m * s
  BY Multiple
<1>3. k < m
  BY <1>1, <1>2
<1>4. PICK d \in Nat : m = k + 1 + d
  <2>1. m - k - 1 \in Nat /\ m = k + 1 + (m - k - 1)
    BY <1>3
  <2> QED
    BY <2>1
<1>5. m * s = k * s + s + d * s /\ d * s >= 0
  BY <1>4
<1> QED
  BY <1>1, <1>2, <1>5

(* One step of s before or behind a multiple of s is another multiple.     *)
LEMMA MultipleSteps ==
  ASSUME NEW s \in Nat \ {0}, NEW x \in Int, x % s = 0
  PROVE  (x + s) % s = 0 /\ (x - s) % s = 0
<1>1. PICK k \in Int : x = k * s
  BY Multiple
<1>2. x + s = (k + 1) * s /\ x - s = (k - 1) * s
  BY <1>1
<1> QED
  BY <1>2, Multiple

(* A multiple of s is one of 2 * s, or the one before it is; and every     *)
(* multiple of 2 * s is one of s.                                          *)
LEMMA MultipleHalf ==
  ASSUME NEW s \in Nat \ {0}, NEW x \in Int
  PROVE  /\ x % (2 * s) = 0 => x % s = 0
         /\ x % s = 0 => \/ x % (2 * s) = 0 /\ (x - s) % (2 * s) # 0
                         \/ x % (2 * s) # 0 /\ (x - s) % (2 * s) = 0
<1>0. 2 * s \in Nat \ {0}
  OBVIOUS
<1>1. ASSUME x % (2 * s) = 0 PROVE x % s = 0
  <2>1. PICK k \in Int : x = k * (2 * s)
    BY <1>0, <1>1, Multiple
  <2>2. x = (2 * k) * s /\ 2 * k \in Int
    BY <2>1
  <2> QED
    BY <2>2, Multiple
<1>2. ASSUME x % s = 0
      PROVE  \/ x % (2 * s) = 0 /\ (x - s) % (2 * s) # 0
             \/ x % (2 * s) # 0 /\ (x - s) % (2 * s) = 0
  <2>1. PICK k \in Int : x = k * s
    BY <1>2, Multiple
  <2>2. PICK m \in Int : k = 2 * m \/ k = 2 * m + 1
    <3>1. k = 2 * (k \div 2) + (k % 2) /\ k % 2 \in 0 .. 1 /\ k \div 2 \in Int
      BY DivMod
    <3> QED
      BY <3>1
  <2>3. CASE k = 2 * m
    <3>1. x = m * (2 * s) /\ x - s = (m - 1) * (2 * s) + s
      BY <2>1, <2>3
    <3>2. x % (2 * s) = 0
      BY <1>0, <3>1, Multiple
    <3>3. ((m - 1) * (2 * s) + s) % (2 * s) = s
      BY <1>0, DivModUnique
    <3> QED
      BY <3>1, <3>2, <3>3
  <2>4. CASE k = 2 * m + 1
    <3>1. x = m * (2 * s) + s /\ x - s = m * (2 * s)
      BY <2>1, <2>4
    <3>2. (x - s) % (2 * s) = 0
      <4>1. x - s \in Int
        OBVIOUS
      <4> QED
        BY <1>0, <3>1, <4>1, Multiple
    <3>3. (m * (2 * s) + s) % (2 * s) = s
      BY <1>0, DivModUnique
    <3> QED
      BY <3>1, <3>2, <3>3
  <2> QED
    BY <2>2, <2>3, <2>4
<1> QED
  BY <1>1, <1>2
=============================================================================
