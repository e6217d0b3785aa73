----------------------------- MODULE Sort_proofs -----------------------------
(***************************************************************************)
(* Proofs about Sort, for arrays of every length: a sort that returns has  *)
(* sorted, and quicksort nests at most one call more than there are        *)
(* elements.                                                               *)
(***************************************************************************)
EXTENDS Sort, FiniteSetTheorems, SequenceTheorems, TLAPS

-----------------------------------------------------------------------------
\* Parts of an array

Ascending(d, a, b) == \A i, j \in a .. b : i <= j => d[i] <= d[j]

\* Nothing in a .. m - 1 is larger than anything in m .. b.
Below(d, a, m, b) == \A i \in a .. m - 1, j \in m .. b : d[i] <= d[j]

\* The last element is larger than all the others.
EndsHighest(d, a, b) == \A i \in a .. b - 1 : d[i] < d[b]

Arrays(m) == [1 .. m + 1 -> Values]

\* From d to e, elements moved only within a .. b.
MovedWithin(m, d, e, a, b) ==
  /\ \A x \in 1 .. m + 1 : x < a \/ b < x => e[x] = d[x]
  /\ \A x \in 1 .. m + 1 : a <= x /\ x <= b =>
       \E y \in 1 .. m + 1 : a <= y /\ y <= b /\ e[x] = d[y]

(* The elements are ints, the one behind the array too.                    *)
LEMMA Elements ==
  ASSUME NEW m \in Nat, NEW d \in Arrays(m)
  PROVE  \A x \in 1 .. m + 1 : d[x] \in Int
BY SortAssumption DEF Arrays

(* int_swap exchanges two elements, and keeps the others where they are.   *)
LEMMA SwapValues ==
  ASSUME NEW m \in Nat, NEW d \in Arrays(m), NEW i \in 1 .. m + 1, NEW j \in 1 .. m + 1
  PROVE  /\ int_swap(d, i, j) \in Arrays(m)
         /\ \A x \in 1 .. m + 1 :
              int_swap(d, i, j)[x] = IF x = i THEN d[j] ELSE IF x = j THEN d[i] ELSE d[x]
BY DEF int_swap, Arrays

(* A swap inside a range moves elements only within this range.            *)
LEMMA SwapMoves ==
  ASSUME NEW m \in Nat, NEW d \in Arrays(m), NEW a \in 1 .. m + 1, NEW b \in 0 .. m + 1,
         NEW i \in a .. b, NEW j \in a .. b
  PROVE  MovedWithin(m, d, int_swap(d, i, j), a, b)
<1> DEFINE e == int_swap(d, i, j)
<1>1. \A x \in 1 .. m + 1 : e[x] = IF x = i THEN d[j] ELSE IF x = j THEN d[i] ELSE d[x]
  BY SwapValues
<1> HIDE DEF e
<1>2. i \in 1 .. m + 1 /\ j \in 1 .. m + 1
  OBVIOUS
<1>3. MovedWithin(m, d, e, a, b)
  BY <1>1, <1>2 DEF MovedWithin
<1> QED
  BY <1>3 DEF e

(* What holds between two neighbouring parts of the array survives a move  *)
(* inside one of them.                                                     *)
LEMMA MoveKeepsBelow ==
  ASSUME NEW m \in Nat, NEW d, NEW e, NEW a \in Int, NEW b \in Int,
         MovedWithin(m, d, e, a, b),
         NEW p \in 1 .. m + 1, NEW s \in 1 .. m + 2, NEW q \in 0 .. m,
         Below(d, p, s, q),
         \/ p <= a /\ b < s
         \/ s <= a /\ b <= q
  PROVE  Below(e, p, s, q)
<1> SUFFICES ASSUME NEW i \in p .. s - 1, NEW j \in s .. q
             PROVE  e[i] <= e[j]
  BY DEF Below
<1>0. i \in 1 .. m + 1 /\ j \in 1 .. m + 1
  OBVIOUS
<1>1. PICK x \in p .. s - 1 : e[i] = d[x]
  BY <1>0 DEF MovedWithin
<1>2. PICK y \in s .. q : e[j] = d[y]
  BY <1>0 DEF MovedWithin
<1> QED
  BY <1>1, <1>2 DEF Below

(* A move that leaves the last element alone leaves it the largest.        *)
LEMMA MoveKeepsHighest ==
  ASSUME NEW m \in Nat, NEW d, NEW e, NEW a \in Int, NEW b \in Int,
         MovedWithin(m, d, e, a, b),
         NEW p \in 1 .. m + 1, NEW q \in p .. m,
         EndsHighest(d, p, q),
         b < p \/ (p <= a /\ b < q)
  PROVE  EndsHighest(e, p, q)
<1> SUFFICES ASSUME NEW i \in p .. q - 1
             PROVE  e[i] < e[q]
  BY DEF EndsHighest
<1>0. i \in 1 .. m + 1 /\ q \in 1 .. m + 1
  OBVIOUS
<1>1. e[q] = d[q]
  BY <1>0 DEF MovedWithin
<1>2. PICK x \in p .. q - 1 : e[i] = d[x]
  BY <1>0 DEF MovedWithin
<1> QED
  BY <1>1, <1>2 DEF EndsHighest

(* A move behind a sorted part does not touch it.                          *)
LEMMA MoveKeepsAscending ==
  ASSUME NEW m \in Nat, NEW d, NEW e, NEW a \in Int, NEW b \in Int,
         MovedWithin(m, d, e, a, b),
         NEW p \in 1 .. m + 1, NEW q \in 0 .. m,
         Ascending(d, p, q),
         q < a
  PROVE  Ascending(e, p, q)
<1>1. \A i \in p .. q : e[i] = d[i]
  BY DEF MovedWithin
<1> QED
  BY <1>1 DEF Ascending

(* Two sorted parts, the lower one not above the upper one, are sorted as  *)
(* a whole.                                                                *)
LEMMA Joined ==
  ASSUME NEW m \in Nat, NEW d, NEW a \in 1 .. m + 1, NEW s \in 1 .. m + 2, NEW b \in 0 .. m,
         Ascending(d, a, s - 1), Below(d, a, s, b), Ascending(d, s, b)
  PROVE  Ascending(d, a, b)
<1> SUFFICES ASSUME NEW i \in a .. b, NEW j \in a .. b, i <= j
             PROVE  d[i] <= d[j]
  BY DEF Ascending
<1>1. CASE j < s
  BY <1>1 DEF Ascending
<1>2. CASE i < s /\ s <= j
  BY <1>2 DEF Below
<1>3. CASE s <= i
  BY <1>3 DEF Ascending
<1> QED
  BY <1>1, <1>2, <1>3

-----------------------------------------------------------------------------
\* No element is lost or doubled

(* A swap keeps how often each int occurs in the array.                    *)
LEMMA SwapCounts ==
  ASSUME n \in Nat, NEW d \in Arrays(n), NEW i \in 1 .. n, NEW j \in 1 .. n, NEW v
  PROVE  Count(int_swap(d, i, j), v) = Count(d, v)
<1> DEFINE e == int_swap(d, i, j)
           S == {x \in 1 .. n : d[x] = v}
           T == {x \in 1 .. n : e[x] = v}
           move == [x \in S |-> IF x = i THEN j ELSE IF x = j THEN i ELSE x]
<1>1. \A x \in 1 .. n : e[x] = IF x = i THEN d[j] ELSE IF x = j THEN d[i] ELSE d[x]
  BY SwapValues
<1> HIDE DEF e
<1>2. \A x \in S : move[x] = IF x = i THEN j ELSE IF x = j THEN i ELSE x
  OBVIOUS
<1>3. move \in [S -> T]
  BY <1>1
<1>4. \A x, y \in S : move[x] = move[y] => x = y
  BY <1>2
<1>5. \A y \in T : \E x \in S : move[x] = y
  <2> SUFFICES ASSUME NEW y \in T
               PROVE  \E x \in S : move[x] = y
    OBVIOUS
  <2> DEFINE x == IF y = i THEN j ELSE IF y = j THEN i ELSE y
  <2>1. x \in S
    BY <1>1
  <2>2. move[x] = y
    BY <1>2, <2>1
  <2> QED
    BY <2>1, <2>2
<1>6. IsFiniteSet(S)
  <2>1. IsFiniteSet(1 .. n)
    BY FS_Interval
  <2> QED
    BY <2>1, FS_Subset
<1> HIDE DEF S, T, move
<1>7. move \in Bijection(S, T)
  BY <1>3, <1>4, <1>5 DEF Bijection, Injection, Surjection, IsInjective
<1>8. Cardinality(T) = Cardinality(S)
  BY <1>6, <1>7, FS_Bijection DEF ExistsBijection
<1> QED
  BY <1>8 DEF Count, S, T, e

-----------------------------------------------------------------------------
\* The calls of quicksort_internal

Places == {"partition", "low", "high"}

\* The calls on an array of m elements.
Calls(m) ==
  [first : 1 .. m + 1, last : 0 .. m, ptr : 1 .. m + 1, split : 2 .. m + 2, at : Places]

(* The fields of a call are numbers of the array's size.                   *)
LEMMA CallFields ==
  ASSUME NEW m \in Nat, NEW f \in Calls(m)
  PROVE  /\ f.first \in 1 .. m + 1 /\ f.last \in 0 .. m /\ f.ptr \in 1 .. m + 1
         /\ f.split \in 2 .. m + 2 /\ f.at \in Places
         /\ f.first \in Int /\ f.last \in Int /\ f.split \in Int
BY DEF Calls

InRange(f) ==
  /\ f.first <= f.last + 1 /\ f.first <= f.ptr
  /\ f.ptr <= f.last \/ f.ptr = f.first
  /\ f.first < f.split /\ f.split <= f.ptr + 1
  /\ f.at # "partition" => f.ptr = f.last /\ f.first < f.last

\* What is smaller than the pivot has been moved in front of the rest.  When
\* the pivot has been placed no element of the lower part is above one of the
\* upper part; before the call on the upper part the lower one is sorted.
Partitioned(d, f) ==
  /\ f.at = "partition" =>
       /\ \A i \in f.first + 1 .. f.split - 1 : d[i] < d[f.first]
       /\ \A i \in f.split .. f.ptr : d[f.first] <= d[i]
  /\ f.at # "partition" => Below(d, f.first, f.split, f.last)
  /\ f.at = "high" => Ascending(d, f.first, f.split - 1)

\* The range, and when the lower part is being sorted, what is left of it.
Rest(f) == IF f.at = "low" THEN f.split ELSE f.first

Extent(f) == f.last - f.first + 1

\* h calls are nested down to f.  As many more as f has elements may follow;
\* one less when the last element is the largest, as it is in a lower part.
Shrinks(m, d, f, h) ==
  /\ h + Extent(f) <= m + 2
  /\ \/ h + Extent(f) <= m + 1
     \/ f.at = "high"
     \/ Rest(f) <= f.last /\ EndsHighest(d, Rest(f), f.last)

CallInv(m, d, f, h) == InRange(f) /\ Partitioned(d, f) /\ Shrinks(m, d, f, h)

\* The range a .. b belongs to the part that f waits for.
Inside(f, a, b) ==
  \/ f.at = "low" /\ f.first <= a /\ b < f.split
  \/ f.at = "high" /\ f.split <= a /\ b <= f.last

(* A range inside a range.                                                 *)
LEMMA InsideSmaller ==
  ASSUME NEW m \in Nat, NEW f \in Calls(m), NEW a \in Int, NEW b \in Int, Inside(f, a, b),
         NEW p \in Int, NEW q \in Int, a <= p, q <= b
  PROVE  Inside(f, p, q)
<1> DEFINE first == f.first
           split == f.split
           last == f.last
<1>1. first \in Int /\ split \in Int /\ last \in Int
  BY CallFields
<1>2. ASSUME first <= a, b < split
      PROVE  first <= p /\ q < split
  <2> HIDE DEF first, split
  <2> QED
    BY <1>1, <1>2
<1>3. ASSUME split <= a, b <= last
      PROVE  split <= p /\ q <= last
  <2> HIDE DEF split, last
  <2> QED
    BY <1>1, <1>3
<1> QED
  BY <1>2, <1>3 DEF Inside

(* What is known of a waiting call survives whatever is moved in the part  *)
(* it waits for.                                                           *)
LEMMA WaitingKeeps ==
  ASSUME NEW m \in Nat, NEW d, NEW e, NEW f \in Calls(m), NEW h \in Nat,
         NEW a \in Int, NEW b \in Int,
         MovedWithin(m, d, e, a, b), Inside(f, a, b), CallInv(m, d, f, h)
  PROVE  CallInv(m, e, f, h)
<1>1. /\ f.first \in 1 .. m + 1 /\ f.last \in 0 .. m /\ f.ptr \in 1 .. m + 1
      /\ f.split \in 2 .. m + 2
  BY DEF Calls
<1>2. /\ InRange(f) /\ Partitioned(d, f) /\ Shrinks(m, d, f, h)
      /\ f.at # "partition" /\ f.split <= f.last + 1
  BY <1>1 DEF CallInv, InRange, Inside
<1>3. Below(e, f.first, f.split, f.last)
  <2>1. Below(d, f.first, f.split, f.last)
    BY <1>2 DEF Partitioned
  <2> QED
    BY <1>1, <1>2, <2>1, MoveKeepsBelow DEF Inside
<1>4. ASSUME f.at = "high"
      PROVE  Ascending(e, f.first, f.split - 1)
  <2>1. Ascending(d, f.first, f.split - 1) /\ f.split - 1 < a /\ f.split - 1 \in 0 .. m
    BY <1>1, <1>2, <1>4 DEF Partitioned, Inside
  <2> QED
    BY <1>1, <2>1, MoveKeepsAscending
<1>5. Shrinks(m, e, f, h)
  <2>1. CASE f.at = "high"
    BY <1>2, <2>1 DEF Shrinks
  <2>2. CASE f.at = "low" /\ h + Extent(f) <= m + 1
    BY <1>2, <2>2 DEF Shrinks
  <2>3. CASE f.at = "low" /\ ~ (h + Extent(f) <= m + 1)
    <3>1. /\ h + Extent(f) <= m + 2 /\ f.split <= f.last
          /\ EndsHighest(d, f.split, f.last)
      BY <1>2, <2>3 DEF Shrinks, Rest
    <3>2. b < f.split /\ f.split \in 1 .. m + 1 /\ f.last \in f.split .. m
      BY <1>1, <2>3, <3>1 DEF Inside
    <3>3. EndsHighest(e, f.split, f.last)
      BY <3>1, <3>2, MoveKeepsHighest
    <3> QED
      BY <2>3, <3>1, <3>3 DEF Shrinks, Rest
  <2> QED
    BY <1>2, <2>1, <2>2, <2>3 DEF Inside
<1> QED
  BY <1>2, <1>3, <1>4, <1>5 DEF CallInv, Partitioned

(* One comparison of the partition, with its swap.                         *)
LEMMA CompareKeeps ==
  ASSUME NEW m \in Nat, NEW d \in Arrays(m), NEW f \in Calls(m), NEW h \in Nat,
         CallInv(m, d, f, h), f.at = "partition", f.first < f.last, f.ptr < f.last,
         d[f.ptr + 1] < d[f.first]
  PROVE  LET e == int_swap(d, f.ptr + 1, f.split)
             g == [f EXCEPT !.ptr = f.ptr + 1, !.split = @ + 1]
         IN  /\ g \in Calls(m) /\ e \in Arrays(m)
             /\ f.split \in f.first .. f.last
             /\ CallInv(m, e, g, h)
<1> DEFINE p == f.ptr + 1
           s == f.split
           e == int_swap(d, p, s)
           g == [f EXCEPT !.ptr = p, !.split = s + 1]
<1>1. /\ f.first \in 1 .. m + 1 /\ f.last \in 0 .. m /\ f.ptr \in 1 .. m + 1
      /\ s \in 2 .. m + 2 /\ f.at \in Places
  BY DEF Calls
<1>2. /\ InRange(f) /\ Partitioned(d, f) /\ Shrinks(m, d, f, h)
      /\ f.first < s /\ s <= p /\ p <= f.last /\ p \in 1 .. m + 1 /\ s \in 1 .. m + 1
      /\ p = f.ptr + 1
  BY <1>1 DEF CallInv, InRange
<1>0. s + 1 \in 2 .. m + 2 /\ d[p] < d[f.first]
  BY <1>1, <1>2
<1> HIDE DEF p, s
<1>3. /\ g.first = f.first /\ g.last = f.last /\ g.ptr = p /\ g.split = s + 1
      /\ g.at = "partition" /\ g \in Calls(m)
  BY <1>0, <1>1, <1>2 DEF Calls
<1>9. p \in 1 .. m + 1 /\ s \in 1 .. m + 1
  BY <1>2
<1>4. /\ e \in Arrays(m)
      /\ \A x \in 1 .. m + 1 : e[x] = IF x = p THEN d[s] ELSE IF x = s THEN d[p] ELSE d[x]
  BY <1>9, SwapValues
<1> HIDE DEF e, g
<1>5. InRange(g)
  BY <1>1, <1>2, <1>3 DEF InRange
<1>6. Partitioned(e, g)
  <2>1. /\ \A i \in f.first + 1 .. s - 1 : d[i] < d[f.first]
        /\ \A i \in s .. f.ptr : d[f.first] <= d[i]
    BY <1>2 DEF Partitioned, s
  <2>2. e[f.first] = d[f.first]
    BY <1>1, <1>2, <1>4
  <2>3. \A i \in f.first + 1 .. s : e[i] < e[f.first]
    BY <1>1, <1>2, <1>4, <2>1, <2>2
  <2>4. \A i \in s + 1 .. p : e[f.first] <= e[i]
    BY <1>1, <1>2, <1>4, <2>1, <2>2
  <2> QED
    BY <1>1, <1>3, <2>3, <2>4 DEF Partitioned
<1>7. Shrinks(m, e, g, h)
  <2>1. Extent(g) = Extent(f) /\ Rest(g) = f.first /\ Rest(f) = f.first
    BY <1>3 DEF Extent, Rest
  <2>2. CASE h + Extent(f) <= m + 1
    BY <1>2, <2>1, <2>2 DEF Shrinks
  <2>3. CASE ~ (h + Extent(f) <= m + 1)
    <3>1. h + Extent(f) <= m + 2 /\ EndsHighest(d, f.first, f.last)
      BY <1>2, <2>1, <2>3 DEF Shrinks
    <3>2. p # f.last
      <4>1. d[f.first] < d[f.last]
        BY <1>1, <3>1 DEF EndsHighest
      <4>2. f.first \in 1 .. m + 1 /\ f.last \in 1 .. m + 1
        BY <1>1
      <4>3. \A x \in 1 .. m + 1 : d[x] \in Int
        BY Elements
      <4> QED
        BY <1>0, <4>1, <4>2, <4>3
    <3>3. EndsHighest(e, f.first, f.last)
      BY <1>1, <1>2, <1>4, <3>1, <3>2 DEF EndsHighest
    <3> QED
      BY <1>1, <1>3, <2>1, <3>1, <3>3 DEF Shrinks
  <2> QED
    BY <2>2, <2>3
<1>8. f.split \in f.first .. f.last
  BY <1>1, <1>2 DEF s
<1> QED
  BY <1>3, <1>4, <1>5, <1>6, <1>7, <1>8 DEF CallInv, e, g, p, s

(* The pivot goes to the end of the lower part, which it is the largest    *)
(* element of: the call on the lower part may be as long as its caller,    *)
(* and still less remains to nest.                                         *)
LEMMA PivotKeeps ==
  ASSUME NEW m \in Nat, NEW d \in Arrays(m), NEW f \in Calls(m), NEW h \in Nat,
         CallInv(m, d, f, h), f.at = "partition", f.first < f.last, f.ptr = f.last
  PROVE  LET e == int_swap(d, f.first, f.split - 1)
             g == [f EXCEPT !.at = "low"]
             lower == Frame(f.first, f.split - 1)
         IN  /\ e \in Arrays(m) /\ g \in Calls(m) /\ lower \in Calls(m)
             /\ f.first \in f.first .. f.last /\ f.split - 1 \in f.first .. f.last
             /\ CallInv(m, e, g, h) /\ CallInv(m, e, lower, h + 1)
<1> DEFINE a == f.first
           s == f.split
           b == f.last
           t == f.split - 1
           e == int_swap(d, a, t)
           g == [f EXCEPT !.at = "low"]
           lower == Frame(a, s - 1)
<1>1. /\ a \in 1 .. m + 1 /\ b \in 0 .. m /\ f.ptr \in 1 .. m + 1
      /\ s \in 2 .. m + 2 /\ f.at \in Places
  BY DEF Calls
<1>2. /\ InRange(f) /\ Partitioned(d, f) /\ Shrinks(m, d, f, h)
      /\ a < b /\ a < s /\ s <= b + 1 /\ f.ptr = b
  BY <1>1 DEF CallInv, InRange
<1>3. a \in 1 .. m + 1 /\ t \in 1 .. m + 1 /\ t = s - 1
  BY <1>1, <1>2
<1> HIDE DEF a, b, s, t
<1>4. /\ e \in Arrays(m)
      /\ \A x \in 1 .. m + 1 :
           e[x] = IF x = a THEN d[t] ELSE IF x = t THEN d[a] ELSE d[x]
  <2>1. a \in 1 .. m + 1 /\ t \in 1 .. m + 1
    BY <1>3
  <2> QED
    BY <2>1, SwapValues
<1>5. /\ g.first = a /\ g.last = b /\ g.ptr = b /\ g.split = s /\ g.at = "low"
      /\ g \in Calls(m)
  BY <1>1, <1>2 DEF Calls, Places, a, b, s
<1>6. /\ lower.first = a /\ lower.last = s - 1 /\ lower.ptr = a /\ lower.split = a + 1
      /\ lower.at = "partition" /\ lower \in Calls(m)
  BY <1>1, <1>2 DEF Calls, Places, Frame
<1>7. /\ \A i \in a + 1 .. s - 1 : d[i] < d[a]
      /\ \A i \in s .. b : d[a] <= d[i]
  BY <1>2 DEF Partitioned, a, b, s
<1>8. \A x \in 1 .. m + 1 : d[x] \in Int
  BY Elements
<1> HIDE DEF e, g, lower
<1>9. /\ e[s - 1] = d[a]
      /\ \A i \in a .. s - 2 : e[i] < d[a]
      /\ \A i \in s .. b : e[i] = d[i]
  BY <1>1, <1>2, <1>3, <1>4, <1>7
<1>10. Below(e, a, s, b)
  <2>1. ASSUME NEW i \in a .. s - 1
        PROVE  e[i] <= d[a]
    <3>1. CASE i = s - 1
      BY <1>3, <1>8, <1>9, <3>1
    <3>2. CASE i \in a .. s - 2
      <4>1. e[i] < d[a] /\ i \in 1 .. m + 1
        BY <1>1, <1>9, <3>2
      <4>2. e[i] \in Int /\ d[a] \in Int
        BY <1>3, <1>4, <1>8, <4>1, SortAssumption DEF Arrays
      <4> QED
        BY <4>1, <4>2
    <3> QED
      BY <1>1, <3>1, <3>2
  <2>2. \A j \in s .. b : d[a] <= e[j]
    BY <1>7, <1>9
  <2>3. \A x \in 1 .. m + 1 : e[x] \in Int
    BY <1>4, SortAssumption DEF Arrays
  <2>4. SUFFICES ASSUME NEW i \in a .. s - 1, NEW j \in s .. b
                 PROVE  e[i] <= e[j]
    BY DEF Below
  <2>5. e[i] \in Int /\ e[j] \in Int /\ d[a] \in Int
    BY <1>1, <1>2, <1>8, <2>3
  <2> QED
    BY <2>1, <2>2, <2>5
<1>11. EndsHighest(e, a, s - 1)
  BY <1>1, <1>2, <1>9 DEF EndsHighest
<1>12. InRange(g) /\ Partitioned(e, g)
  BY <1>1, <1>2, <1>5, <1>10 DEF InRange, Partitioned
<1>13. InRange(lower) /\ Partitioned(e, lower)
  <2>1. InRange(lower)
    BY <1>1, <1>2, <1>6 DEF InRange
  <2>2. \A i \in lower.split .. lower.ptr : e[lower.first] <= e[i]
    BY <1>1, <1>6
  <2>3. \A i \in lower.first + 1 .. lower.split - 1 : e[i] < e[lower.first]
    BY <1>1, <1>6
  <2> QED
    BY <1>6, <2>1, <2>2, <2>3 DEF Partitioned
<1>14. Shrinks(m, e, g, h) /\ Shrinks(m, e, lower, h + 1)
  <2>1. /\ Rest(f) = a /\ Rest(g) = s /\ Rest(lower) = a
        /\ Extent(f) = b - a + 1 /\ Extent(g) = b - a + 1 /\ Extent(lower) = s - a
    BY <1>1, <1>5, <1>6 DEF Rest, Extent, a, b
  <2>2. CASE h + Extent(f) <= m + 1
    <3>1. Shrinks(m, e, g, h)
      BY <1>2, <2>1, <2>2 DEF Shrinks
    <3>2. (h + 1) + Extent(lower) <= m + 2 /\ a <= s - 1
      BY <1>1, <1>2, <2>1, <2>2
    <3> QED
      BY <1>6, <1>11, <2>1, <3>1, <3>2 DEF Shrinks
  <2>3. CASE ~ (h + Extent(f) <= m + 1)
    <3>1. h + Extent(f) <= m + 2 /\ EndsHighest(d, a, b)
      BY <1>2, <2>1, <2>3 DEF Shrinks, b
    <3>2. s <= b
      <4>1. d[a] < d[b] /\ b \in 1 .. m + 1
        BY <1>1, <1>2, <3>1 DEF EndsHighest
      <4>2. b \notin a + 1 .. s - 1
        BY <1>3, <1>7, <1>8, <4>1
      <4> QED
        BY <1>1, <1>2, <4>2
    <3>3. EndsHighest(e, s, b)
      BY <1>1, <1>2, <1>9, <3>1, <3>2 DEF EndsHighest
    <3>4. Shrinks(m, e, g, h)
      BY <1>5, <2>1, <3>1, <3>2, <3>3 DEF Shrinks
    <3>5. (h + 1) + Extent(lower) <= m + 2 /\ a <= s - 1
      BY <1>1, <1>2, <2>1, <3>1, <3>2
    <3> QED
      BY <1>6, <1>11, <2>1, <3>4, <3>5 DEF Shrinks
  <2> QED
    BY <2>2, <2>3
<1>15. a \in a .. b /\ s - 1 \in a .. b
  BY <1>1, <1>2
<1> QED
  BY <1>4, <1>5, <1>6, <1>12, <1>13, <1>14, <1>15 DEF CallInv, a, b, s, t, e, g, lower

(* The call on the upper part is shorter than its caller, and ends with    *)
(* the largest element if its caller does.                                 *)
LEMMA UpperKeeps ==
  ASSUME NEW m \in Nat, NEW d \in Arrays(m), NEW f \in Calls(m), NEW h \in Nat,
         CallInv(m, d, f, h), f.at = "low", Ascending(d, f.first, f.split - 1)
  PROVE  LET g == [f EXCEPT !.at = "high"]
             upper == Frame(f.split, f.last)
         IN  /\ g \in Calls(m) /\ upper \in Calls(m)
             /\ CallInv(m, d, g, h) /\ CallInv(m, d, upper, h + 1)
<1> DEFINE g == [f EXCEPT !.at = "high"]
           upper == Frame(f.split, f.last)
<1>1. /\ f.first \in 1 .. m + 1 /\ f.last \in 0 .. m /\ f.ptr \in 1 .. m + 1
      /\ f.split \in 2 .. m + 2 /\ f.at \in Places
  BY DEF Calls
<1>2. /\ InRange(f) /\ Partitioned(d, f) /\ Shrinks(m, d, f, h)
      /\ f.first < f.last /\ f.first < f.split /\ f.split <= f.last + 1 /\ f.ptr = f.last
  BY <1>1 DEF CallInv, InRange
<1>3. /\ g.first = f.first /\ g.last = f.last /\ g.ptr = f.ptr /\ g.split = f.split
      /\ g.at = "high" /\ g \in Calls(m)
  BY <1>1 DEF Calls, Places
<1>4. /\ upper.first = f.split /\ upper.last = f.last /\ upper.ptr = f.split
      /\ upper.split = f.split + 1 /\ upper.at = "partition" /\ upper \in Calls(m)
  BY <1>1, <1>2 DEF Calls, Places, Frame
<1> HIDE DEF g, upper
<1>5. CallInv(m, d, g, h)
  <2>1. InRange(g)
    BY <1>1, <1>2, <1>3 DEF InRange
  <2>2. Below(d, f.first, f.split, f.last)
    BY <1>2 DEF Partitioned
  <2>3. Partitioned(d, g)
    BY <1>3, <2>2 DEF Partitioned
  <2>4. Shrinks(m, d, g, h)
    <3>1. Extent(g) = Extent(f)
      BY <1>3 DEF Extent
    <3> QED
      BY <1>2, <1>3, <3>1 DEF Shrinks
  <2> QED
    BY <2>1, <2>3, <2>4 DEF CallInv
<1>6. CallInv(m, d, upper, h + 1)
  <2>1. InRange(upper)
    BY <1>1, <1>2, <1>4 DEF InRange
  <2>2. Partitioned(d, upper)
    <3>1. /\ \A i \in upper.first + 1 .. upper.split - 1 : d[i] < d[upper.first]
          /\ \A i \in upper.split .. upper.ptr : d[upper.first] <= d[i]
      BY <1>1, <1>4
    <3> QED
      BY <1>4, <3>1 DEF Partitioned
  <2>3. Shrinks(m, d, upper, h + 1)
    <3>1. /\ Rest(f) = f.split /\ Rest(upper) = f.split
          /\ (h + 1) + Extent(upper) <= h + Extent(f)
          /\ h + Extent(f) \in Int /\ (h + 1) + Extent(upper) \in Int
      BY <1>1, <1>2, <1>4 DEF Rest, Extent
    <3>2. \/ h + Extent(f) <= m + 1
          \/ /\ h + Extent(f) <= m + 2
             /\ f.split <= f.last
             /\ EndsHighest(d, f.split, f.last)
      BY <1>2, <3>1 DEF Shrinks
    <3>3. \/ (h + 1) + Extent(upper) <= m + 1
          \/ /\ (h + 1) + Extent(upper) <= m + 2
             /\ f.split <= f.last
             /\ EndsHighest(d, f.split, f.last)
      BY <3>1, <3>2
    <3> QED
      BY <1>4, <3>1, <3>3 DEF Shrinks
  <2> QED
    BY <2>1, <2>2, <2>3 DEF CallInv
<1> QED
  BY <1>3, <1>4, <1>5, <1>6 DEF g, upper

-----------------------------------------------------------------------------
\* The stack of calls, the innermost first

(* A call puts a frame on the stack and changes the one below it.          *)
LEMMA Pushed ==
  ASSUME NEW S, NEW s \in Seq(S), s # <<>>, NEW g \in S, NEW c \in S
  PROVE  LET t == <<c>> \o [s EXCEPT ![1] = g]
         IN  /\ t \in Seq(S) /\ Len(t) = Len(s) + 1
             /\ t[1] = c /\ t[2] = g
             /\ \A k \in 3 .. Len(t) : t[k] = s[k - 1]
<1> DEFINE r == [s EXCEPT ![1] = g]
<1>1. Len(s) \in Nat \ {0} /\ DOMAIN s = 1 .. Len(s)
  BY EmptySeq, LenProperties
<1>2. /\ r \in Seq(S) /\ Len(r) = Len(s) /\ r[1] = g
      /\ \A k \in 2 .. Len(s) : r[k] = s[k]
  BY <1>1
<1> HIDE DEF r
<1> DEFINE t == <<c>> \o r
<1>3. /\ t \in Seq(S) /\ Len(t) = Len(s) + 1 /\ t[1] = c
      /\ \A k \in 2 .. Len(t) : t[k] = r[k - 1]
  BY <1>1, <1>2
<1> HIDE DEF t
<1>4. t[2] = g
  BY <1>1, <1>2, <1>3
<1>5. \A k \in 3 .. Len(t) : t[k] = s[k - 1]
  BY <1>1, <1>2, <1>3
<1> QED
  BY <1>3, <1>4, <1>5 DEF t, r

(* A comparison changes the innermost call and no other.                   *)
LEMMA Replaced ==
  ASSUME NEW S, NEW s \in Seq(S), s # <<>>, NEW g \in S
  PROVE  LET t == [s EXCEPT ![1] = g]
         IN  /\ t \in Seq(S) /\ Len(t) = Len(s) /\ t[1] = g
             /\ \A k \in 2 .. Len(t) : t[k] = s[k]
<1>1. Len(s) \in Nat \ {0} /\ DOMAIN s = 1 .. Len(s)
  BY EmptySeq, LenProperties
<1> QED
  BY <1>1

(* A return takes the innermost call away.                                 *)
LEMMA Popped ==
  ASSUME NEW S, NEW s \in Seq(S), s # <<>>
  PROVE  /\ Len(s) \in Nat \ {0} /\ Tail(s) \in Seq(S) /\ Len(Tail(s)) = Len(s) - 1
         /\ \A k \in 1 .. Len(Tail(s)) : Tail(s)[k] = s[k + 1]
         /\ Tail(s) = <<>> <=> Len(s) = 1
         /\ Head(s) = s[1] /\ s[1] \in S
<1>1. Len(s) \in Nat \ {0}
  BY EmptySeq, LenProperties
<1>2. Tail(s) \in Seq(S) /\ Len(Tail(s)) = Len(s) - 1
  BY <1>1
<1>3. \A k \in 1 .. Len(Tail(s)) : Tail(s)[k] = s[k + 1]
  BY <1>1, <1>2
<1>4. Tail(s) = <<>> <=> Len(s) = 1
  <2>1. Tail(s) = <<>> <=> Len(Tail(s)) = 0
    BY <1>2, EmptySeq, LenProperties
  <2> QED
    BY <1>1, <1>2, <2>1
<1> QED
  BY <1>1, <1>2, <1>3, <1>4

\* The call c sorts just the part that f waits for.
Callee(f, c) ==
  \/ f.at = "low" /\ c.first = f.first /\ c.last = f.split - 1
  \/ f.at = "high" /\ c.first = f.split /\ c.last = f.last

\* The innermost call has got its part sorted.
Returned(d, f) ==
  /\ f.at = "low" => Ascending(d, f.first, f.split - 1)
  /\ f.at = "high" => Ascending(d, f.split, f.last)

StackInv(m, d, s) ==
  /\ \A k \in 1 .. Len(s) : CallInv(m, d, s[k], Len(s) - k + 1)
  /\ \A k \in 2 .. Len(s) : \A j \in 1 .. k - 1 : Inside(s[k], s[j].first, s[j].last)
  /\ \A k \in 2 .. Len(s) : Callee(s[k], s[k - 1])
  /\ s[Len(s)].first = 1 /\ s[Len(s)].last = m
  /\ Returned(d, s[1])

(* The calls that wait know as much as before, whatever the innermost one  *)
(* moves in its range.                                                     *)
LEMMA WaitingKeep ==
  ASSUME NEW m \in Nat, NEW d, NEW e, NEW s \in Seq(Calls(m)), s # <<>>,
         StackInv(m, d, s), MovedWithin(m, d, e, s[1].first, s[1].last),
         NEW k \in 2 .. Len(s)
  PROVE  CallInv(m, e, s[k], Len(s) - k + 1)
<1>1. Len(s) \in Nat /\ s[1] \in Calls(m) /\ s[k] \in Calls(m)
  BY LenProperties, ElementOfSeq
<1>2. s[1].first \in Int /\ s[1].last \in Int
  BY <1>1, CallFields
<1>3. CallInv(m, d, s[k], Len(s) - k + 1) /\ Inside(s[k], s[1].first, s[1].last)
  BY <1>1 DEF StackInv
<1>4. Len(s) - k + 1 \in Nat
  BY <1>1
<1> QED
  BY <1>1, <1>2, <1>3, <1>4, WaitingKeeps

(* A comparison or a swap of the innermost call keeps the stack in order.  *)
LEMMA StepKeeps ==
  ASSUME NEW m \in Nat, NEW d, NEW e, NEW s \in Seq(Calls(m)), s # <<>>,
         StackInv(m, d, s), MovedWithin(m, d, e, s[1].first, s[1].last),
         NEW g \in Calls(m), g.at = "partition",
         g.first = s[1].first, g.last = s[1].last, CallInv(m, e, g, Len(s))
  PROVE  StackInv(m, e, [s EXCEPT ![1] = g])
<1> DEFINE t == [s EXCEPT ![1] = g]
<1>1. /\ t \in Seq(Calls(m)) /\ Len(t) = Len(s) /\ t[1] = g
      /\ \A k \in 2 .. Len(t) : t[k] = s[k]
  BY Replaced
<1> HIDE DEF t
<1>2. Len(s) \in Nat \ {0}
  BY Popped
<1>3. \A k \in 1 .. Len(t) : CallInv(m, e, t[k], Len(t) - k + 1)
  <2>1. \A k \in 2 .. Len(t) : CallInv(m, e, t[k], Len(t) - k + 1)
    BY <1>1, WaitingKeep
  <2>2. Len(t) - 1 + 1 = Len(s)
    BY <1>1, <1>2
  <2>3. CallInv(m, e, t[1], Len(t) - 1 + 1)
    BY <1>1, <2>2
  <2> QED
    BY <1>1, <1>2, <2>1, <2>3
<1>4. \A k \in 1 .. Len(t) : t[k].first = s[k].first /\ t[k].last = s[k].last
  BY <1>1, <1>2
<1>5. \A k \in 2 .. Len(t) : \A j \in 1 .. k - 1 : Inside(t[k], t[j].first, t[j].last)
  BY <1>1, <1>2, <1>4 DEF StackInv
<1>6. \A k \in 2 .. Len(t) : Callee(t[k], t[k - 1])
  <2> SUFFICES ASSUME NEW k \in 2 .. Len(t)
               PROVE  Callee(t[k], t[k - 1])
    OBVIOUS
  <2>1. Callee(s[k], s[k - 1]) /\ t[k] = s[k]
    BY <1>1 DEF StackInv
  <2>2. k - 1 \in 1 .. Len(t)
    BY <1>1, <1>2
  <2>3. t[k - 1].first = s[k - 1].first /\ t[k - 1].last = s[k - 1].last
    BY <1>4, <2>2
  <2> QED
    BY <2>1, <2>3 DEF Callee
<1>7. t[Len(t)].first = 1 /\ t[Len(t)].last = m
  BY <1>1, <1>2, <1>4 DEF StackInv
<1>8. Returned(e, t[1])
  BY <1>1 DEF Returned
<1>9. StackInv(m, e, t)
  BY <1>3, <1>5, <1>6, <1>7, <1>8 DEF StackInv
<1> QED
  BY <1>9 DEF t

(* So does a call: the caller waits for the part that it sorts.            *)
LEMMA CallKeeps ==
  ASSUME NEW m \in Nat, NEW d, NEW e, NEW s \in Seq(Calls(m)), s # <<>>,
         StackInv(m, d, s), MovedWithin(m, d, e, s[1].first, s[1].last),
         NEW g \in Calls(m), NEW c \in Calls(m),
         g.first = s[1].first, g.last = s[1].last, g.split <= g.last + 1, g.first <= g.split,
         CallInv(m, e, g, Len(s)),
         c.at = "partition", Callee(g, c), CallInv(m, e, c, Len(s) + 1)
  PROVE  StackInv(m, e, <<c>> \o [s EXCEPT ![1] = g])
<1> DEFINE t == <<c>> \o [s EXCEPT ![1] = g]
<1>1. /\ t \in Seq(Calls(m)) /\ Len(t) = Len(s) + 1 /\ t[1] = c /\ t[2] = g
      /\ \A k \in 3 .. Len(t) : t[k] = s[k - 1]
  BY Pushed
<1> HIDE DEF t
<1>2. Len(s) \in Nat \ {0} /\ s[1] \in Calls(m)
  BY Popped
<1>3. \A k \in 1 .. Len(t) : CallInv(m, e, t[k], Len(t) - k + 1)
  <2> SUFFICES ASSUME NEW k \in 1 .. Len(t)
               PROVE  CallInv(m, e, t[k], Len(t) - k + 1)
    OBVIOUS
  <2>1. CASE k = 1
    <3>1. Len(t) - k + 1 = Len(s) + 1
      BY <1>1, <1>2, <2>1
    <3> QED
      BY <1>1, <2>1, <3>1
  <2>2. CASE k = 2
    <3>1. Len(t) - k + 1 = Len(s)
      BY <1>1, <1>2, <2>2
    <3> QED
      BY <1>1, <2>2, <3>1
  <2>3. CASE k \in 3 .. Len(t)
    <3>1. /\ k - 1 \in 2 .. Len(s) /\ t[k] = s[k - 1]
          /\ Len(t) - k + 1 = Len(s) - (k - 1) + 1
      BY <1>1, <1>2, <2>3
    <3> DEFINE i == k - 1
    <3>2. i \in 2 .. Len(s) /\ t[k] = s[i] /\ Len(t) - k + 1 = Len(s) - i + 1
      BY <3>1
    <3> HIDE DEF i
    <3>3. CallInv(m, e, s[i], Len(s) - i + 1)
      BY <3>2, WaitingKeep
    <3> QED
      BY <3>2, <3>3
  <2> QED
    BY <1>1, <1>2, <2>1, <2>2, <2>3
<1>4. /\ g.first \in Int /\ g.last \in Int /\ g.split \in Int
      /\ g.first <= c.first /\ c.last <= g.last /\ c.first \in Int /\ c.last \in Int
      /\ Inside(g, c.first, c.last)
  <2>1. /\ g.first \in Int /\ g.last \in Int /\ g.split \in Int
        /\ c.first \in Int /\ c.last \in Int
    BY CallFields
  <2> QED
    BY <2>1 DEF Callee, Inside
<1>5. \A k \in 2 .. Len(t) : \A j \in 1 .. k - 1 : Inside(t[k], t[j].first, t[j].last)
  <2> SUFFICES ASSUME NEW k \in 2 .. Len(t), NEW j \in 1 .. k - 1
               PROVE  Inside(t[k], t[j].first, t[j].last)
    OBVIOUS
  <2>1. CASE k = 2
    BY <1>1, <1>4, <2>1
  <2>2. CASE k > 2
    <3>1. k - 1 \in 2 .. Len(s) /\ t[k] = s[k - 1]
      BY <1>1, <1>2, <2>2
    <3> DEFINE i == k - 1
    <3>2. i \in 2 .. Len(s) /\ t[k] = s[i] /\ k = i + 1
      BY <3>1
    <3> HIDE DEF i
    <3>3. Inside(s[i], g.first, g.last)
      BY <1>2, <3>2 DEF StackInv
    <3>4. CASE j = 1
      <4>1. s[i] \in Calls(m)
        BY <3>2, ElementOfSeq
      <4>3. Inside(s[i], c.first, c.last)
        <5>1. /\ g.first \in Int /\ g.last \in Int /\ c.first \in Int /\ c.last \in Int
              /\ g.first <= c.first /\ c.last <= g.last
          BY <1>4
        <5> QED
          BY <3>3, <4>1, <5>1, InsideSmaller
      <4> QED
        BY <1>1, <3>2, <3>4, <4>3
    <3>5. CASE j = 2
      BY <1>1, <3>2, <3>3, <3>5
    <3>6. CASE j > 2
      <4>1. j - 1 \in 1 .. i - 1 /\ t[j] = s[j - 1]
        BY <1>1, <1>2, <3>2, <3>6
      <4> QED
        BY <3>2, <4>1 DEF StackInv
    <3> QED
      BY <3>4, <3>5, <3>6
  <2> QED
    BY <2>1, <2>2
<1>6. \A k \in 2 .. Len(t) : Callee(t[k], t[k - 1])
  <2> SUFFICES ASSUME NEW k \in 2 .. Len(t)
               PROVE  Callee(t[k], t[k - 1])
    OBVIOUS
  <2>1. CASE k = 2
    BY <1>1, <2>1
  <2>2. CASE k = 3
    <3>1. Callee(s[2], s[1]) /\ t[3] = s[2] /\ t[2] = g
      BY <1>1, <1>2, <2>2 DEF StackInv
    <3> QED
      BY <2>2, <3>1 DEF Callee
  <2>3. CASE k > 3
    <3>1. /\ k - 1 \in 2 .. Len(s) /\ t[k] = s[k - 1]
          /\ t[k - 1] = s[(k - 1) - 1]
      BY <1>1, <1>2, <2>3
    <3> QED
      BY <3>1 DEF StackInv
  <2> QED
    BY <2>1, <2>2, <2>3
<1>7. t[Len(t)].first = 1 /\ t[Len(t)].last = m
  <2>1. CASE Len(s) = 1
    <3>1. t[Len(t)] = g
      BY <1>1, <2>1
    <3>2. s[1].first = 1 /\ s[1].last = m
      BY <2>1 DEF StackInv
    <3> QED
      BY <3>1, <3>2
  <2>2. CASE Len(s) # 1
    <3> DEFINE x == Len(s)
    <3>0. x \in Nat \ {0} /\ x # 1 /\ Len(t) = x + 1
      BY <1>1, <1>2, <2>2
    <3> HIDE DEF x
    <3>2. x + 1 \in 3 .. Len(t) /\ (x + 1) - 1 = x
      BY <3>0
    <3>3. t[x + 1] = s[(x + 1) - 1]
      BY <1>1, <3>2
    <3>1. t[Len(t)] = s[Len(s)]
      BY <3>0, <3>2, <3>3 DEF x
    <3> QED
      BY <3>1 DEF StackInv
  <2> QED
    BY <2>1, <2>2
<1>8. Returned(e, t[1])
  BY <1>1 DEF Returned
<1>9. StackInv(m, e, t)
  BY <1>3, <1>5, <1>6, <1>7, <1>8 DEF StackInv
<1> QED
  BY <1>9 DEF t

(* And a return, of a call that has sorted its range.                      *)
LEMMA ReturnKeeps ==
  ASSUME NEW m \in Nat, NEW d, NEW s \in Seq(Calls(m)), Len(s) > 1,
         StackInv(m, d, s), Ascending(d, s[1].first, s[1].last)
  PROVE  StackInv(m, d, Tail(s))
<1> DEFINE t == Tail(s)
<1>0. s # <<>>
  BY EmptySeq
<1>1. /\ Len(s) \in Nat \ {0} /\ t \in Seq(Calls(m)) /\ Len(t) = Len(s) - 1
      /\ \A k \in 1 .. Len(t) : t[k] = s[k + 1]
  BY <1>0, Popped
<1> HIDE DEF t
<1>2. \A k \in 1 .. Len(t) : CallInv(m, d, t[k], Len(t) - k + 1)
  <2> SUFFICES ASSUME NEW k \in 1 .. Len(t)
               PROVE  CallInv(m, d, t[k], Len(t) - k + 1)
    OBVIOUS
  <2>1. /\ k + 1 \in 1 .. Len(s) /\ t[k] = s[k + 1]
        /\ Len(t) - k + 1 = Len(s) - (k + 1) + 1
    BY <1>1
  <2>2. CallInv(m, d, s[k + 1], Len(s) - (k + 1) + 1)
    BY <2>1 DEF StackInv
  <2> QED
    BY <2>1, <2>2
<1>3. \A k \in 2 .. Len(t) : \A j \in 1 .. k - 1 : Inside(t[k], t[j].first, t[j].last)
  <2> SUFFICES ASSUME NEW k \in 2 .. Len(t), NEW j \in 1 .. k - 1
               PROVE  Inside(t[k], t[j].first, t[j].last)
    OBVIOUS
  <2>1. /\ k + 1 \in 2 .. Len(s) /\ j + 1 \in 1 .. (k + 1) - 1
        /\ k \in 1 .. Len(t) /\ j \in 1 .. Len(t)
    BY <1>1
  <2>2. t[k] = s[k + 1] /\ t[j] = s[j + 1]
    BY <1>1, <2>1
  <2>3. \A x \in 2 .. Len(s) : \A y \in 1 .. x - 1 : Inside(s[x], s[y].first, s[y].last)
    BY DEF StackInv
  <2> QED
    BY <2>1, <2>2, <2>3
<1>4. \A k \in 2 .. Len(t) : Callee(t[k], t[k - 1])
  <2> SUFFICES ASSUME NEW k \in 2 .. Len(t)
               PROVE  Callee(t[k], t[k - 1])
    OBVIOUS
  <2>1. /\ k + 1 \in 2 .. Len(s) /\ t[k] = s[k + 1] /\ t[k - 1] = s[(k + 1) - 1]
    BY <1>1
  <2> QED
    BY <2>1 DEF StackInv
<1>5. t[Len(t)].first = 1 /\ t[Len(t)].last = m
  <2>1. t[Len(t)] = s[Len(s)]
    BY <1>1
  <2> QED
    BY <2>1 DEF StackInv
<1>6. Returned(d, t[1])
  <2>1. t[1] = s[2] /\ Callee(s[2], s[1])
    BY <1>1 DEF StackInv
  <2> QED
    BY <2>1 DEF Callee, Returned
<1>7. StackInv(m, d, t)
  BY <1>2, <1>3, <1>4, <1>5, <1>6 DEF StackInv
<1> QED
  BY <1>7 DEF t

(* The updates of the innermost call, as replacements of it.               *)
LEMMA UpdateAsReplacement ==
  ASSUME NEW m \in Nat, NEW s \in Seq(Calls(m)), s # <<>>, NEW p, NEW place
  PROVE  /\ [s EXCEPT ![1].ptr = p] = [s EXCEPT ![1] = [s[1] EXCEPT !.ptr = p]]
         /\ [s EXCEPT ![1].at = place] = [s EXCEPT ![1] = [s[1] EXCEPT !.at = place]]
         /\ [s EXCEPT ![1].ptr = p, ![1].split = @ + 1]
              = [s EXCEPT ![1] = [s[1] EXCEPT !.ptr = p, !.split = @ + 1]]
<1>1. 1 \in DOMAIN s /\ s[1] \in Calls(m)
  <2>1. Len(s) \in Nat \ {0} /\ s[1] \in Calls(m)
    BY Popped
  <2> QED
    BY <2>1, LenProperties
<1> QED
  BY <1>1 DEF Calls

-----------------------------------------------------------------------------
\* The specification

TypeOK ==
  /\ n \in Nat
  /\ data \in Arrays(n) /\ given \in Arrays(n)
  /\ pc \in {"shuffle", "bubblesort", "quicksort", "done"}
  /\ loop \in [n : Nat, i : Nat]
  /\ frames \in Seq(Calls(n))
  /\ pc = "quicksort" <=> frames # <<>>

\* The elements behind those of the round are in their places, and the round
\* carries the largest element that it has seen along.
Rounds(m, d, r) ==
  /\ r.n \in 0 .. m /\ r.i >= 1 /\ (r.i <= r.n \/ r.i = 1)
  /\ \A x \in 1 .. m, y \in r.n + 1 .. m : x <= y => d[x] <= d[y]
  /\ \A x \in 1 .. r.i : d[x] <= d[r.i]

SameInts ==
  /\ \A v \in Values : Count(data, v) = Count(given, v)
  /\ data[n + 1] = given[n + 1]

SortInv ==
  /\ TypeOK
  /\ pc = "quicksort" => StackInv(n, data, frames)
  /\ pc = "bubblesort" => Rounds(n, data, loop)
  /\ pc # "shuffle" => SameInts
  /\ pc = "done" => Ascending(data, 1, n)

(* One comparison of bubblesort.                                           *)
LEMMA BubbleKeeps ==
  ASSUME NEW m \in Nat, NEW d \in Arrays(m), NEW e \in Arrays(m), NEW r \in [n : Nat, i : Nat],
         Rounds(m, d, r), r.n > 1, r.i < r.n,
         e = IF d[r.i] > d[r.i + 1] THEN int_swap(d, r.i, r.i + 1) ELSE d
  PROVE  Rounds(m, e, [r EXCEPT !.i = @ + 1])
<1> DEFINE i == r.i
           j == r.i + 1
           b == r.n
           q == [r EXCEPT !.i = @ + 1]
<1>1. /\ i \in 1 .. m + 1 /\ j \in 1 .. m + 1 /\ b \in 0 .. m /\ j = i + 1 /\ j <= b
      /\ q.n = b /\ q.i = j
  BY DEF Rounds
<1>2. /\ \A x \in 1 .. m, y \in b + 1 .. m : x <= y => d[x] <= d[y]
      /\ \A x \in 1 .. i : d[x] <= d[i]
  BY DEF Rounds
<1>3. e = IF d[i] > d[j] THEN int_swap(d, i, j) ELSE d
  OBVIOUS
<1> HIDE DEF i, j, b, q
<1>4. \A x \in 1 .. m + 1 : d[x] \in Int /\ e[x] \in Int
  BY Elements
<1>5. i \in 1 .. m + 1 /\ j \in 1 .. m + 1
  BY <1>1
<1>6. \A x \in 1 .. m + 1 :
        e[x] = IF d[i] > d[j] THEN IF x = i THEN d[j] ELSE IF x = j THEN d[i] ELSE d[x]
               ELSE d[x]
  <2>1. CASE d[i] > d[j]
    <3>1. e = int_swap(d, i, j)
      BY <1>3, <2>1
    <3>2. \A x \in 1 .. m + 1 :
            int_swap(d, i, j)[x] = IF x = i THEN d[j] ELSE IF x = j THEN d[i] ELSE d[x]
      BY <1>5, SwapValues
    <3> QED
      BY <2>1, <3>1, <3>2
  <2>2. CASE ~ (d[i] > d[j])
    BY <1>3, <2>2
  <2> QED
    BY <2>1, <2>2
<1>7. \A x \in 1 .. j : e[x] <= e[j]
  <2>1. CASE d[i] > d[j]
    <3>1. e[j] = d[i] /\ e[i] = d[j] /\ \A x \in 1 .. i - 1 : e[x] = d[x]
      BY <1>1, <1>6, <2>1
    <3>2. \A x \in 1 .. i - 1 : e[x] <= e[j]
      BY <1>1, <1>2, <3>1
    <3>3. e[i] <= e[j] /\ e[j] <= e[j]
      BY <1>1, <1>4, <2>1, <3>1
    <3> QED
      BY <1>1, <3>2, <3>3
  <2>2. CASE ~ (d[i] > d[j])
    <3>1. \A x \in 1 .. j : e[x] = d[x] /\ d[x] \in Int
      BY <1>1, <1>4, <1>6, <2>2
    <3>2. d[i] <= d[j] /\ d[i] \in Int /\ d[j] \in Int
      BY <1>1, <1>4, <2>2
    <3>3. \A x \in 1 .. i : d[x] <= d[j]
      BY <1>1, <1>2, <3>1, <3>2
    <3> QED
      BY <1>1, <3>1, <3>2, <3>3
  <2> QED
    BY <2>1, <2>2
<1>8. ASSUME NEW x \in 1 .. m, NEW y \in b + 1 .. m, x <= y
      PROVE  e[x] <= e[y]
  <2>1. e[y] = d[y] /\ y # i /\ y # j
    BY <1>1, <1>6
  <2>2. \E z \in 1 .. m : z <= y /\ e[x] = d[z]
    <3> DEFINE z == IF d[i] > d[j] THEN IF x = i THEN j ELSE IF x = j THEN i ELSE x ELSE x
    <3>1. z \in 1 .. m /\ z <= y
      BY <1>1, <1>8
    <3>2. e[x] = d[z]
      BY <1>1, <1>6
    <3> QED
      BY <3>1, <3>2
  <2> QED
    BY <1>2, <2>1, <2>2
<1>9. Rounds(m, e, q)
  <2>1. /\ q.n \in 0 .. m /\ q.i >= 1 /\ (q.i <= q.n \/ q.i = 1)
    BY <1>1
  <2>2. \A x \in 1 .. m, y \in q.n + 1 .. m : x <= y => e[x] <= e[y]
    BY <1>1, <1>8
  <2>3. \A x \in 1 .. q.i : e[x] <= e[q.i]
    BY <1>1, <1>7
  <2> QED
    BY <2>1, <2>2, <2>3 DEF Rounds
<1> QED
  BY <1>9 DEF q

(* The largest element of a finished round is in its place.                *)
LEMMA RoundEnds ==
  ASSUME NEW m \in Nat, NEW d \in Arrays(m), NEW r \in [n : Nat, i : Nat],
         Rounds(m, d, r), r.n > 1, ~ (r.i < r.n)
  PROVE  Rounds(m, d, [n |-> r.n - 1, i |-> 1])
<1> DEFINE b == r.n
<1>1. b \in 2 .. m /\ r.i = b
  BY DEF Rounds
<1>2. /\ \A x \in 1 .. m, y \in b + 1 .. m : x <= y => d[x] <= d[y]
      /\ \A x \in 1 .. b : d[x] <= d[b]
  BY <1>1 DEF Rounds
<1> HIDE DEF b
<1>3. \A x \in 1 .. m, y \in (b - 1) + 1 .. m : x <= y => d[x] <= d[y]
  <2> SUFFICES ASSUME NEW x \in 1 .. m, NEW y \in (b - 1) + 1 .. m, x <= y
               PROVE  d[x] <= d[y]
    OBVIOUS
  <2>1. CASE y = b
    BY <1>1, <1>2, <2>1
  <2>2. CASE y # b
    BY <1>1, <1>2, <2>2
  <2> QED
    BY <2>1, <2>2
<1>4. d[1] <= d[1]
  <2>1. 1 \in 1 .. m + 1
    OBVIOUS
  <2>2. d[1] \in Int
    BY <2>1, Elements
  <2> QED
    BY <2>2
<1>5. Rounds(m, d, [n |-> b - 1, i |-> 1])
  BY <1>1, <1>3, <1>4 DEF Rounds
<1> QED
  BY <1>5 DEF b

(* No sort runs when shuffle begins.                                       *)
LEMMA InvInit == Init => SortInv
<1> SUFFICES ASSUME Init
             PROVE  SortInv
  OBVIOUS
<1>1. n \in Nat /\ data \in Arrays(n) /\ given \in Arrays(n)
  BY SortAssumption DEF Init, Arrays
<1>2. TypeOK
  BY <1>1, EmptySeq DEF Init, TypeOK
<1> QED
  BY <1>2 DEF Init, SortInv

(* shuffle may reach the int behind the array; it exchanges ints all the   *)
(* same, and what it leaves is what the sort is given.                     *)
LEMMA InvShuffle ==
  ASSUME SortInv, shuffle_swap
  PROVE  SortInv'
<1>1. /\ pc = "shuffle" /\ pc' = pc /\ n' = n /\ frames' = frames /\ given' = given
      /\ loop' = [loop EXCEPT !.i = @ + 1]
  BY DEF shuffle_swap
<1>2. PICK i \in 1 .. n + 1, j \in 1 .. n + 1 : data' = int_swap(data, i, j)
  BY DEF shuffle_swap, RandomIndices
<1>3. data' \in Arrays(n)
  BY <1>2, SwapValues DEF SortInv, TypeOK
<1>4. TypeOK'
  BY <1>1, <1>3 DEF SortInv, TypeOK
<1> QED
  BY <1>1, <1>4 DEF SortInv

(* Before the first round nothing is known but what the sort was given.    *)
LEMMA InvCallBubblesort ==
  ASSUME SortInv, call_bubblesort
  PROVE  SortInv'
<1>1. /\ pc = "shuffle" /\ pc' = "bubblesort" /\ loop' = [n |-> n, i |-> 1]
      /\ given' = data /\ data' = data /\ n' = n /\ frames' = frames
  BY DEF call_bubblesort
<1>2. TypeOK'
  BY <1>1 DEF SortInv, TypeOK
<1>3. Rounds(n, data, loop')
  <2>1. n \in Nat /\ data[1] \in Int
    <3>1. n \in Nat /\ 1 \in 1 .. n + 1 /\ data \in Arrays(n)
      BY DEF SortInv, TypeOK
    <3> QED
      BY <3>1, Elements
  <2> QED
    BY <1>1, <2>1 DEF Rounds
<1>4. SameInts'
  BY <1>1 DEF SameInts, Count
<1> QED
  BY <1>1, <1>2, <1>3, <1>4 DEF SortInv

(* The outermost call gets the whole array, which may be empty.            *)
LEMMA InvQuicksort ==
  ASSUME SortInv, quicksort
  PROVE  SortInv'
<1> DEFINE f == Frame(1, n)
<1>1. /\ pc = "shuffle" /\ pc' = "quicksort" /\ loop' = [n |-> 0, i |-> 0]
      /\ given' = data /\ data' = data /\ n' = n /\ frames' = <<f>>
  BY DEF quicksort
<1>2. /\ f.first = 1 /\ f.last = n /\ f.ptr = 1 /\ f.split = 2 /\ f.at = "partition"
      /\ f \in Calls(n)
  BY DEF Frame, Calls, Places, SortInv, TypeOK
<1> HIDE DEF f
<1>3. TypeOK'
  BY <1>1, <1>2 DEF SortInv, TypeOK
<1>4. StackInv(n, data, <<f>>)
  <2>0. n \in Nat
    BY DEF SortInv, TypeOK
  <2>1. CallInv(n, data, f, 1)
    BY <1>2, <2>0 DEF CallInv, InRange, Partitioned, Shrinks, Extent
  <2>2. Len(<<f>>) = 1 /\ <<f>>[1] = f
    OBVIOUS
  <2>3. Returned(data, f)
    BY <1>2 DEF Returned
  <2>4. \A k \in 1 .. 1 : CallInv(n, data, <<f>>[k], 1 - k + 1)
    BY <2>1, <2>2
  <2> QED
    BY <1>2, <2>2, <2>3, <2>4 DEF StackInv
<1>5. SameInts'
  BY <1>1 DEF SameInts, Count
<1> QED
  BY <1>1, <1>3, <1>4, <1>5 DEF SortInv

(* A swap of two elements of the array keeps the ints and what is behind.  *)
LEMMA SwapKeepsInts ==
  ASSUME TypeOK, SameInts, n' = n, given' = given,
         NEW i \in 1 .. n, NEW j \in 1 .. n, data' = int_swap(data, i, j)
  PROVE  SameInts'
<1>1. n \in Nat /\ data \in Arrays(n) /\ i \in 1 .. n + 1 /\ j \in 1 .. n + 1
      /\ n + 1 \in 1 .. n + 1 /\ i # n + 1 /\ j # n + 1
  BY DEF TypeOK
<1>2. data'[n + 1] = data[n + 1]
  BY <1>1, SwapValues
<1>3. \A v \in Values : Count(data', v) = Count(data, v)
  BY <1>1, SwapCounts
<1>4. \A v \in Values : Count(data, v)' = Count(data', v) /\ Count(given, v)' = Count(given, v)
  BY DEF Count
<1> QED
  BY <1>2, <1>3, <1>4 DEF SameInts

(* A comparison of bubblesort, with the swap that may follow.              *)
LEMMA InvBubbleCompare ==
  ASSUME SortInv, bubble_compare
  PROVE  SortInv'
<1> DEFINE i == loop.i
           j == loop.i + 1
<1>1. /\ pc = "bubblesort" /\ pc' = pc /\ n' = n /\ frames' = frames /\ given' = given
      /\ loop.n > 1 /\ loop.i < loop.n
      /\ loop' = [loop EXCEPT !.i = @ + 1]
      /\ TypeOK /\ SameInts /\ Rounds(n, data, loop)
  BY DEF bubble_compare, InRound, SortInv
<1>2. /\ n \in Nat /\ loop \in [n : Nat, i : Nat] /\ data \in Arrays(n)
      /\ i \in 1 .. n /\ j \in 1 .. n
  BY <1>1 DEF TypeOK, Rounds
<1>3. data[i] \in Int /\ data[j] \in Int
  <2>1. i \in 1 .. n + 1 /\ j \in 1 .. n + 1
    BY <1>2
  <2> QED
    BY <1>2, <2>1, Elements
<1>4. data' = IF data[i] > data[j] THEN int_swap(data, i, j) ELSE data
  BY <1>3 DEF bubble_compare, int_comparator
<1>5. data' \in Arrays(n)
  <2>1. i \in 1 .. n + 1 /\ j \in 1 .. n + 1
    BY <1>2
  <2>2. int_swap(data, i, j) \in Arrays(n)
    BY <1>2, <2>1, SwapValues
  <2> QED
    BY <1>2, <1>4, <2>2
<1>6. TypeOK'
  BY <1>1, <1>2, <1>5 DEF TypeOK
<1>7. Rounds(n, data', loop')
  BY <1>1, <1>2, <1>4, <1>5, BubbleKeeps
<1>8. SameInts'
  <2>1. CASE data[i] > data[j]
    BY <1>1, <1>2, <1>4, <2>1, SwapKeepsInts
  <2>2. CASE ~ (data[i] > data[j])
    BY <1>1, <1>4, <2>2 DEF SameInts, Count
  <2> QED
    BY <2>1, <2>2
<1> QED
  BY <1>1, <1>6, <1>7, <1>8 DEF SortInv

(* The next round leaves out the element that the last one placed.         *)
LEMMA InvBubbleNextRound ==
  ASSUME SortInv, bubble_next_round
  PROVE  SortInv'
<1>1. /\ pc = "bubblesort" /\ pc' = pc /\ n' = n /\ frames' = frames /\ given' = given
      /\ data' = data /\ loop.n > 1 /\ ~ (loop.i < loop.n)
      /\ loop' = [n |-> loop.n - 1, i |-> 1]
      /\ TypeOK /\ SameInts /\ Rounds(n, data, loop)
  BY DEF bubble_next_round, InRound, SortInv
<1>2. n \in Nat /\ loop \in [n : Nat, i : Nat] /\ data \in Arrays(n)
  BY <1>1 DEF TypeOK
<1>3. Rounds(n, data, loop')
  BY <1>1, <1>2, RoundEnds
<1>4. TypeOK'
  BY <1>1, <1>2 DEF TypeOK
<1>5. SameInts'
  BY <1>1 DEF SameInts, Count
<1> QED
  BY <1>1, <1>3, <1>4, <1>5 DEF SortInv

(* When one element is left, all are in their places.                      *)
LEMMA InvBubbleDone ==
  ASSUME SortInv, bubble_done
  PROVE  SortInv'
<1>1. /\ pc = "bubblesort" /\ pc' = "done" /\ n' = n /\ frames' = frames /\ given' = given
      /\ data' = data /\ loop' = loop /\ loop.n <= 1
      /\ TypeOK /\ SameInts /\ Rounds(n, data, loop)
  BY DEF bubble_done, SortInv
<1>2. n \in Nat /\ loop \in [n : Nat, i : Nat] /\ data \in Arrays(n)
  BY <1>1 DEF TypeOK
<1>3. Ascending(data, 1, n)
  <2> SUFFICES ASSUME NEW x \in 1 .. n, NEW y \in 1 .. n, x <= y
               PROVE  data[x] <= data[y]
    BY DEF Ascending
  <2>1. CASE y = 1
    <3>1. data[1] \in Int /\ x = 1
      <4>1. 1 \in 1 .. n + 1
        BY <1>2
      <4> QED
        BY <1>2, <2>1, <4>1, Elements
    <3> QED
      BY <2>1, <3>1
  <2>2. CASE y # 1
    <3>1. y \in loop.n + 1 .. n
      BY <1>1, <1>2, <2>2
    <3> QED
      BY <1>1, <3>1 DEF Rounds
  <2> QED
    BY <2>1, <2>2
<1>4. TypeOK'
  BY <1>1 DEF TypeOK
<1>5. SameInts'
  BY <1>1 DEF SameInts, Count
<1> QED
  BY <1>1, <1>3, <1>4, <1>5 DEF SortInv

(* What the actions of quicksort_internal find.                            *)
LEMMA Running ==
  ASSUME SortInv, pc = "quicksort"
  PROVE  /\ TypeOK /\ SameInts /\ StackInv(n, data, frames)
         /\ n \in Nat /\ data \in Arrays(n) /\ frames \in Seq(Calls(n)) /\ frames # <<>>
         /\ Top = frames[1] /\ Top \in Calls(n) /\ Len(frames) \in Nat \ {0}
         /\ CallInv(n, data, Top, Len(frames))
         /\ Returned(data, Top)
<1>1. /\ TypeOK /\ SameInts /\ StackInv(n, data, frames)
      /\ n \in Nat /\ data \in Arrays(n) /\ frames \in Seq(Calls(n)) /\ frames # <<>>
  BY DEF SortInv, TypeOK
<1>2. /\ Top = frames[1] /\ Top \in Calls(n) /\ Len(frames) \in Nat \ {0}
  BY <1>1, Popped DEF Top
<1>3. Len(frames) - 1 + 1 = Len(frames) /\ 1 \in 1 .. Len(frames)
  BY <1>2
<1>4. CallInv(n, data, frames[1], Len(frames) - 1 + 1)
  BY <1>1, <1>3 DEF StackInv
<1>5. CallInv(n, data, Top, Len(frames))
  BY <1>2, <1>3, <1>4
<1>6. Returned(data, Top)
  BY <1>1, <1>2 DEF StackInv
<1> QED
  BY <1>1, <1>2, <1>5, <1>6

(* Where nothing moves, nothing moves out of a range.                      *)
LEMMA Unmoved ==
  ASSUME NEW m, NEW d, NEW a \in Int, NEW b \in Int
  PROVE  MovedWithin(m, d, d, a, b)
BY DEF MovedWithin

(* A comparison with the pivot: ptr and split advance, inside the range.   *)
LEMMA InvQuickCompare ==
  ASSUME SortInv, quick_compare
  PROVE  SortInv'
<1> DEFINE f == Top
           p == f.ptr + 1
<1>1. /\ pc = "quicksort" /\ pc' = pc /\ n' = n /\ given' = given /\ loop' = loop
      /\ f.at = "partition" /\ ~ (f.last - f.first < 1) /\ p <= f.last
  BY DEF quick_compare, At, IsTrivial
<1>2. /\ TypeOK /\ SameInts /\ StackInv(n, data, frames)
      /\ n \in Nat /\ data \in Arrays(n) /\ frames \in Seq(Calls(n)) /\ frames # <<>>
      /\ f = frames[1] /\ f \in Calls(n) /\ Len(frames) \in Nat \ {0}
      /\ CallInv(n, data, f, Len(frames))
  BY <1>1, Running
<1>3. /\ f.first \in 1 .. n + 1 /\ f.last \in 0 .. n /\ f.ptr \in 1 .. n + 1
      /\ f.split \in 2 .. n + 2
  BY <1>2, CallFields
<1>4. /\ f.first < f.last /\ f.ptr < f.last /\ f.first < f.split /\ f.split <= p
      /\ f.first <= f.ptr
  BY <1>1, <1>2, <1>3 DEF CallInv, InRange
<1>5. IF data[p] < data[f.first]
      THEN /\ data' = int_swap(data, p, f.split)
           /\ frames' = [frames EXCEPT ![1].ptr = p, ![1].split = @ + 1]
      ELSE data' = data /\ frames' = [frames EXCEPT ![1].ptr = p]
  <2>1. p \in 1 .. n + 1
    BY <1>2, <1>3, <1>4
  <2>2. data[p] \in Int /\ data[f.first] \in Int
    BY <1>2, <1>3, <2>1, Elements
  <2>3. IsBelowPivot(p) <=> data[p] < data[f.first]
    BY <2>2 DEF IsBelowPivot, int_comparator
  <2> QED
    BY <2>3 DEF quick_compare
<1> HIDE DEF f
<1>6. CASE data[p] < data[f.first]
  <2> DEFINE g == [f EXCEPT !.ptr = p, !.split = @ + 1]
  <2>1. data' = int_swap(data, p, f.split) /\ frames' = [frames EXCEPT ![1] = g]
    BY <1>2, <1>5, <1>6, UpdateAsReplacement
  <2>2. /\ g \in Calls(n) /\ data' \in Arrays(n) /\ CallInv(n, data', g, Len(frames))
    BY <1>1, <1>2, <1>4, <1>6, <2>1, CompareKeeps
  <2>3. g.at = "partition" /\ g.first = f.first /\ g.last = f.last
    BY <1>1, <1>2 DEF Calls
  <2> HIDE DEF g
  <2>4. /\ f.last \in 0 .. n + 1 /\ p \in f.first .. f.last /\ f.split \in f.first .. f.last
    <3>1. n \in Nat
      BY <1>2
    <3> QED
      BY <1>1, <1>3, <1>4, <3>1
  <2>5. MovedWithin(n, data, data', f.first, f.last)
    <3> HIDE DEF p
    <3> QED
      BY <1>2, <1>3, <2>1, <2>4, SwapMoves
  <2>6. StackInv(n, data', frames')
    BY <1>2, <2>1, <2>2, <2>3, <2>5, StepKeeps
  <2>7. frames' \in Seq(Calls(n)) /\ frames' # <<>>
    <3>1. frames' \in Seq(Calls(n)) /\ Len(frames') = Len(frames)
      BY <1>2, <2>1, <2>2, Replaced
    <3> QED
      BY <1>2, <3>1, EmptySeq
  <2>8. SameInts'
    <3>1. p \in 1 .. n /\ f.split \in 1 .. n
      BY <1>2, <1>3, <2>4
    <3> HIDE DEF p
    <3> QED
      BY <1>1, <1>2, <2>1, <3>1, SwapKeepsInts
  <2>9. TypeOK'
    BY <1>1, <1>2, <2>2, <2>7 DEF TypeOK
  <2> QED
    BY <1>1, <2>6, <2>8, <2>9 DEF SortInv
<1>7. CASE ~ (data[p] < data[f.first])
  <2> DEFINE g == [f EXCEPT !.ptr = p]
  <2>1. data' = data /\ frames' = [frames EXCEPT ![1] = g]
    BY <1>2, <1>5, <1>7, UpdateAsReplacement
  <2>2. /\ g \in Calls(n) /\ g.first = f.first /\ g.last = f.last /\ g.ptr = p
        /\ g.split = f.split /\ g.at = "partition"
    <3>1. p \in 1 .. n + 1 /\ f \in Calls(n)
      BY <1>2, <1>3, <1>4
    <3> HIDE DEF p
    <3> QED
      BY <1>1, <3>1 DEF Calls
  <2> HIDE DEF g
  <2>3. CallInv(n, data, g, Len(frames))
    <3>1. InRange(f) /\ Partitioned(data, f) /\ Shrinks(n, data, f, Len(frames))
      BY <1>2 DEF CallInv
    <3>2. InRange(g)
      BY <1>3, <1>4, <2>2 DEF InRange
    <3>3. \A i \in f.first + 1 .. f.split - 1 : data[i] < data[f.first]
      BY <1>1, <3>1 DEF Partitioned
    <3>4. \A i \in f.split .. p : data[f.first] <= data[i]
      <4>1. \A i \in f.split .. f.ptr : data[f.first] <= data[i]
        BY <1>1, <3>1 DEF Partitioned
      <4>2. p \in 1 .. n + 1
        BY <1>2, <1>3, <1>4
      <4>3. data[p] \in Int /\ data[f.first] \in Int
        BY <1>2, <1>3, <4>2, Elements
      <4>4. data[f.first] <= data[p]
        BY <1>7, <4>3
      <4>5. \A i \in f.split .. p : i \in f.split .. f.ptr \/ i = p
        BY <1>3
      <4> QED
        BY <4>1, <4>4, <4>5
    <3>5. Partitioned(data, g)
      BY <2>2, <3>3, <3>4 DEF Partitioned
    <3>6. Shrinks(n, data, g, Len(frames))
      BY <1>1, <2>2, <3>1 DEF Shrinks, Rest, Extent
    <3> QED
      BY <3>2, <3>5, <3>6 DEF CallInv
  <2>4. f.first \in Int /\ f.last \in Int
    BY <1>3
  <2>5. MovedWithin(n, data, data', f.first, f.last)
    BY <2>1, <2>4, Unmoved
  <2>6. StackInv(n, data', frames')
    BY <1>2, <2>1, <2>2, <2>3, <2>5, StepKeeps
  <2>7. frames' \in Seq(Calls(n)) /\ frames' # <<>>
    <3>1. frames' \in Seq(Calls(n)) /\ Len(frames') = Len(frames)
      BY <1>2, <2>1, <2>2, Replaced
    <3> QED
      BY <1>2, <3>1, EmptySeq
  <2>8. SameInts'
    BY <1>1, <1>2, <2>1 DEF SameInts, Count
  <2>9. TypeOK'
    BY <1>1, <1>2, <2>1, <2>7 DEF TypeOK
  <2> QED
    BY <1>1, <2>6, <2>8, <2>9 DEF SortInv
<1> QED
  BY <1>6, <1>7

(* The pivot is placed, and the lower part is called.                      *)
LEMMA InvQuickLow ==
  ASSUME SortInv, quick_low
  PROVE  SortInv'
<1> DEFINE f == Top
           g == [f EXCEPT !.at = "low"]
           t == f.split - 1
           c == Frame(f.first, t)
<1>1. /\ pc = "quicksort" /\ pc' = pc /\ n' = n /\ given' = given /\ loop' = loop
      /\ f.at = "partition" /\ ~ (f.last - f.first < 1) /\ f.ptr = f.last
      /\ data' = int_swap(data, f.first, t)
      /\ frames' = <<c>> \o [frames EXCEPT ![1].at = "low"]
  BY DEF quick_low, At, IsTrivial, PivotPlaced, LowPart
<1>2. /\ TypeOK /\ SameInts /\ StackInv(n, data, frames)
      /\ n \in Nat /\ data \in Arrays(n) /\ frames \in Seq(Calls(n)) /\ frames # <<>>
      /\ f = frames[1] /\ f \in Calls(n) /\ Len(frames) \in Nat \ {0}
      /\ CallInv(n, data, f, Len(frames))
  BY <1>1, Running
<1> HIDE DEF f
<1>3. /\ f.first \in 1 .. n + 1 /\ f.last \in 0 .. n /\ f.ptr \in 1 .. n + 1
      /\ f.split \in 2 .. n + 2
  BY <1>2, CallFields
<1>4. f.first < f.last
  BY <1>1, <1>3
<1>5. frames' = <<c>> \o [frames EXCEPT ![1] = g]
  BY <1>1, <1>2, UpdateAsReplacement
<1>6. /\ data' \in Arrays(n) /\ g \in Calls(n) /\ c \in Calls(n)
      /\ f.first \in f.first .. f.last /\ t \in f.first .. f.last
      /\ CallInv(n, data', g, Len(frames)) /\ CallInv(n, data', c, Len(frames) + 1)
  BY <1>1, <1>2, <1>4, PivotKeeps
<1>7. /\ g.first = f.first /\ g.last = f.last /\ g.split = f.split /\ g.at = "low"
      /\ c.first = f.first /\ c.last = f.split - 1 /\ c.at = "partition"
  BY <1>2 DEF Calls, Frame
<1>8. g.split <= g.last + 1 /\ g.first <= g.split
  BY <1>3, <1>6, <1>7
<1> HIDE DEF g, t, c
<1>9. MovedWithin(n, data, data', f.first, f.last)
  <2>1. f.last \in 0 .. n + 1
    BY <1>2, <1>3
  <2> QED
    BY <1>1, <1>2, <1>3, <1>6, <2>1, SwapMoves
<1>10. Callee(g, c)
  BY <1>7 DEF Callee
<1>11. StackInv(n, data', frames')
  BY <1>2, <1>5, <1>6, <1>7, <1>8, <1>9, <1>10, CallKeeps
<1>12. frames' \in Seq(Calls(n)) /\ frames' # <<>>
  <2>1. frames' \in Seq(Calls(n)) /\ Len(frames') = Len(frames) + 1
    BY <1>2, <1>5, <1>6, Pushed
  <2> QED
    BY <1>2, <2>1, EmptySeq
<1>13. SameInts'
  <2>1. f.first \in 1 .. n /\ t \in 1 .. n
    <3>1. n \in Nat
      BY <1>2
    <3> QED
      BY <1>3, <1>4, <1>6, <3>1
  <2> QED
    BY <1>1, <1>2, <2>1, SwapKeepsInts
<1>14. TypeOK'
  BY <1>1, <1>2, <1>6, <1>12 DEF TypeOK
<1> QED
  BY <1>1, <1>11, <1>13, <1>14 DEF SortInv

(* The lower part has returned sorted, and the upper part is called.       *)
LEMMA InvQuickHigh ==
  ASSUME SortInv, quick_high
  PROVE  SortInv'
<1> DEFINE f == Top
           g == [f EXCEPT !.at = "high"]
           c == Frame(f.split, f.last)
<1>1. /\ pc = "quicksort" /\ pc' = pc /\ n' = n /\ given' = given /\ loop' = loop
      /\ f.at = "low" /\ data' = data
      /\ frames' = <<c>> \o [frames EXCEPT ![1].at = "high"]
  BY DEF quick_high, At
<1>2. /\ TypeOK /\ SameInts /\ StackInv(n, data, frames)
      /\ n \in Nat /\ data \in Arrays(n) /\ frames \in Seq(Calls(n)) /\ frames # <<>>
      /\ f = frames[1] /\ f \in Calls(n) /\ Len(frames) \in Nat \ {0}
      /\ CallInv(n, data, f, Len(frames)) /\ Returned(data, f)
  BY <1>1, Running
<1> HIDE DEF f
<1>3. /\ f.first \in 1 .. n + 1 /\ f.last \in 0 .. n /\ f.ptr \in 1 .. n + 1
      /\ f.split \in 2 .. n + 2
  BY <1>2, CallFields
<1>4. f.split <= f.last + 1 /\ f.first <= f.split
  BY <1>1, <1>2, <1>3 DEF CallInv, InRange
<1>5. frames' = <<c>> \o [frames EXCEPT ![1] = g]
  BY <1>1, <1>2, UpdateAsReplacement
<1>6. Ascending(data, f.first, f.split - 1)
  BY <1>1, <1>2 DEF Returned
<1>7. /\ g \in Calls(n) /\ c \in Calls(n)
      /\ CallInv(n, data, g, Len(frames)) /\ CallInv(n, data, c, Len(frames) + 1)
  BY <1>1, <1>2, <1>6, UpperKeeps
<1>8. /\ g.first = f.first /\ g.last = f.last /\ g.split = f.split /\ g.at = "high"
      /\ c.first = f.split /\ c.last = f.last /\ c.at = "partition"
  BY <1>2 DEF Calls, Frame
<1> HIDE DEF g, c
<1>9. MovedWithin(n, data, data, f.first, f.last)
  BY <1>3, Unmoved
<1>10. Callee(g, c)
  BY <1>8 DEF Callee
<1>11. StackInv(n, data, frames')
  <2>1. g.split <= g.last + 1 /\ g.first <= g.split
    BY <1>4, <1>8
  <2> QED
    BY <1>2, <1>5, <1>7, <1>8, <1>9, <1>10, <2>1, CallKeeps
<1>12. frames' \in Seq(Calls(n)) /\ frames' # <<>>
  <2>1. frames' \in Seq(Calls(n)) /\ Len(frames') = Len(frames) + 1
    BY <1>2, <1>5, <1>7, Pushed
  <2> QED
    BY <1>2, <2>1, EmptySeq
<1>13. SameInts'
  BY <1>1, <1>2 DEF SameInts, Count
<1>14. TypeOK'
  BY <1>1, <1>2, <1>12 DEF TypeOK
<1> QED
  BY <1>1, <1>11, <1>13, <1>14 DEF SortInv

(* A call returns with its range sorted: because it has at most one        *)
(* element, or because both parts are and the lower one is not above the   *)
(* upper one.                                                              *)
LEMMA InvQuickReturn ==
  ASSUME SortInv, quick_return
  PROVE  SortInv'
<1> DEFINE f == Top
<1>1. /\ pc = "quicksort" /\ n' = n /\ given' = given /\ loop' = loop /\ data' = data
      /\ f.at = "high" \/ (f.at = "partition" /\ f.last - f.first < 1)
      /\ frames' = Tail(frames) /\ pc' = IF frames' = <<>> THEN "done" ELSE pc
  BY DEF quick_return, At, IsTrivial
<1>2. /\ TypeOK /\ SameInts /\ StackInv(n, data, frames)
      /\ n \in Nat /\ data \in Arrays(n) /\ frames \in Seq(Calls(n)) /\ frames # <<>>
      /\ f = frames[1] /\ f \in Calls(n) /\ Len(frames) \in Nat \ {0}
      /\ CallInv(n, data, f, Len(frames)) /\ Returned(data, f)
  BY <1>1, Running
<1> HIDE DEF f
<1>3. /\ f.first \in 1 .. n + 1 /\ f.last \in 0 .. n /\ f.ptr \in 1 .. n + 1
      /\ f.split \in 2 .. n + 2
  BY <1>2, CallFields
<1>4. Ascending(data, f.first, f.last)
  <2>1. CASE f.at = "high"
    <3>1. /\ Ascending(data, f.first, f.split - 1) /\ Below(data, f.first, f.split, f.last)
          /\ Ascending(data, f.split, f.last)
      BY <1>2, <2>1 DEF CallInv, Partitioned, Returned
    <3>2. f.split \in 1 .. n + 2
      BY <1>3
    <3> QED
      BY <1>2, <1>3, <3>1, <3>2, Joined
  <2>2. CASE f.last - f.first < 1
    <3> SUFFICES ASSUME NEW i \in f.first .. f.last, NEW j \in f.first .. f.last
                 PROVE  data[i] <= data[j]
      BY DEF Ascending
    <3>1. i = j /\ i \in 1 .. n + 1
      BY <1>2, <1>3, <2>2
    <3>2. data[i] \in Int
      BY <1>2, <3>1, Elements
    <3> QED
      BY <3>1, <3>2
  <2> QED
    BY <1>1, <2>1, <2>2
<1>5. frames' \in Seq(Calls(n)) /\ (frames' = <<>> <=> Len(frames) = 1)
  BY <1>1, <1>2, Popped
<1>6. SameInts'
  BY <1>1, <1>2 DEF SameInts, Count
<1>7. TypeOK'
  BY <1>1, <1>2, <1>5 DEF TypeOK
<1>8. CASE Len(frames) = 1
  <2>1. f.first = 1 /\ f.last = n
    BY <1>2, <1>8 DEF StackInv
  <2> QED
    BY <1>1, <1>4, <1>5, <1>6, <1>7, <1>8, <2>1 DEF SortInv
<1>9. CASE Len(frames) # 1
  <2> DEFINE h == Len(frames)
  <2>1. h > 1
    <3>1. h \in Nat \ {0} /\ h # 1
      BY <1>2, <1>9
    <3> HIDE DEF h
    <3> QED
      BY <3>1
  <2>2. StackInv(n, data, frames')
    BY <1>1, <1>2, <1>4, <2>1, ReturnKeeps
  <2> QED
    BY <1>1, <1>5, <1>6, <1>7, <1>9, <2>2 DEF SortInv
<1> QED
  BY <1>8, <1>9

(* Every step of shuffle and of the sorts keeps the invariant.             *)
LEMMA InvNext ==
  ASSUME SortInv, [Next]_vars
  PROVE  SortInv'
<1>1. CASE UNCHANGED vars
  BY <1>1 DEF SortInv, TypeOK, SameInts, Count, vars
<1>2. CASE Next
  BY <1>2, InvShuffle, InvCallBubblesort, InvQuicksort, InvBubbleCompare, InvBubbleNextRound,
     InvBubbleDone, InvQuickCompare, InvQuickLow, InvQuickHigh, InvQuickReturn
     DEF Next, Sorting
<1> QED
  BY <1>1, <1>2

-----------------------------------------------------------------------------
\* Theorems

(* The inductive invariant: what every call of quicksort_internal knows of *)
(* its range, and the rounds of bubblesort of the part behind them.        *)
THEOREM Invariant == Spec => []SortInv
<1>1. Init => SortInv
  BY InvInit
<1>2. SortInv /\ [Next]_vars => SortInv'
  BY InvNext
<1> QED
  BY <1>1, <1>2, PTL DEF Spec

(* The indices of both sorts stay inside the array, and the state of the   *)
(* program is well formed.                                                 *)
THEOREM TypeCorrect == Spec => []TypeOK
<1>1. SortInv => TypeOK
  BY DEF SortInv
<1> QED
  BY <1>1, Invariant, PTL

(* A lower part may be as long as the range of its caller, and quicksort   *)
(* still nests at most one call more than the array has elements: the      *)
(* stack that it needs is bounded by the array.                            *)
THEOREM QuicksortDepth == Spec => []DepthBound
<1>1. SortInv => DepthBound
  <2> SUFFICES ASSUME SortInv
               PROVE  Len(frames) <= n + 1
    BY DEF DepthBound
  <2>1. CASE pc # "quicksort"
    <3>1. frames = <<>> /\ n \in Nat
      BY <2>1 DEF SortInv, TypeOK
    <3> QED
      BY <3>1
  <2>2. CASE pc = "quicksort"
    <3> DEFINE f == Top
               h == Len(frames)
    <3>1. /\ n \in Nat /\ f \in Calls(n) /\ h \in Nat \ {0}
          /\ CallInv(n, data, f, h)
      BY <2>2, Running
    <3>2. /\ f.first \in 1 .. n + 1 /\ f.last \in 0 .. n /\ f.split \in Int
          /\ InRange(f) /\ Shrinks(n, data, f, h)
      BY <3>1, CallFields DEF CallInv
    <3> HIDE DEF f, h
    <3>3. ASSUME f.first <= f.last
          PROVE  h <= n + 1
      BY <3>1, <3>2, <3>3 DEF Shrinks, Extent
    <3>4. ASSUME ~ (f.first <= f.last)
          PROVE  h <= n + 1
      <4>1. f.at # "high" /\ f.first = f.last + 1 /\ Extent(f) = 0
        BY <3>2, <3>4 DEF InRange, Extent
      <4>2. h + Extent(f) <= n + 1
        <5>1. f.split > f.last /\ ~ (Rest(f) <= f.last)
          BY <3>2, <3>4, <4>1 DEF InRange, Rest
        <5> QED
          BY <3>2, <4>1, <5>1 DEF Shrinks
      <4> QED
        BY <3>1, <4>1, <4>2
    <3>5. h <= n + 1
      BY <3>3, <3>4
    <3> QED
      BY <3>5 DEF h
  <2> QED
    BY <2>1, <2>2
<1> QED
  BY <1>1, Invariant, PTL

\* The safety half of SortsArray.
ReturnsSorted == pc = "done" => IsSortOf(data, given)

(* Whichever sort returns, it leaves the ints that shuffle left, as often  *)
(* as they occurred and in ascending order, and has not touched the int    *)
(* behind the array.                                                       *)
THEOREM SortsCorrectly == Spec => []ReturnsSorted
<1>1. SortInv => ReturnsSorted
  <2> SUFFICES ASSUME SortInv, pc = "done"
               PROVE  IsSortOf(data, given)
    BY DEF ReturnsSorted
  <2>1. n \in Nat /\ Ascending(data, 1, n) /\ SameInts
    BY DEF SortInv, TypeOK
  <2>2. \A i \in 1 .. n - 1 : data[i] <= data[i + 1]
    <3> SUFFICES ASSUME NEW i \in 1 .. n - 1
                 PROVE  data[i] <= data[i + 1]
      OBVIOUS
    <3>1. i \in 1 .. n /\ i + 1 \in 1 .. n /\ i <= i + 1
      BY <2>1
    <3> QED
      BY <2>1, <3>1 DEF Ascending
  <2> QED
    BY <2>1, <2>2 DEF IsSortOf, SameInts
<1> QED
  BY <1>1, Invariant, PTL
=============================================================================
