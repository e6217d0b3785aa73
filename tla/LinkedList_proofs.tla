--------------------------- MODULE LinkedList_proofs ---------------------------
(***************************************************************************)
(* Proofs about LinkedList, for every set of items and of payloads.        *)
(***************************************************************************)
EXTENDS LinkedList, Arithmetic, FiniteSetTheorems, SequenceTheorems

-----------------------------------------------------------------------------
\* The inductive invariant

FieldsOK ==
  /\ next \in [Items -> Items \cup {NULL}]
  /\ prev \in [Items -> Items \cup {NULL}]
  /\ payload \in [Items -> Payloads \cup {NULL}]
  /\ live \subseteq Items
  /\ linked_list \in Items \cup {NULL}
  /\ run.pc \in {"idle", "delete", "length", "iterate"}

Empty == linked_list = NULL /\ live = {} /\ run.pc = "idle"

\* o numbers the live items with 0 .. n - 1.
Enumerates(n, o) ==
  /\ live = {o[k] : k \in 0 .. n - 1}
  /\ \A j, k \in 0 .. n - 1 : o[j] = o[k] => j = k

After(k, n) == IF k = n - 1 THEN 0 ELSE k + 1

\* In that order the items form a ring that begins at the head.
IsRing(n, o) ==
  /\ o[0] = linked_list
  /\ \A k \in 0 .. n - 1 :
       next[o[k]] = o[After(k, n)] /\ prev[o[After(k, n)]] = o[k]

\* delete_list has opened the ring and stands at what is left of it.
IsChain(n, o) ==
  /\ run.ptr = o[0]
  /\ \A k \in 0 .. n - 1 : next[o[k]] = IF k = n - 1 THEN NULL ELSE o[k + 1]
  /\ \A k \in 1 .. n - 1 : prev[o[k]] = o[k - 1]

\* The loops of length and iterate_over_list have dealt with the first
\* items, in this order, and stand at the one behind them.
IsWalking(n, o) ==
  /\ run.pc = "length" =>
       run.sofar \in 1 .. n /\ run.ptr = o[After(run.sofar - 1, n)]
  /\ run.pc = "iterate" =>
       \E m \in 1 .. n : /\ run.sofar = [k \in 1 .. m |-> payload[o[k - 1]]]
                         /\ run.ptr = o[After(m - 1, n)]

IsOrder(n, o) ==
  /\ Enumerates(n, o)
  /\ run.pc # "delete" => IsRing(n, o) /\ IsWalking(n, o)
  /\ run.pc = "delete" => IsChain(n, o)

\* The pointers are an enumeration of the live items, or the list is empty.
ListInv ==
  /\ FieldsOK
  /\ Empty \/ \E n \in Nat \ {0} : \E o \in [0 .. n - 1 -> Items] : IsOrder(n, o)

\* What walk, by which Ring and the refinement are stated, has to do with it.
Walked ==
  \A n \in Nat \ {0} : \A o \in [0 .. n - 1 -> Items] :
    Enumerates(n, o) =>
      /\ Cardinality(live) = n
      /\ IsRing(n, o) => \A k \in 0 .. n - 1 : walk[k] = o[k]

-----------------------------------------------------------------------------
\* Orders and walks

(* The positions of an order: the first and the last one, and the one that *)
(* follows each, round the ring.                                           *)
LEMMA Positions ==
  ASSUME NEW n \in Nat \ {0}
  PROVE  /\ 0 \in 0 .. n - 1 /\ n - 1 \in 0 .. n - 1
         /\ \A k \in 0 .. n - 1 : After(k, n) \in 0 .. n - 1
         /\ After(n - 1, n) = 0
BY DEF After

(* A walk from the head takes the items in their order, and round again.   *)
LEMMA WalkRing ==
  ASSUME NEW n \in Nat \ {0}, NEW o \in [0 .. n - 1 -> Items], IsRing(n, o)
  PROVE  \A k \in 0 .. n - 1 : walk[k] = o[k]
<1> DEFINE eq(w) == w = [k \in Nat |-> IF k = 0 THEN linked_list ELSE next[w[k - 1]]]
           g == [k \in Nat |-> o[k % n]]
<1>1. \A k \in Nat : k % n \in 0 .. n - 1
  <2> TAKE k \in Nat
  <2>1. k \in Int
    OBVIOUS
  <2> QED
    BY <2>1, DivMod
<1>2. ASSUME NEW k \in Nat, k # 0
      PROVE  k % n = After((k - 1) % n, n)
  <2>1. /\ (k - 1) % n \in 0 .. n - 1
        /\ (k - 1) \div n \in Int
        /\ k - 1 = n * ((k - 1) \div n) + ((k - 1) % n)
    <3>1. k - 1 \in Int
      OBVIOUS
    <3> QED
      BY <3>1, DivMod
  <2> DEFINE q == (k - 1) \div n
             r == (k - 1) % n
  <2> HIDE DEF q, r
  <2>2. q \in Int /\ r \in 0 .. n - 1 /\ k = n * q + r + 1
    BY <2>1 DEF q, r
  <2>3. CASE r = n - 1
    <3>1. k = (q + 1) * n + 0 /\ q + 1 \in Int /\ 0 \in 0 .. n - 1
      BY <2>2, <2>3
    <3>2. k % n = 0
      BY <3>1, DivModUnique
    <3> QED
      BY <2>3, <3>2 DEF After, r
  <2>4. CASE r # n - 1
    <3>1. k = q * n + (r + 1) /\ r + 1 \in 0 .. n - 1
      BY <2>2, <2>4
    <3>2. k % n = r + 1
      BY <2>2, <3>1, DivModUnique
    <3> QED
      BY <2>4, <3>2 DEF After, r
  <2> QED
    BY <2>3, <2>4
<1>3. ASSUME NEW k \in Nat
      PROVE  g[k] = IF k = 0 THEN linked_list ELSE next[g[k - 1]]
  <2>1. CASE k = 0
    <3>1. 0 % n = 0
      OBVIOUS
    <3> QED
      BY <2>1, <3>1 DEF IsRing
  <2>2. CASE k # 0
    <3>0. k - 1 \in Nat
      BY <2>2
    <3>1. k - 1 \in Nat /\ (k - 1) % n \in 0 .. n - 1
      BY <1>1, <3>0
    <3>2. next[o[(k - 1) % n]] = o[k % n]
      BY <1>2, <2>2, <3>1 DEF IsRing
    <3> QED
      BY <2>2, <3>1, <3>2
  <2> QED
    BY <2>1, <2>2
<1>4. eq(g)
  <2>1. g = [k \in Nat |-> IF k = 0 THEN linked_list ELSE next[g[k - 1]]]
    <3> HIDE DEF g
    <3>1. g = [k \in Nat |-> g[k]]
      BY DEF g
    <3> QED
      BY <1>3, <3>1
  <2> QED
    BY <2>1
<1>5. eq(walk)
  BY <1>4 DEF walk
<1>6. \A k \in Nat : walk[k] = g[k]
  <2> HIDE DEF g
  <2>1. ASSUME NEW k \in Nat
        PROVE  walk[k] = IF k = 0 THEN linked_list ELSE next[walk[k - 1]]
    BY <1>5
  <2> DEFINE Wrong == {k \in Nat : walk[k] # g[k]}
  <2>2. ASSUME Wrong # {}
        PROVE  FALSE
    <3>1. PICK x \in Wrong : \A y \in Wrong : x <= y
      <4>1. Wrong \in SUBSET Nat
        OBVIOUS
      <4> HIDE DEF Wrong
      <4> QED
        BY <2>2, <4>1, LeastNatural
    <3>2. CASE x = 0
      BY <1>3, <2>1, <3>2
    <3>3. CASE x # 0
      <4>1. x - 1 \in Nat /\ x - 1 \notin Wrong
        BY <3>1, <3>3
      <4>2. walk[x - 1] = g[x - 1]
        BY <4>1
      <4> QED
        BY <1>3, <2>1, <3>3, <4>2
    <3> QED
      BY <3>2, <3>3
  <2> QED
    BY <2>2
<1>7. ASSUME NEW k \in 0 .. n - 1
      PROVE  walk[k] = o[k]
  <2>1. k \in Nat /\ k % n = k
    OBVIOUS
  <2> QED
    BY <1>6, <2>1
<1> QED
  BY <1>7

(* An order counts the live items.                                         *)
LEMMA Counted ==
  ASSUME NEW n \in Nat \ {0}, NEW o \in [0 .. n - 1 -> Items], Enumerates(n, o)
  PROVE  Cardinality(live) = n
<1>1. IsFiniteSet(0 .. n - 1) /\ Cardinality(0 .. n - 1) = n
  BY FS_Interval
<1>2. o \in Bijection(0 .. n - 1, live)
  BY DEF Bijection, Injection, Surjection, IsInjective, Enumerates
<1> QED
  BY <1>1, <1>2, FS_Bijection DEF ExistsBijection

(* In every state, the walk from the head along next visits the items of a *)
(* ring in their order.                                                    *)
LEMMA WalkedAlways == Walked
BY WalkRing, Counted DEF Walked

-----------------------------------------------------------------------------
\* The sequence that the list stands for

Contents == IF run.pc = "delete" THEN <<>>
            ELSE [n \in 1 .. Cardinality(live) |-> payload[walk[n - 1]]]
Answer == IF run.pc = "delete" THEN <<"deleted">> ELSE run.answer

\* The payloads of an order, first to last.
PayloadsOf(n, o) == [k \in 1 .. n |-> payload[o[k - 1]]]

ContentsKnown ==
  /\ live = {} => Contents = <<>>
  /\ \A n \in Nat \ {0} : \A o \in [0 .. n - 1 -> Items] :
       run.pc # "delete" /\ Enumerates(n, o) /\ IsRing(n, o)
         => Contents = PayloadsOf(n, o)

(* In every state, what the list stands for is the payloads along its      *)
(* ring.                                                                   *)
LEMMA ContentsAlways == ContentsKnown
<1>1. ASSUME live = {}
      PROVE  Contents = <<>>
  <2>1. Cardinality(live) = 0
    BY <1>1, FS_EmptySet
  <2>2. [n \in 1 .. 0 |-> payload[walk[n - 1]]] = <<>>
    OBVIOUS
  <2> QED
    BY <2>1, <2>2 DEF Contents
<1>2. ASSUME NEW n \in Nat \ {0}, NEW o \in [0 .. n - 1 -> Items],
             run.pc # "delete", Enumerates(n, o), IsRing(n, o)
      PROVE  Contents = PayloadsOf(n, o)
  <2>1. Cardinality(live) = n /\ \A k \in 0 .. n - 1 : walk[k] = o[k]
    BY <1>2, Counted, WalkRing
  <2>2. \A k \in 1 .. n : k - 1 \in 0 .. n - 1
    OBVIOUS
  <2>3. \A k \in 1 .. n : walk[k - 1] = o[k - 1]
    BY <2>1, <2>2
  <2> QED
    BY <1>2, <2>1, <2>3 DEF Contents, PayloadsOf
<1> QED
  BY <1>1, <1>2 DEF ContentsKnown

(* What Append makes of a sequence, as a function.                         *)
LEMMA AppendIs ==
  ASSUME NEW S, NEW s \in Seq(S), NEW x \in S
  PROVE  Append(s, x)
           = [k \in 1 .. Len(s) + 1 |-> IF k = Len(s) + 1 THEN x ELSE s[k]]
<1> DEFINE t == [k \in 1 .. Len(s) + 1 |-> IF k = Len(s) + 1 THEN x ELSE s[k]]
<1>1. /\ Append(s, x) \in Seq(S) /\ Len(Append(s, x)) = Len(s) + 1
      /\ \A k \in 1 .. Len(s) + 1 :
           Append(s, x)[k] = IF k = Len(s) + 1 THEN x ELSE s[k]
  OBVIOUS
<1>2. t \in Seq(S) /\ Len(t) = Len(s) + 1
  OBVIOUS
<1>3. \A k \in 1 .. Len(s) + 1 : t[k] = IF k = Len(s) + 1 THEN x ELSE s[k]
  OBVIOUS
<1> HIDE DEF t
<1>4. Append(s, x) = t
  BY <1>1, <1>2, <1>3, SeqEqual
<1> QED
  BY <1>4 DEF t

\* The steps of the sequence.
SequenceStep ==
  \/ \E value \in Payloads :
       Contents' = Append(Contents, value) /\ Answer' = <<"added">>
  \/ Answer' = <<"no memory">> /\ UNCHANGED Contents
  \/ Contents' = <<>> /\ Answer' = <<"deleted">>
  \/ Answer' = <<"length", Len(Contents)>> /\ UNCHANGED Contents
  \/ Answer' = <<"visited", Contents>> /\ UNCHANGED Contents
  \/ UNCHANGED <<Contents, Answer>>

(* Calls that only look leave the sequence alone.                          *)
LEMMA OnlyLooks ==
  ASSUME UNCHANGED <<linked_list, fields, live>>,
         run.pc # "delete", run'.pc # "delete"
  PROVE  Contents' = Contents
<1>1. walk' = walk
  BY DEF walk, fields
<1> QED
  BY <1>1 DEF Contents, fields

(* And the order that there is.                                            *)
LEMMA SameOrder ==
  ASSUME NEW n \in Nat \ {0}, NEW o \in [0 .. n - 1 -> Items],
         Enumerates(n, o), IsRing(n, o), run'.pc # "delete",
         UNCHANGED <<linked_list, fields, live>>
  PROVE  Enumerates(n, o)' /\ IsRing(n, o)'
BY DEF Enumerates, IsRing, fields

-----------------------------------------------------------------------------
\* Every action keeps the order

(* An item is in use or free, and no other list shares it: the new one     *)
(* comes last.                                                             *)
LEMMA AddToList ==
  ASSUME ListInv, ContentsKnown, ContentsKnown',
         NEW new \in Items, NEW value \in Payloads, add_to_list(new, value)
  PROVE  ListInv' /\ SequenceStep
<1>1. /\ run.pc = "idle" /\ new \notin live /\ run'.pc = "idle"
      /\ payload' = [payload EXCEPT ![new] = value]
      /\ live' = live \cup {new} /\ run'.answer = <<"added">>
  BY DEF add_to_list, Idle, Finish
<1>2. CASE add_first(new)
  <2> DEFINE o == [k \in 0 .. 0 |-> new]
  <2>1. Empty
    BY <1>1, <1>2, Positions, ListAssumption
    DEF ListInv, add_first, IsOrder, IsRing, Enumerates
  <2>2. /\ linked_list' = new /\ live' = {new}
        /\ next' = [next EXCEPT ![new] = new] /\ prev' = [prev EXCEPT ![new] = new]
    BY <1>1, <1>2, <2>1 DEF add_first, Empty
  <2>3. FieldsOK'
    BY <1>1, <2>2 DEF ListInv, FieldsOK
  <2>4. 1 \in Nat \ {0} /\ o \in [0 .. 1 - 1 -> Items] /\ o[0] = new
    OBVIOUS
  <2> HIDE DEF o
  <2>5. Enumerates(1, o)'
    BY <2>2, <2>4 DEF Enumerates
  <2>6. next'[new] = new /\ prev'[new] = new
    BY <2>2 DEF ListInv, FieldsOK
  <2>7. IsRing(1, o)'
    BY <2>2, <2>4, <2>6 DEF IsRing, After
  <2>8. IsOrder(1, o)'
    BY <1>1, <2>5, <2>7 DEF IsOrder, IsWalking
  <2>9. Contents = <<>>
    BY <2>1 DEF Empty, ContentsKnown
  <2>10. Contents' = PayloadsOf(1, o)'
    BY <1>1, <2>4, <2>5, <2>7 DEF ContentsKnown
  <2>11. payload'[new] = value
    BY <1>1 DEF ListInv, FieldsOK
  <2>12. PayloadsOf(1, o)' = Append(<<>>, value)
    <3>1. Append(<<>>, value) = [k \in 1 .. 1 |-> value]
      OBVIOUS
    <3>2. \A k \in 1 .. 1 : payload'[o[k - 1]] = value
      BY <2>4, <2>11
    <3> QED
      BY <3>1, <3>2 DEF PayloadsOf
  <2>13. ListInv'
    BY <2>3, <2>4, <2>8 DEF ListInv
  <2> QED
    BY <1>1, <2>9, <2>10, <2>12, <2>13 DEF SequenceStep, Answer
<1>3. CASE add_last(new)
  <2>1. PICK n \in Nat \ {0} : \E o \in [0 .. n - 1 -> Items] : IsOrder(n, o)
    BY <1>3 DEF ListInv, Empty, add_last
  <2>2. PICK o \in [0 .. n - 1 -> Items] : IsOrder(n, o)
    BY <2>1
  <2>3. Enumerates(n, o) /\ IsRing(n, o)
    BY <1>1, <2>2 DEF IsOrder
  <2> DEFINE e == [k \in 0 .. n |-> IF k < n THEN o[k] ELSE new]
  <2>4. /\ linked_list = o[0] /\ prev[linked_list] = o[n - 1]
        /\ \A k \in 0 .. n - 1 : o[k] \in live /\ o[k] \in Items /\ o[k] # new
    BY <1>1, <2>3, Positions DEF IsRing, Enumerates
  <2>5. /\ linked_list' = o[0]
        /\ next' = [next EXCEPT ![new] = o[0], ![o[n - 1]] = new]
        /\ prev' = [prev EXCEPT ![new] = o[n - 1], ![o[0]] = new]
    BY <1>3, <2>4 DEF add_last, PrevWith
  <2>6. o[0] \in Items \ {new} /\ o[n - 1] \in Items \ {new}
    BY <2>4, Positions
  <2>7. /\ next'[new] = o[0] /\ next'[o[n - 1]] = new
        /\ \A i \in Items \ {new, o[n - 1]} : next'[i] = next[i]
        /\ prev'[new] = o[n - 1] /\ prev'[o[0]] = new
        /\ \A i \in Items \ {new, o[0]} : prev'[i] = prev[i]
    BY <2>5, <2>6 DEF ListInv, FieldsOK
  <2>8. FieldsOK'
    BY <1>1, <2>5, <2>6 DEF ListInv, FieldsOK
  <2>9. /\ n + 1 \in Nat \ {0} /\ e \in [0 .. (n + 1) - 1 -> Items]
        /\ e[n] = new /\ \A k \in 0 .. n - 1 : e[k] = o[k]
    BY <2>4
  <2> HIDE DEF e
  <2>10. \A k \in 0 .. (n + 1) - 1 : k \in 0 .. n - 1 \/ k = n
    OBVIOUS
  <2>11. \A j, k \in 0 .. n - 1 : o[j] = o[k] => j = k
    BY <2>3 DEF Enumerates
  <2>12. Enumerates(n + 1, e)'
    <3>1. live' = {e[k] : k \in 0 .. (n + 1) - 1}
      <4>1. \A i \in live : \E k \in 0 .. (n + 1) - 1 : i = e[k]
        <5>1. \A k \in 0 .. n - 1 : k \in 0 .. (n + 1) - 1
          OBVIOUS
        <5> QED
          BY <2>3, <2>9, <5>1 DEF Enumerates
      <4>2. \E k \in 0 .. (n + 1) - 1 : new = e[k]
        BY <2>9
      <4>3. \A k \in 0 .. (n + 1) - 1 : e[k] \in live \cup {new}
        BY <2>4, <2>9, <2>10
      <4> QED
        BY <1>1, <4>1, <4>2, <4>3
    <3>2. \A j, k \in 0 .. (n + 1) - 1 : e[j] = e[k] => j = k
      BY <2>4, <2>9, <2>10, <2>11
    <3> QED
      BY <3>1, <3>2 DEF Enumerates
  <2>13. IsRing(n + 1, e)'
    <3>1. e[0] = linked_list'
      BY <2>5, <2>9, Positions
    <3>2. ASSUME NEW k \in 0 .. (n + 1) - 1
          PROVE  /\ next'[e[k]] = e[After(k, n + 1)]
                 /\ prev'[e[After(k, n + 1)]] = e[k]
      <4>1. CASE k = n
        BY <2>7, <2>9, <4>1, Positions DEF After
      <4>2. CASE k = n - 1
        <5>1. After(k, n + 1) = n /\ k \in 0 .. n - 1
          BY <4>2 DEF After
        <5> QED
          BY <2>7, <2>9, <4>2, <5>1
      <4>3. CASE k # n /\ k # n - 1
        <5>1. /\ k \in 0 .. n - 1 /\ k + 1 \in 0 .. n - 1 /\ k + 1 # 0
              /\ After(k, n + 1) = k + 1 /\ After(k, n) = k + 1
              /\ 0 \in 0 .. n - 1 /\ n - 1 \in 0 .. n - 1
          BY <2>10, <4>3 DEF After
        <5>2. next[o[k]] = o[k + 1] /\ prev[o[k + 1]] = o[k]
          BY <2>3, <5>1 DEF IsRing
        <5>3. o[k] \in Items \ {new, o[n - 1]} /\ o[k + 1] \in Items \ {new, o[0]}
          BY <2>4, <2>11, <4>3, <5>1
        <5> QED
          BY <2>7, <2>9, <5>1, <5>2, <5>3
      <4> QED
        BY <4>1, <4>2, <4>3
    <3> QED
      BY <3>1, <3>2 DEF IsRing
  <2>14. IsOrder(n + 1, e)'
    BY <1>1, <2>12, <2>13 DEF IsOrder, IsWalking
  <2>15. ListInv'
    BY <2>8, <2>9, <2>14 DEF ListInv
  <2>16. Contents = PayloadsOf(n, o)
    BY <1>1, <2>3 DEF ContentsKnown
  <2>17. Contents' = PayloadsOf(n + 1, e)'
    BY <1>1, <2>9, <2>12, <2>13 DEF ContentsKnown
  <2>18. PayloadsOf(n + 1, e)' = Append(PayloadsOf(n, o), value)
    <3>1. \A i \in live : payload'[i] = payload[i]
      BY <1>1 DEF ListInv, FieldsOK
    <3>2. payload'[new] = value
      BY <1>1 DEF ListInv, FieldsOK
    <3>3. ASSUME NEW k \in 1 .. n + 1
          PROVE  payload'[e[k - 1]] = IF k = n + 1 THEN value ELSE payload[o[k - 1]]
      <4>1. k # n + 1 => k - 1 \in 0 .. n - 1
        OBVIOUS
      <4>2. k = n + 1 => k - 1 = n
        OBVIOUS
      <4> QED
        BY <2>4, <2>9, <3>1, <3>2, <4>1, <4>2
    <3>4. PayloadsOf(n, o) \in Seq(Payloads \cup {NULL}) /\ Len(PayloadsOf(n, o)) = n
      <4>1. \A k \in 1 .. n : k - 1 \in 0 .. n - 1
        OBVIOUS
      <4>2. \A k \in 1 .. n : payload[o[k - 1]] \in Payloads \cup {NULL}
        BY <2>4, <4>1 DEF ListInv, FieldsOK
      <4> QED
        BY <4>2 DEF PayloadsOf
    <3>5. Append(PayloadsOf(n, o), value)
            = [k \in 1 .. n + 1 |-> IF k = n + 1 THEN value ELSE PayloadsOf(n, o)[k]]
      <4>1. value \in Payloads \cup {NULL}
        OBVIOUS
      <4> QED
        BY <3>4, <4>1, AppendIs
    <3>6. \A k \in 1 .. n : PayloadsOf(n, o)[k] = payload[o[k - 1]]
      BY DEF PayloadsOf
    <3>7. \A k \in 1 .. n + 1 : k # n + 1 => k \in 1 .. n
      OBVIOUS
    <3>8. Append(PayloadsOf(n, o), value)
            = [k \in 1 .. n + 1 |-> IF k = n + 1 THEN value ELSE payload[o[k - 1]]]
      BY <3>5, <3>6, <3>7
    <3>9. PayloadsOf(n + 1, e)' = [k \in 1 .. n + 1 |-> payload'[e[k - 1]]]
      BY DEF PayloadsOf
    <3> QED
      BY <3>3, <3>8, <3>9
  <2> QED
    BY <1>1, <2>15, <2>16, <2>17, <2>18 DEF SequenceStep, Answer
<1> QED
  BY <1>2, <1>3 DEF add_to_list

(* Without memory, and for an empty list, delete_list, length and          *)
(* iterate_over_list return at once.                                       *)
LEMMA AtOnce ==
  ASSUME ListInv, ContentsKnown, Idle,
         UNCHANGED <<linked_list, fields, live>>, NEW answer, Finish(answer),
         \/ answer = <<"no memory">>
         \/ linked_list = NULL /\ answer \in {<<"deleted">>, <<"length", 0>>, <<"visited", <<>>>>}
  PROVE  ListInv' /\ SequenceStep
<1>1. /\ run.pc = "idle" /\ run'.pc = "idle" /\ Answer' = answer
      /\ Contents' = Contents
  BY OnlyLooks DEF Idle, Finish, Answer
<1>2. FieldsOK'
  BY <1>1 DEF ListInv, FieldsOK, fields
<1>3. CASE Empty
  <2>1. ListInv'
    BY <1>1, <1>2, <1>3 DEF ListInv, Empty
  <2>2. Contents = <<>> /\ Len(<<>>) = 0
    BY <1>3 DEF Empty, ContentsKnown
  <2> QED
    BY <1>1, <2>1, <2>2 DEF SequenceStep
<1>4. CASE ~ Empty
  <2>1. PICK n \in Nat \ {0} : \E o \in [0 .. n - 1 -> Items] : IsOrder(n, o)
    BY <1>4 DEF ListInv
  <2>2. PICK o \in [0 .. n - 1 -> Items] : IsOrder(n, o)
    BY <2>1
  <2>3. Enumerates(n, o) /\ IsRing(n, o)
    BY <1>1, <2>2 DEF IsOrder
  <2>4. IsOrder(n, o)'
    BY <1>1, <2>3, SameOrder DEF IsOrder, IsWalking
  <2>5. ListInv'
    BY <1>2, <2>4 DEF ListInv
  <2>6. linked_list # NULL
    BY <2>3, Positions, ListAssumption DEF IsRing
  <2> QED
    BY <1>1, <2>5, <2>6 DEF SequenceStep
<1> QED
  BY <1>3, <1>4

(* The only item is its own successor.                                     *)
LEMMA DeleteSingle ==
  ASSUME ListInv, ContentsKnown', delete_single
  PROVE  ListInv' /\ SequenceStep
<1>1. /\ run.pc = "idle" /\ run'.pc = "idle" /\ run'.answer = <<"deleted">>
      /\ linked_list # NULL /\ next[linked_list] = linked_list
      /\ live' = live \ {linked_list} /\ linked_list' = NULL /\ UNCHANGED fields
  BY DEF delete_single, Idle, Finish
<1>2. PICK n \in Nat \ {0} : \E o \in [0 .. n - 1 -> Items] : IsOrder(n, o)
  BY <1>1 DEF ListInv, Empty
<1>3. PICK o \in [0 .. n - 1 -> Items] : IsOrder(n, o)
  BY <1>2
<1>4. Enumerates(n, o) /\ IsRing(n, o)
  BY <1>1, <1>3 DEF IsOrder
<1>5. o[0] = linked_list /\ o[After(0, n)] = o[0]
  BY <1>1, <1>4, Positions DEF IsRing
<1>6. n = 1
  BY <1>4, <1>5, Positions DEF Enumerates, After
<1>7. live = {linked_list}
  BY <1>4, <1>5, <1>6 DEF Enumerates
<1>8. Empty' /\ FieldsOK'
  BY <1>1, <1>7 DEF Empty, ListInv, FieldsOK, fields
<1>9. Contents' = <<>> /\ Answer' = <<"deleted">>
  BY <1>1, <1>8 DEF ContentsKnown, Empty, Answer
<1> QED
  BY <1>8, <1>9 DEF ListInv, SequenceStep

(* delete_list opens the ring in front of the head: what is left is a      *)
(* chain.                                                                  *)
LEMMA DeleteBegin ==
  ASSUME ListInv, delete_begin
  PROVE  ListInv' /\ SequenceStep
<1>1. /\ run.pc = "idle" /\ run'.pc = "delete" /\ run'.ptr = linked_list
      /\ linked_list # NULL /\ next[linked_list] # linked_list
      /\ next' = [next EXCEPT ![prev[linked_list]] = NULL]
      /\ prev' = [prev EXCEPT ![linked_list] = NULL]
      /\ UNCHANGED <<linked_list, payload, live>>
  BY DEF delete_begin, Idle, Step
<1>2. PICK n \in Nat \ {0} : \E o \in [0 .. n - 1 -> Items] : IsOrder(n, o)
  BY <1>1 DEF ListInv, Empty
<1>3. PICK o \in [0 .. n - 1 -> Items] : IsOrder(n, o)
  BY <1>2
<1>4. Enumerates(n, o) /\ IsRing(n, o)
  BY <1>1, <1>3 DEF IsOrder
<1>5. /\ linked_list = o[0] /\ prev[linked_list] = o[n - 1]
      /\ \A j, k \in 0 .. n - 1 : o[j] = o[k] => j = k
  BY <1>4, Positions DEF IsRing, Enumerates
<1>6. /\ next'[o[n - 1]] = NULL /\ prev'[o[0]] = NULL
      /\ \A i \in Items \ {o[n - 1]} : next'[i] = next[i]
      /\ \A i \in Items \ {o[0]} : prev'[i] = prev[i]
  BY <1>1, <1>5, Positions DEF ListInv, FieldsOK
<1>7. FieldsOK'
  BY <1>1, <1>5, Positions DEF ListInv, FieldsOK
<1>8. ASSUME NEW k \in 0 .. n - 1
      PROVE  next'[o[k]] = IF k = n - 1 THEN NULL ELSE o[k + 1]
  <2>1. CASE k = n - 1
    BY <1>6, <2>1
  <2>2. CASE k # n - 1
    <3>1. next[o[k]] = o[k + 1]
      BY <1>4, <2>2 DEF IsRing, After
    <3>2. o[k] \in Items \ {o[n - 1]}
      BY <1>5, <2>2, Positions
    <3> QED
      BY <1>6, <2>2, <3>1, <3>2
  <2> QED
    BY <2>1, <2>2
<1>9. ASSUME NEW k \in 1 .. n - 1
      PROVE  prev'[o[k]] = o[k - 1]
  <2>1. k - 1 \in 0 .. n - 1 /\ After(k - 1, n) = k /\ k \in 0 .. n - 1 /\ k # 0
    BY DEF After
  <2>2. prev[o[k]] = o[k - 1]
    BY <1>4, <2>1 DEF IsRing
  <2>3. o[k] \in Items \ {o[0]}
    BY <1>5, <2>1, Positions
  <2> QED
    BY <1>6, <2>2, <2>3
<1>10. IsChain(n, o)' /\ Enumerates(n, o)'
  BY <1>1, <1>4, <1>5, <1>8, <1>9 DEF IsChain, Enumerates
<1>11. ListInv'
  BY <1>1, <1>7, <1>10 DEF ListInv, IsOrder
<1>12. Contents' = <<>> /\ Answer' = <<"deleted">>
  BY <1>1 DEF Contents, Answer
<1> QED
  BY <1>11, <1>12 DEF SequenceStep

(* The item behind ptr is the one ptr has come from, and is freed.         *)
LEMMA DeleteNext ==
  ASSUME ListInv, delete_next
  PROVE  ListInv' /\ SequenceStep
<1>1. /\ run.pc = "delete" /\ next[run.ptr] # NULL
      /\ run'.pc = "delete" /\ run'.ptr = next[run.ptr]
      /\ live' = live \ {prev[next[run.ptr]]}
      /\ prev' = [prev EXCEPT ![next[run.ptr]] = NULL]
      /\ UNCHANGED <<linked_list, next, payload>>
  BY DEF delete_next, Step, Advance, FreedBehind
<1>2. PICK n \in Nat \ {0} : \E o \in [0 .. n - 1 -> Items] : IsOrder(n, o)
  BY <1>1 DEF ListInv, Empty
<1>3. PICK o \in [0 .. n - 1 -> Items] : IsOrder(n, o)
  BY <1>2
<1>4. Enumerates(n, o) /\ IsChain(n, o)
  BY <1>1, <1>3 DEF IsOrder
<1>5. run.ptr = o[0] /\ n # 1
  BY <1>1, <1>4, Positions DEF IsChain
<1>6. /\ n - 1 \in Nat \ {0} /\ 0 \in 0 .. n - 1 /\ 1 \in 0 .. n - 1 /\ 1 \in 1 .. n - 1
      /\ 0 # n - 1
  BY <1>5
<1>7. next[o[0]] = o[1] /\ prev[o[1]] = o[0]
  BY <1>4, <1>6 DEF IsChain
<1>8. /\ live' = live \ {o[0]} /\ prev' = [prev EXCEPT ![o[1]] = NULL]
      /\ run'.ptr = o[1]
  BY <1>1, <1>5, <1>7
<1> DEFINE r == [k \in 0 .. (n - 1) - 1 |-> o[k + 1]]
<1>9. \A k \in 0 .. (n - 1) - 1 : k + 1 \in 0 .. n - 1 /\ k + 1 \in 1 .. n - 1
  OBVIOUS
<1>10. /\ r \in [0 .. (n - 1) - 1 -> Items]
       /\ \A k \in 0 .. (n - 1) - 1 : r[k] = o[k + 1]
  BY <1>9
<1> HIDE DEF r
<1>11. FieldsOK'
  BY <1>1, <1>6, <1>8 DEF ListInv, FieldsOK
<1>12. /\ live = {o[k] : k \in 0 .. n - 1}
       /\ \A j, k \in 0 .. n - 1 : o[j] = o[k] => j = k
  BY <1>4 DEF Enumerates
<1>13. Enumerates(n - 1, r)'
  <2>1. ASSUME NEW j \in 0 .. (n - 1) - 1, NEW k \in 0 .. (n - 1) - 1, r[j] = r[k]
        PROVE  j = k
    <3>1. j + 1 = k + 1
      BY <1>9, <1>10, <1>12, <2>1
    <3> QED
      BY <3>1
  <2>2. ASSUME NEW k \in 0 .. (n - 1) - 1
        PROVE  r[k] \in live \ {o[0]}
    <3>1. k + 1 \in 0 .. n - 1 /\ k + 1 # 0
      BY <1>9
    <3> QED
      BY <1>6, <1>10, <1>12, <3>1
  <2>3. ASSUME NEW i \in live \ {o[0]}
        PROVE  \E k \in 0 .. (n - 1) - 1 : i = r[k]
    <3>1. PICK k \in 0 .. n - 1 : i = o[k]
      BY <1>12
    <3>2. k # 0 /\ k - 1 \in 0 .. (n - 1) - 1 /\ (k - 1) + 1 = k
      BY <2>3, <3>1
    <3> QED
      BY <1>10, <3>1, <3>2
  <2>4. live' = {r[k] : k \in 0 .. (n - 1) - 1}
    BY <1>8, <2>2, <2>3
  <2> QED
    BY <2>1, <2>4 DEF Enumerates
<1>14. IsChain(n - 1, r)'
  <2>1. r[0] = o[1]
    BY <1>6, <1>10
  <2>2. ASSUME NEW k \in 0 .. (n - 1) - 1
        PROVE  next'[r[k]] = IF k = (n - 1) - 1 THEN NULL ELSE r[k + 1]
    <3>1. next[o[k + 1]] = IF k + 1 = n - 1 THEN NULL ELSE o[(k + 1) + 1]
      BY <1>4, <1>9 DEF IsChain
    <3>2. k # (n - 1) - 1 => k + 1 \in 0 .. (n - 1) - 1
      OBVIOUS
    <3>3. k + 1 = n - 1 <=> k = (n - 1) - 1
      OBVIOUS
    <3> QED
      BY <1>1, <1>10, <3>1, <3>2, <3>3
  <2>3. ASSUME NEW k \in 1 .. (n - 1) - 1
        PROVE  prev'[r[k]] = r[k - 1]
    <3>1. /\ k \in 0 .. (n - 1) - 1 /\ k - 1 \in 0 .. (n - 1) - 1
          /\ k + 1 \in 1 .. n - 1 /\ k + 1 \in 0 .. n - 1 /\ k + 1 # 1
          /\ (k + 1) - 1 = k /\ (k - 1) + 1 = k
      OBVIOUS
    <3>2. prev[o[k + 1]] = o[k]
      BY <1>4, <3>1 DEF IsChain
    <3>3. o[k + 1] \in Items /\ o[k + 1] # o[1]
      BY <1>6, <1>12, <3>1
    <3>4. prev'[o[k + 1]] = o[k]
      BY <1>8, <3>2, <3>3 DEF ListInv, FieldsOK
    <3> QED
      BY <1>10, <3>1, <3>4
  <2> QED
    BY <1>8, <2>1, <2>2, <2>3 DEF IsChain
<1>15. ListInv'
  BY <1>1, <1>6, <1>10, <1>11, <1>13, <1>14 DEF ListInv, IsOrder
<1>16. UNCHANGED <<Contents, Answer>>
  BY <1>1 DEF Contents, Answer
<1> QED
  BY <1>15, <1>16 DEF SequenceStep

(* Freeing the last item of the chain leaves the empty list.               *)
LEMMA DeleteLast ==
  ASSUME ListInv, ContentsKnown', delete_last
  PROVE  ListInv' /\ SequenceStep
<1>1. /\ run.pc = "delete" /\ next[run.ptr] = NULL
      /\ run'.pc = "idle" /\ run'.answer = <<"deleted">>
      /\ live' = live \ {run.ptr} /\ linked_list' = NULL /\ UNCHANGED fields
  BY DEF delete_last, Finish
<1>2. PICK n \in Nat \ {0} : \E o \in [0 .. n - 1 -> Items] : IsOrder(n, o)
  BY <1>1 DEF ListInv, Empty
<1>3. PICK o \in [0 .. n - 1 -> Items] : IsOrder(n, o)
  BY <1>2
<1>4. Enumerates(n, o) /\ IsChain(n, o)
  BY <1>1, <1>3 DEF IsOrder
<1>5. run.ptr = o[0] /\ n = 1
  <2>1. CASE n # 1
    <3>1. 0 \in 0 .. n - 1 /\ 0 # n - 1 /\ 1 \in 0 .. n - 1
      BY <2>1
    <3>2. next[o[0]] = o[1] /\ o[1] \in Items
      BY <1>4, <3>1 DEF IsChain
    <3> QED
      BY <1>1, <1>4, <3>2, ListAssumption DEF IsChain
  <2> QED
    BY <1>4, <2>1 DEF IsChain
<1>6. live = {run.ptr}
  BY <1>4, <1>5 DEF Enumerates
<1>7. Empty' /\ FieldsOK'
  BY <1>1, <1>6 DEF Empty, ListInv, FieldsOK, fields
<1>8. Contents' = <<>> /\ Contents = <<>> /\ Answer' = Answer
  BY <1>1, <1>7 DEF Contents, ContentsKnown, Empty, Answer
<1> QED
  BY <1>7, <1>8 DEF ListInv, SequenceStep

(* A call that walks, or has walked, leaves the order as it is.            *)
LEMMA KeepsOrder ==
  ASSUME ListInv, run'.pc \in {"idle", "length", "iterate"},
         UNCHANGED <<linked_list, fields, live>>,
         NEW n \in Nat \ {0}, NEW o \in [0 .. n - 1 -> Items],
         Enumerates(n, o), IsRing(n, o), IsWalking(n, o)'
  PROVE  ListInv'
<1>1. FieldsOK'
  BY DEF ListInv, FieldsOK, fields
<1>2. IsOrder(n, o)'
  BY SameOrder DEF IsOrder
<1> QED
  BY <1>1, <1>2 DEF ListInv

(* The counter is the number of items passed, so it ends as their number.  *)
LEMMA Length ==
  ASSUME ListInv, ContentsKnown,
         \/ length_begin /\ linked_list # NULL
         \/ length_next
  PROVE  ListInv' /\ SequenceStep
<1>1. /\ run.pc \in {"idle", "length"} /\ run'.pc \in {"idle", "length"}
      /\ UNCHANGED <<linked_list, fields, live>>
      /\ run.pc = "idle" => linked_list # NULL
  BY DEF length_begin, length_next, Idle, Finish, Step
<1>2. Contents' = Contents
  BY <1>1, OnlyLooks
<1>3. PICK n \in Nat \ {0} : \E o \in [0 .. n - 1 -> Items] : IsOrder(n, o)
  BY <1>1 DEF ListInv, Empty
<1>4. PICK o \in [0 .. n - 1 -> Items] : IsOrder(n, o)
  BY <1>3
<1>5. /\ Enumerates(n, o) /\ IsRing(n, o) /\ IsWalking(n, o)
      /\ o[0] = linked_list
      /\ \A j, k \in 0 .. n - 1 : o[j] = o[k] => j = k
  BY <1>1, <1>4 DEF IsOrder, IsRing, Enumerates
<1>6. CASE length_begin /\ linked_list # NULL
  <2>1. run'.pc = "length" /\ run'.sofar = 1 /\ run'.ptr = next[o[0]]
        /\ run'.answer = run.answer /\ run.pc = "idle"
    BY <1>5, <1>6 DEF length_begin, Step, FirstCount, Idle
  <2>2. IsWalking(n, o)'
    <3>1. 1 \in 1 .. n /\ 1 - 1 = 0 /\ next[o[0]] = o[After(0, n)]
      BY <1>5, Positions DEF IsRing
    <3> QED
      BY <2>1, <3>1 DEF IsWalking
  <2> QED
    BY <1>1, <1>2, <1>5, <2>1, <2>2, KeepsOrder DEF SequenceStep, Answer
<1>7. CASE length_next
  <2>1. run.pc = "length" /\ run.sofar \in 1 .. n /\ run.ptr = o[After(run.sofar - 1, n)]
    BY <1>5, <1>7 DEF length_next, IsWalking
  <2>2. PICK m \in 1 .. n : m = run.sofar
    BY <2>1
  <2>3. m - 1 \in 0 .. n - 1 /\ run.ptr = o[After(m - 1, n)]
    BY <2>1, <2>2
  <2>4. CASE run.ptr = linked_list
    <3>1. After(m - 1, n) = 0
      BY <1>5, <2>3, <2>4, Positions
    <3>2. m = n
      BY <3>1 DEF After
    <3>3. run'.pc = "idle" /\ run'.answer = <<"length", n>>
      BY <1>7, <2>2, <2>4, <3>2 DEF length_next, Finish
    <3>4. Contents = PayloadsOf(n, o)
      BY <1>5, <2>1 DEF ContentsKnown
    <3>5. Len(PayloadsOf(n, o)) = n
      BY DEF PayloadsOf
    <3>6. IsWalking(n, o)'
      BY <3>3 DEF IsWalking
    <3> QED
      BY <1>1, <1>2, <1>5, <3>3, <3>4, <3>5, <3>6, KeepsOrder DEF SequenceStep, Answer
  <2>5. CASE run.ptr # linked_list
    <3>1. After(m - 1, n) = m /\ m \in 0 .. n - 1
      BY <1>5, <2>3, <2>5 DEF After
    <3>2. next[o[m]] = o[After(m, n)] /\ (m + 1) - 1 = m /\ m + 1 \in 1 .. n
      BY <1>5, <3>1 DEF IsRing
    <3>3. /\ run'.pc = "length" /\ run'.sofar = m + 1 /\ run'.ptr = next[run.ptr]
          /\ run'.answer = run.answer
      BY <1>7, <2>2, <2>5 DEF length_next, Step
    <3>4. IsWalking(n, o)'
      BY <2>3, <3>1, <3>2, <3>3 DEF IsWalking
    <3> QED
      BY <1>1, <1>2, <1>5, <2>1, <3>3, <3>4, KeepsOrder DEF SequenceStep, Answer
  <2> QED
    BY <2>4, <2>5
<1> QED
  BY <1>6, <1>7

(* The function has seen the payloads of the items passed, in their order. *)
LEMMA Iterate ==
  ASSUME ListInv, ContentsKnown,
         \/ iterate_begin /\ linked_list # NULL
         \/ iterate_next
  PROVE  ListInv' /\ SequenceStep
<1>1. /\ run.pc \in {"idle", "iterate"} /\ run'.pc \in {"idle", "iterate"}
      /\ UNCHANGED <<linked_list, fields, live>>
      /\ run.pc = "idle" => linked_list # NULL
  BY DEF iterate_begin, iterate_next, Idle, Finish, Step
<1>2. Contents' = Contents
  BY <1>1, OnlyLooks
<1>3. PICK n \in Nat \ {0} : \E o \in [0 .. n - 1 -> Items] : IsOrder(n, o)
  BY <1>1 DEF ListInv, Empty
<1>4. PICK o \in [0 .. n - 1 -> Items] : IsOrder(n, o)
  BY <1>3
<1>5. /\ Enumerates(n, o) /\ IsRing(n, o) /\ IsWalking(n, o)
      /\ o[0] = linked_list /\ payload' = payload
      /\ \A j, k \in 0 .. n - 1 : o[j] = o[k] => j = k
  BY <1>1, <1>4 DEF IsOrder, IsRing, Enumerates, fields
<1>6. CASE iterate_begin /\ linked_list # NULL
  <2>1. /\ run'.pc = "iterate" /\ run'.sofar = <<payload[o[0]]>>
        /\ run'.ptr = next[o[0]] /\ run'.answer = run.answer /\ run.pc = "idle"
    BY <1>5, <1>6 DEF iterate_begin, Step, Idle
  <2>2. IsWalking(n, o)'
    <3>1. 1 \in 1 .. n /\ 1 - 1 = 0 /\ next[o[0]] = o[After(0, n)]
      BY <1>5, Positions DEF IsRing
    <3>2. <<payload[o[0]]>> = [k \in 1 .. 1 |-> payload[o[k - 1]]]
      OBVIOUS
    <3> QED
      BY <1>5, <2>1, <3>1, <3>2 DEF IsWalking
  <2> QED
    BY <1>1, <1>2, <1>5, <2>1, <2>2, KeepsOrder DEF SequenceStep, Answer
<1>7. CASE iterate_next
  <2>1. run.pc = "iterate"
    BY <1>7 DEF iterate_next
  <2>2. PICK m \in 1 .. n : /\ run.sofar = [k \in 1 .. m |-> payload[o[k - 1]]]
                            /\ run.ptr = o[After(m - 1, n)]
    BY <1>5, <2>1 DEF IsWalking
  <2>3. m - 1 \in 0 .. n - 1
    OBVIOUS
  <2>4. CASE run.ptr = linked_list
    <3>1. After(m - 1, n) = 0
      BY <1>5, <2>2, <2>3, <2>4, Positions
    <3>2. m = n
      BY <3>1 DEF After
    <3>3. run'.pc = "idle" /\ run'.answer = <<"visited", PayloadsOf(n, o)>>
      BY <1>7, <2>2, <2>4, <3>2 DEF iterate_next, Finish, PayloadsOf
    <3>4. Contents = PayloadsOf(n, o)
      BY <1>5, <2>1 DEF ContentsKnown
    <3>5. IsWalking(n, o)'
      BY <3>3 DEF IsWalking
    <3> QED
      BY <1>1, <1>2, <1>5, <3>3, <3>4, <3>5, KeepsOrder DEF SequenceStep, Answer
  <2>5. CASE run.ptr # linked_list
    <3>1. After(m - 1, n) = m /\ m \in 0 .. n - 1 /\ run.ptr = o[m]
      BY <1>5, <2>2, <2>3, <2>5 DEF After
    <3>2. next[o[m]] = o[After(m, n)] /\ (m + 1) - 1 = m /\ m + 1 \in 1 .. n
      BY <1>5, <3>1 DEF IsRing
    <3>3. /\ run'.pc = "iterate" /\ run'.ptr = next[run.ptr]
          /\ run'.sofar = Append(run.sofar, payload[o[m]])
          /\ run'.answer = run.answer
      BY <1>7, <2>5, <3>1 DEF iterate_next, Step
    <3>4. run.sofar \in Seq(Payloads \cup {NULL}) /\ Len(run.sofar) = m
      <4>1. \A k \in 1 .. m : k - 1 \in 0 .. n - 1
        OBVIOUS
      <4>2. \A k \in 1 .. m : payload[o[k - 1]] \in Payloads \cup {NULL}
        BY <4>1 DEF ListInv, FieldsOK
      <4> QED
        BY <2>2, <4>2
    <3>5. payload[o[m]] \in Payloads \cup {NULL}
      BY <3>1 DEF ListInv, FieldsOK
    <3>6. run'.sofar = [k \in 1 .. m + 1 |-> IF k = m + 1 THEN payload[o[m]]
                                             ELSE run.sofar[k]]
      BY <3>3, <3>4, <3>5, AppendIs
    <3>7. ASSUME NEW k \in 1 .. m + 1
          PROVE  (IF k = m + 1 THEN payload[o[m]] ELSE run.sofar[k]) = payload[o[k - 1]]
      <4>1. k = m + 1 => k - 1 = m
        OBVIOUS
      <4>2. k # m + 1 => k \in 1 .. m
        OBVIOUS
      <4> QED
        BY <2>2, <4>1, <4>2
    <3>8. run'.sofar = [k \in 1 .. m + 1 |-> payload[o[k - 1]]]
      BY <3>6, <3>7
    <3>9. IsWalking(n, o)'
      BY <1>5, <3>1, <3>2, <3>3, <3>8 DEF IsWalking
    <3> QED
      BY <1>1, <1>2, <1>5, <2>1, <3>3, <3>9, KeepsOrder DEF SequenceStep, Answer
  <2> QED
    BY <2>4, <2>5
<1> QED
  BY <1>6, <1>7

-----------------------------------------------------------------------------
\* The theorems

(* The list is empty at first.                                             *)
LEMMA Initially ==
  ASSUME Init, ContentsKnown
  PROVE  ListInv /\ Contents = <<>> /\ Answer = <<"none">>
BY DEF Init, ListInv, FieldsOK, Empty, ContentsKnown, Answer

(* Every step keeps the ring or the chain, and is a step of the sequence.  *)
LEMMA NextStep ==
  ASSUME ListInv, ContentsKnown, ContentsKnown', [Next]_vars
  PROVE  ListInv' /\ SequenceStep
<1>1. CASE add_without_memory
  BY <1>1, AtOnce DEF add_without_memory
<1>2. CASE \E new \in Items, value \in Payloads : add_to_list(new, value)
  BY <1>2, AddToList
<1>3. CASE delete_empty
  BY <1>3, AtOnce DEF delete_empty
<1>4. CASE delete_single
  BY <1>4, DeleteSingle
<1>5. CASE delete_begin
  BY <1>5, DeleteBegin
<1>6. CASE length_begin
  BY <1>6, AtOnce, Length DEF length_begin
<1>7. CASE iterate_begin
  BY <1>7, AtOnce, Iterate DEF iterate_begin
<1>8. CASE delete_next
  BY <1>8, DeleteNext
<1>9. CASE delete_last
  BY <1>9, DeleteLast
<1>10. CASE length_next
  BY <1>10, Length
<1>11. CASE iterate_next
  BY <1>11, Iterate
<1>12. CASE UNCHANGED vars
  <2>1. FieldsOK' /\ (Empty => Empty')
    BY <1>12 DEF vars, ListInv, FieldsOK, Empty, fields
  <2>2. ASSUME NEW n \in Nat \ {0}, NEW o \in [0 .. n - 1 -> Items], IsOrder(n, o)
        PROVE  IsOrder(n, o)'
    BY <1>12, <2>2 DEF vars, fields, IsOrder, Enumerates, IsRing, IsChain, IsWalking
  <2>3. ListInv'
    BY <2>1, <2>2 DEF ListInv
  <2>4. walk' = walk
    BY <1>12 DEF vars, fields, walk
  <2>5. UNCHANGED <<Contents, Answer>>
    BY <1>12, <2>4 DEF vars, fields, Contents, Answer
  <2> QED
    BY <2>3, <2>5 DEF SequenceStep
<1> QED
  BY <1>1, <1>2, <1>3, <1>4, <1>5, <1>6, <1>7, <1>8, <1>9, <1>10, <1>11, <1>12
  DEF Next, Continue

(* In every reachable state the pointers are an enumeration of the live    *)
(* items: a ring, or in delete_list a chain, with nothing outside it.      *)
THEOREM Invariant == Spec => []ListInv
<1>1. Init /\ ContentsKnown => ListInv
  BY Initially
<1>2. ListInv /\ ContentsKnown /\ ContentsKnown' /\ [Next]_vars => ListInv'
  BY NextStep
<1>3. ContentsKnown
  BY ContentsAlways
<1> QED
  BY <1>1, <1>2, <1>3, PTL DEF Spec

(* add_to_list and delete_list keep one ring through exactly the items     *)
(* that malloc has returned, for any number of them.                       *)
THEOREM RingKept == Spec => []Ring
<1>1. ASSUME ListInv, run.pc # "delete", live # {}
      PROVE  /\ live = {walk[n] : n \in 0 .. Cardinality(live) - 1}
             /\ \A i \in live : next[i] \in live /\ prev[next[i]] = i
  <2>1. PICK n \in Nat \ {0} : \E o \in [0 .. n - 1 -> Items] : IsOrder(n, o)
    BY <1>1 DEF ListInv, Empty
  <2>2. PICK o \in [0 .. n - 1 -> Items] : IsOrder(n, o)
    BY <2>1
  <2>3. Enumerates(n, o) /\ IsRing(n, o)
    BY <1>1, <2>2 DEF IsOrder
  <2>4. Cardinality(live) = n /\ \A k \in 0 .. n - 1 : walk[k] = o[k]
    BY <2>3, Counted, WalkRing
  <2>5. live = {walk[k] : k \in 0 .. n - 1}
    BY <2>3, <2>4 DEF Enumerates
  <2>6. \A i \in live : next[i] \in live /\ prev[next[i]] = i
    BY <2>3, Positions DEF Enumerates, IsRing
  <2> QED
    BY <2>4, <2>5, <2>6
<1>2. ListInv => Ring
  BY <1>1 DEF Ring
<1> QED
  BY <1>2, Invariant, PTL

(* The loops of delete_list, length and iterate_over_list never follow a   *)
(* pointer of, or stand on, an item that has been freed.                   *)
THEOREM NothingDangles == Spec => []NoDangling
<1>1. ASSUME ListInv, run.pc # "idle"
      PROVE  /\ run.ptr \in live
             /\ run.pc = "delete" =>
                  \A i \in live : next[i] \in live \cup {NULL}
                                  /\ (i # run.ptr => prev[i] \in live)
  <2>1. PICK n \in Nat \ {0} : \E o \in [0 .. n - 1 -> Items] : IsOrder(n, o)
    BY <1>1 DEF ListInv, Empty
  <2>2. PICK o \in [0 .. n - 1 -> Items] : IsOrder(n, o)
    BY <2>1
  <2>3. live = {o[k] : k \in 0 .. n - 1}
    BY <2>2 DEF IsOrder, Enumerates
  <2>4. CASE run.pc # "delete"
    <3>1. PICK k \in 0 .. n - 1 : run.ptr = o[After(k, n)]
      <4>1. run.pc \in {"length", "iterate"} /\ IsWalking(n, o)
        BY <1>1, <2>2, <2>4 DEF ListInv, FieldsOK, IsOrder
      <4>2. \A m \in 1 .. n : m - 1 \in 0 .. n - 1
        OBVIOUS
      <4> QED
        BY <4>1, <4>2 DEF IsWalking
    <3> QED
      BY <2>3, <2>4, <3>1, Positions
  <2>5. CASE run.pc = "delete"
    <3>1. IsChain(n, o)
      BY <2>2, <2>5 DEF IsOrder
    <3>2. run.ptr = o[0] /\ run.ptr \in live
      BY <2>3, <3>1, Positions DEF IsChain
    <3>3. ASSUME NEW i \in live
          PROVE  next[i] \in live \cup {NULL} /\ (i # run.ptr => prev[i] \in live)
      <4>1. PICK k \in 0 .. n - 1 : i = o[k]
        BY <2>3
      <4>2. next[i] \in live \cup {NULL}
        <5>1. k # n - 1 => k + 1 \in 0 .. n - 1
          OBVIOUS
        <5> QED
          BY <2>3, <3>1, <4>1, <5>1 DEF IsChain
      <4>3. ASSUME i # run.ptr
            PROVE  prev[i] \in live
        <5>1. k \in 1 .. n - 1 /\ k - 1 \in 0 .. n - 1
          BY <3>2, <4>1, <4>3
        <5> QED
          BY <2>3, <3>1, <4>1, <5>1 DEF IsChain
      <4> QED
        BY <4>2, <4>3
    <3> QED
      BY <3>2, <3>3
  <2> QED
    BY <2>4, <2>5
<1>2. ListInv => NoDangling
  BY <1>1 DEF NoDangling
<1> QED
  BY <1>2, Invariant, PTL

(* Seen from outside, the list is the sequence of what was added: counted  *)
(* and visited in full and in order, and deleted with all its items.       *)
THEOREM Refinement == Spec => ImplementsSequence
<1>1. Init /\ ContentsKnown => Sequence!Init
  BY Initially DEF Sequence!Init, Contents, Answer
<1>2. ListInv /\ ContentsKnown /\ ContentsKnown' /\ [Next]_vars
        => [Sequence!Next]_(Sequence!vars)
  <2> SUFFICES ASSUME ListInv, ContentsKnown, ContentsKnown', [Next]_vars
               PROVE  [Sequence!Next]_(Sequence!vars)
    OBVIOUS
  <2>1. SequenceStep
    BY NextStep
  <2>2. CASE \E value \in Payloads :
               Contents' = Append(Contents, value) /\ Answer' = <<"added">>
    BY <2>2 DEF Contents, Answer, Sequence!Next, Sequence!Add
  <2>3. CASE Answer' = <<"no memory">> /\ UNCHANGED Contents
    BY <2>3 DEF Contents, Answer, Sequence!Next, Sequence!AddFails
  <2>4. CASE Contents' = <<>> /\ Answer' = <<"deleted">>
    BY <2>4 DEF Contents, Answer, Sequence!Next, Sequence!Delete
  <2>5. CASE Answer' = <<"length", Len(Contents)>> /\ UNCHANGED Contents
    BY <2>5 DEF Contents, Answer, Sequence!Next, Sequence!Length
  <2>6. CASE Answer' = <<"visited", Contents>> /\ UNCHANGED Contents
    BY <2>6 DEF Contents, Answer, Sequence!Next, Sequence!Iterate
  <2>7. CASE UNCHANGED <<Contents, Answer>>
    BY <2>7 DEF Contents, Answer, Sequence!vars
  <2> QED
    BY <2>1, <2>2, <2>3, <2>4, <2>5, <2>6, <2>7 DEF SequenceStep
<1>3. ContentsKnown
  BY ContentsAlways
<1> QED
  BY <1>1, <1>2, <1>3, Invariant, PTL DEF Spec, ImplementsSequence, Sequence!Spec
=============================================================================
