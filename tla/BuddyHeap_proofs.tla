--------------------------- MODULE BuddyHeap_proofs ---------------------------
(***************************************************************************)
(* Proofs about BuddyHeap, for every size of the tree and of the blocks:   *)
(* the blocks tile the tree, its bits agree with the free lists, and the   *)
(* heap is an allocator.                                                   *)
(***************************************************************************)
EXTENDS BuddyHeap, Arithmetic, FiniteSetTheorems, SequenceTheorems

-----------------------------------------------------------------------------
\* The invariant

\* The blocks begin at multiples of their size and end inside the tree.
Laid(blocks, top) ==
  \A block \in blocks :
    /\ block \in Nat \X Buckets
    /\ block[1] % SizeOf(block[2]) = 0
    /\ block[1] + SizeOf(block[2]) <= top

\* Every byte of the tree belongs to one of the blocks.
Tiled(blocks, top) ==
  /\ \A x \in 0 .. top - 1 : \E block \in blocks : Covers(block, x)
  /\ \A x \in Nat : \A b1, b2 \in blocks : Covers(b1, x) /\ Covers(b2, x) => b1 = b2

\* The node at ptr is free as a whole; what lies behind the tree counts as free.
Unused(spare, top, ptr, bucket) ==
  \/ ptr >= top
  \/ \E block \in spare : Covers(block, ptr) /\ block[2] <= bucket

\* One half of the node at ptr is free and the other one is not.
Differ(spare, top, ptr, bucket) ==
  Unused(spare, top, ptr, bucket + 1)
    # Unused(spare, top, ptr + SizeOf(bucket + 1), bucket + 1)

\* The nodes of a bucket
Nodes(bucket) == {p \in 0 .. MAX_ALLOC - 1 : p % SizeOf(bucket) = 0}

\* Every bit tells whether the halves of its node differ.
BitsAgree(spare, limit, bits) ==
  \A bucket \in 0 .. BUCKET_COUNT - 2 : \A ptr \in Nodes(bucket) :
    node_for_ptr(ptr, bucket) \in bits <=>
      bucket >= limit - 1 /\ Differ(spare, SizeOf(limit), ptr, bucket)

\* The other half of the parent of a node
Buddy(ptr, bucket) ==
  IF ptr % SizeOf(bucket - 1) = 0 THEN ptr + SizeOf(bucket) ELSE ptr - SizeOf(bucket)

\* The parent of a node
Upper(ptr, bucket) ==
  IF ptr % SizeOf(bucket - 1) = 0 THEN ptr ELSE ptr - SizeOf(bucket)

Merged(spare, limit) ==
  \A block \in spare :
    block[2] > limit => <<Buddy(block[1], block[2]), block[2]>> \notin spare

\* The free, the used and the held blocks make up the tree of the root limit.
Tree(spare, used, held, limit, bits) ==
  /\ spare \cap used = {} /\ held \cap (spare \cup used) = {}
  /\ Laid(spare \cup used \cup held, SizeOf(limit))
  /\ Tiled(spare \cup used \cup held, SizeOf(limit))
  /\ BitsAgree(spare, limit, bits)
  /\ Merged(spare, limit)

TreeInv ==
  /\ \A b \in Buckets : IsInjective(buckets[b])
  /\ Tree(FreeBlocks, UsedBlocks, HeldBlocks, bucket_limit, node_is_split)

\* What may be written lies below the break, also in the block that is cut.
BreakInv ==
  /\ Reserved
  /\ run.pc = "split" =>
       run.ptr + (IF run.bucket < run.original
                  THEN SizeOf(run.bucket + 1) + LIST_SIZE
                  ELSE SizeOf(run.bucket)) <= max_ptr
  /\ run.pc = "coalesce" => run.ptr + LIST_SIZE <= max_ptr

\* Every allocation is in a block that is large enough.
HeaderInv ==
  \A p \in DOMAIN header :
    LET size == WithHeader(header[p]) IN size <= SizeOf(bucket_for_request(size))

Empty(b1, b2) == \A b \in b1 .. b2 : buckets[b] = <<>>

SearchInv ==
  LET size == WithHeader(run.request) IN
  /\ run.pc \in {"search", "grow", "split"} =>
       /\ size <= MAX_ALLOC
       /\ run.original = bucket_for_request(size)
       /\ run.bucket <= run.original
  /\ run.pc = "search" =>
       /\ Empty(run.bucket + 1, run.original)
       /\ run.bucket < run.original => bucket_limit <= run.bucket
  /\ run.pc = "grow" =>
       /\ run.bucket >= 1
       /\ \/ bucket_limit = run.bucket /\ buckets[run.bucket] = <<>>
          \/ bucket_limit = run.bucket - 1 /\ buckets[run.bucket] # <<>>

\* Before the first allocation
Untouched ==
  /\ buckets = [b \in Buckets |-> <<>>]
  /\ bucket_limit = 0 /\ node_is_split = {}
  /\ DOMAIN header = {} /\ run.pc = "idle"

HeapInv ==
  /\ TypeOK
  /\ IF base_ptr THEN TreeInv ELSE Untouched
  /\ BreakInv
  /\ HeaderInv
  /\ SearchInv
  /\ NullOnlyWhenExhausted

-----------------------------------------------------------------------------
\* Sizes of blocks

(* A block is twice as large as one of the next bucket, which has twice as *)
(* many of them.                                                           *)
LEMMA Sizes ==
  /\ BUCKET_COUNT \in Nat /\ BUCKET_COUNT >= 2
  /\ MAX_ALLOC = SizeOf(0) /\ MIN_ALLOC = SizeOf(BUCKET_COUNT - 1) /\ 2 ^ 0 = 1
  /\ \A b \in Buckets : SizeOf(b) \in Nat \ {0} /\ 2 ^ b \in Nat \ {0}
  /\ \A b \in Buckets : b + 1 \in Buckets =>
       SizeOf(b) = 2 * SizeOf(b + 1) /\ 2 ^ (b + 1) = 2 * 2 ^ b
<1>1. /\ BUCKET_COUNT \in Nat /\ BUCKET_COUNT >= 2 /\ BUCKET_COUNT <= 32
      /\ \A b \in Buckets : MAX_ALLOC_LOG2 - b \in 0 .. 31 /\ b \in 0 .. 31
      /\ MAX_ALLOC_LOG2 - 0 = MAX_ALLOC_LOG2
      /\ MAX_ALLOC_LOG2 - (BUCKET_COUNT - 1) = MIN_ALLOC_LOG2
      /\ MAX_ALLOC_LOG2 \in Nat
  BY HeapAssumption DEF BUCKET_COUNT, Buckets
<1>2. MAX_ALLOC = SizeOf(0) /\ MIN_ALLOC = SizeOf(BUCKET_COUNT - 1)
  BY <1>1 DEF SizeOf, MAX_ALLOC, MIN_ALLOC
<1>3. 2 ^ 0 = 1
  OBVIOUS
<1>4. \A b \in Buckets : SizeOf(b) \in Nat \ {0} /\ 2 ^ b \in Nat \ {0}
  BY <1>1, Powers DEF SizeOf
<1>5. ASSUME NEW b \in Buckets, b + 1 \in Buckets
      PROVE  SizeOf(b) = 2 * SizeOf(b + 1) /\ 2 ^ (b + 1) = 2 * 2 ^ b
  <2> DEFINE k == MAX_ALLOC_LOG2 - (b + 1)
  <2>1. k \in 0 .. 31 /\ k + 1 = MAX_ALLOC_LOG2 - b
    BY <1>1, <1>5 DEF Buckets
  <2>2. 2 ^ (k + 1) = 2 * 2 ^ k
    BY <2>1, Powers
  <2>3. SizeOf(b) = 2 ^ (k + 1) /\ SizeOf(b + 1) = 2 ^ k
    BY <2>1 DEF SizeOf
  <2>4. 2 ^ (b + 1) = 2 * 2 ^ b
    BY <1>1, Powers
  <2> QED
    BY <2>2, <2>3, <2>4
<1> QED
  BY <1>1, <1>2, <1>3, <1>4, <1>5

(* What goes from each bucket to the next goes from any bucket to all      *)
(* later ones: the sizes fall, and a multiple stays one.                   *)
LEMMA LaterSizes ==
  ASSUME NEW b \in Buckets, NEW c \in Buckets, b <= c
  PROVE  /\ SizeOf(c) <= SizeOf(b)
         /\ b < c => 2 * SizeOf(c) <= SizeOf(b) /\ 2 * 2 ^ b <= 2 ^ c
         /\ \A x \in Int : x % SizeOf(b) = 0 => x % SizeOf(c) = 0
<1> DEFINE Good(d) == /\ SizeOf(d) <= SizeOf(b) /\ 2 ^ b <= 2 ^ d
                      /\ b < d => 2 * SizeOf(d) <= SizeOf(b) /\ 2 * 2 ^ b <= 2 ^ d
                      /\ \A x \in Int : x % SizeOf(b) = 0 => x % SizeOf(d) = 0
           Bad == {d \in Nat : d \in b .. c /\ ~ Good(d)}
<1>1. b \in Nat /\ c \in Nat /\ b .. c \subseteq Buckets
  BY Sizes DEF Buckets
<1>2. SUFFICES ASSUME Bad # {} PROVE FALSE
  BY <1>1
<1>3. PICK d \in Bad : \A e \in Bad : d <= e
  BY <1>2, LeastNatural
<1>4. d # b
  <2>1. SizeOf(b) \in Nat /\ 2 ^ b \in Nat
    BY Sizes
  <2>2. Good(b)
    BY <1>1, <2>1
  <2> QED
    BY <2>2
<1>5. d - 1 \in b .. c /\ d - 1 \in Nat /\ d \in b .. c /\ d \in Nat
  BY <1>1, <1>4
<1>6. Good(d - 1)
  BY <1>3, <1>5
<1>7. /\ SizeOf(d - 1) = 2 * SizeOf(d) /\ SizeOf(d) \in Nat \ {0}
      /\ 2 ^ d = 2 * 2 ^ (d - 1) /\ 2 ^ (d - 1) \in Nat
      /\ SizeOf(b) \in Nat /\ 2 ^ b \in Nat
  <2>1. d - 1 \in Buckets /\ d \in Buckets /\ d - 1 + 1 = d
    BY <1>1, <1>5
  <2> QED
    BY <2>1, Sizes
<1>8. /\ SizeOf(d) <= SizeOf(b) /\ 2 * SizeOf(d) <= SizeOf(b)
      /\ 2 ^ b <= 2 ^ d /\ 2 * 2 ^ b <= 2 ^ d
  BY <1>6, <1>7
<1>9. \A x \in Int : x % SizeOf(b) = 0 => x % SizeOf(d) = 0
  BY <1>6, <1>7, MultipleHalf
<1>10. Good(d)
  BY <1>8, <1>9
<1> QED
  BY <1>10

(* The nodes of a bucket, side by side, make up the largest block.         *)
LEMMA NodeCount ==
  ASSUME NEW b \in Buckets
  PROVE  2 ^ b * SizeOf(b) = MAX_ALLOC
<1> DEFINE Bad == {d \in Nat : d \in Buckets /\ 2 ^ d * SizeOf(d) # MAX_ALLOC}
<1>1. SUFFICES ASSUME Bad # {} PROVE FALSE
  BY DEF Buckets
<1>2. PICK d \in Bad : \A e \in Bad : d <= e
  BY <1>1, LeastNatural
<1>3. d # 0
  <2>1. 0 \in Buckets
    BY Sizes DEF Buckets
  <2>2. 2 ^ 0 * SizeOf(0) = MAX_ALLOC
    <3>1. \A x \in Nat : 1 * x = x
      OBVIOUS
    <3> QED
      BY <2>1, <3>1, Sizes
  <2> QED
    BY <2>2
<1>4. d - 1 \in Buckets /\ d \in Buckets /\ d - 1 \in Nat /\ d - 1 + 1 = d
  BY <1>3, Sizes DEF Buckets
<1>5. 2 ^ (d - 1) * SizeOf(d - 1) = MAX_ALLOC
  BY <1>2, <1>4
<1>6. /\ SizeOf(d - 1) = 2 * SizeOf(d) /\ 2 ^ d = 2 * 2 ^ (d - 1)
      /\ SizeOf(d) \in Nat /\ 2 ^ (d - 1) \in Nat
  BY <1>4, Sizes
<1>7. \A x, y \in Nat : (2 * x) * y = x * (2 * y)
  OBVIOUS
<1>8. 2 ^ d * SizeOf(d) = MAX_ALLOC
  BY <1>5, <1>6, <1>7
<1> QED
  BY <1>8

-----------------------------------------------------------------------------
\* Nodes and pointers

(* The nodes of a bucket are numbered one after the other, and the         *)
(* functions between numbers and pointers are inverse to each other.       *)
LEMMA NodeOfPtr ==
  ASSUME NEW b \in Buckets, NEW p \in Nodes(b)
  PROVE  /\ node_for_ptr(p, b) \in 2 ^ b - 1 .. 2 * 2 ^ b - 2
         /\ ptr_for_node(node_for_ptr(p, b), b) = p
         /\ \E k \in Nat : /\ p = k * SizeOf(b)
                           /\ node_for_ptr(p, b) = k + 2 ^ b - 1
<1> DEFINE k == p \div SizeOf(b)
<1>1. /\ SizeOf(b) \in Nat \ {0} /\ 2 ^ b \in Nat \ {0}
      /\ 2 ^ b * SizeOf(b) = MAX_ALLOC
      /\ p \in 0 .. MAX_ALLOC - 1 /\ p % SizeOf(b) = 0
  BY Sizes, NodeCount DEF Nodes
<1>2. k \in 0 .. 2 ^ b - 1
  <2>1. p \in 0 .. 2 ^ b * SizeOf(b) - 1
    BY <1>1
  <2> QED
    BY <1>1, <2>1, DivBelow
<1>3. p = k * SizeOf(b)
  <2>1. p \in Int
    BY <1>1
  <2>2. p = SizeOf(b) * k + (p % SizeOf(b))
    BY <1>1, <2>1, DivMod
  <2> QED
    BY <1>1, <1>2, <2>2
<1>4. node_for_ptr(p, b) = k + 2 ^ b - 1
  BY DEF node_for_ptr
<1> HIDE DEF k
<1>5. node_for_ptr(p, b) - 2 ^ b + 1 = k
  BY <1>1, <1>2, <1>4
<1> QED
  BY <1>1, <1>2, <1>3, <1>4, <1>5 DEF ptr_for_node

(* Every number of a node of the bucket comes from a pointer.              *)
LEMMA PtrOfNode ==
  ASSUME NEW b \in Buckets, NEW node \in 2 ^ b - 1 .. 2 * 2 ^ b - 2
  PROVE  /\ ptr_for_node(node, b) \in Nodes(b)
         /\ node_for_ptr(ptr_for_node(node, b), b) = node
<1> DEFINE k == node - 2 ^ b + 1
<1>1. /\ SizeOf(b) \in Nat \ {0} /\ 2 ^ b \in Nat \ {0}
      /\ 2 ^ b * SizeOf(b) = MAX_ALLOC
  BY Sizes, NodeCount
<1>2. k \in Nat /\ k < 2 ^ b /\ node = k + 2 ^ b - 1
  BY <1>1
<1>3. ptr_for_node(node, b) = k * SizeOf(b)
  BY DEF ptr_for_node
<1> HIDE DEF k
<1>4. k * SizeOf(b) \in Nat /\ k * SizeOf(b) < MAX_ALLOC
  <2>1. PICK d \in Nat : 2 ^ b = k + 1 + d
    <3>1. 2 ^ b - k - 1 \in Nat /\ 2 ^ b = k + 1 + (2 ^ b - k - 1)
      BY <1>1, <1>2
    <3> QED
      BY <3>1
  <2>2. 2 ^ b * SizeOf(b) = k * SizeOf(b) + SizeOf(b) + d * SizeOf(b)
    BY <1>1, <1>2, <2>1
  <2>3. d * SizeOf(b) \in Nat /\ k * SizeOf(b) \in Nat
    BY <1>1, <1>2
  <2> QED
    BY <1>1, <2>2, <2>3
<1>5. (k * SizeOf(b) + 0) % SizeOf(b) = 0 /\ (k * SizeOf(b) + 0) \div SizeOf(b) = k
  <2>1. 0 \in 0 .. SizeOf(b) - 1 /\ k \in Int
    BY <1>1, <1>2
  <2> QED
    BY <1>1, <2>1, DivModUnique
<1>6. k * SizeOf(b) + 0 = k * SizeOf(b)
  BY <1>4
<1>7. MAX_ALLOC \in Nat
  BY Sizes DEF Buckets
<1> QED
  BY <1>2, <1>3, <1>4, <1>5, <1>6, <1>7 DEF Nodes, node_for_ptr

(* No two nodes have the same number.                                      *)
LEMMA NodesDiffer ==
  ASSUME NEW b \in Buckets, NEW c \in Buckets, NEW p \in Nodes(b), NEW q \in Nodes(c),
         node_for_ptr(p, b) = node_for_ptr(q, c)
  PROVE  b = c /\ p = q
<1> DEFINE n == node_for_ptr(p, b)
<1>1. /\ n \in 2 ^ b - 1 .. 2 * 2 ^ b - 2 /\ n \in 2 ^ c - 1 .. 2 * 2 ^ c - 2
      /\ ptr_for_node(n, b) = p /\ ptr_for_node(n, c) = q
  BY NodeOfPtr
<1> HIDE DEF n
<1>2. b \in Int /\ c \in Int /\ 2 ^ b \in Nat /\ 2 ^ c \in Nat
  BY Sizes DEF Buckets
<1>3. ~ (b < c) /\ ~ (c < b)
  BY <1>1, <1>2, LaterSizes
<1> QED
  BY <1>1, <1>2, <1>3

(* The halves of a node.                                                   *)
LEMMA Halves ==
  ASSUME NEW b \in Buckets, b + 1 \in Buckets, NEW p \in Nodes(b)
  PROVE  LET q == p + SizeOf(b + 1)
             node == node_for_ptr(p, b)
             left == node_for_ptr(p, b + 1)
             right == node_for_ptr(q, b + 1)
         IN  /\ p \in Nodes(b + 1) /\ q \in Nodes(b + 1)
             /\ left = 2 * node + 1 /\ right = left + 1
             /\ Parent(left) = node /\ Parent(right) = node
             /\ Sibling(left) = right /\ Sibling(right) = left
<1> DEFINE q == p + SizeOf(b + 1)
           node == node_for_ptr(p, b)
           left == node_for_ptr(p, b + 1)
           right == node_for_ptr(q, b + 1)
           s == SizeOf(b + 1)
<1>1. /\ s \in Nat \ {0} /\ SizeOf(b) = 2 * s
      /\ 2 ^ b \in Nat \ {0} /\ 2 ^ (b + 1) = 2 * 2 ^ b
      /\ MAX_ALLOC \in Nat
      /\ MAX_ALLOC % SizeOf(b) = 0
  <2>1. MAX_ALLOC = 2 ^ b * SizeOf(b) /\ 2 ^ b \in Int
        /\ SizeOf(b) \in Nat \ {0} /\ MAX_ALLOC \in Int
    BY Sizes, NodeCount DEF Buckets
  <2>2. MAX_ALLOC % SizeOf(b) = 0
    BY <2>1, Multiple
  <2> QED
    BY <2>2, Sizes DEF Buckets
<1>2. p \in Nat /\ p < MAX_ALLOC /\ p % SizeOf(b) = 0
  BY <1>1 DEF Nodes
<1>3. p + 2 * s <= MAX_ALLOC
  BY <1>1, <1>2, MultipleGap
<1>4. p % s = 0 /\ q % s = 0
  BY <1>1, <1>2, MultipleHalf, MultipleSteps
<1>5. p \in Nodes(b + 1) /\ q \in Nodes(b + 1)
  BY <1>1, <1>2, <1>3, <1>4 DEF Nodes
<1>6. PICK k \in Nat : p = k * SizeOf(b) /\ node = k + 2 ^ b - 1
  BY NodeOfPtr
<1>7. PICK l \in Nat : p = l * s /\ left = l + 2 ^ (b + 1) - 1
  BY <1>5, NodeOfPtr
<1>8. PICK r \in Nat : q = r * s /\ right = r + 2 ^ (b + 1) - 1
  BY <1>5, NodeOfPtr
<1> HIDE DEF s, node, left, right
<1>9. l = 2 * k /\ r = 2 * k + 1
  <2>1. p = (2 * k) * s /\ q = (2 * k + 1) * s
    BY <1>1, <1>2, <1>6 DEF s
  <2>2. \A x, y \in Nat : x * s = y * s => x = y
    BY <1>1
  <2> QED
    BY <1>7, <1>8, <2>1, <2>2
<1>10. left = 2 * node + 1 /\ right = left + 1 /\ node \in Nat
  <2> DEFINE t == 2 ^ b
  <2>1. /\ node = k + t - 1 /\ left = 2 * k + 2 * t - 1
        /\ right = 2 * k + 1 + 2 * t - 1 /\ t \in Nat \ {0}
    BY <1>1, <1>6, <1>7, <1>8, <1>9
  <2> HIDE DEF t
  <2> QED
    BY <2>1
<1>11. Parent(left) = node /\ Parent(right) = node
  BY <1>10 DEF Parent
<1>12. Sibling(left) = right /\ Sibling(right) = left
  BY <1>10 DEF Sibling
<1> QED
  BY <1>5, <1>10, <1>11, <1>12 DEF s, node, left, right

(* A node below the root of all is a half of its parent.                   *)
LEMMA UpperNode ==
  ASSUME NEW c \in Buckets, c > 0, NEW p \in Nodes(c)
  PROVE  /\ c - 1 \in Buckets
         /\ Upper(p, c) \in Nodes(c - 1)
         /\ \/ p = Upper(p, c) /\ Buddy(p, c) = p + SizeOf(c)
            \/ p = Upper(p, c) + SizeOf(c) /\ Buddy(p, c) = Upper(p, c)
         /\ Buddy(p, c) \in Nodes(c) /\ Upper(Buddy(p, c), c) = Upper(p, c)
         /\ Parent(node_for_ptr(p, c)) = node_for_ptr(Upper(p, c), c - 1)
         /\ Sibling(node_for_ptr(p, c)) = node_for_ptr(Buddy(p, c), c)
<1> DEFINE u == Upper(p, c)
           s == SizeOf(c)
<1>1. /\ c - 1 \in Buckets /\ c - 1 + 1 = c
      /\ s \in Nat \ {0} /\ SizeOf(c - 1) = 2 * s
  <2>1. c - 1 \in Buckets /\ c - 1 + 1 = c
    BY Sizes DEF Buckets
  <2> QED
    BY <2>1, Sizes
<1>2. p \in Nat /\ p < MAX_ALLOC /\ p % s = 0 /\ MAX_ALLOC \in Nat
  BY Sizes DEF Nodes, Buckets
<1>3. \/ u = p /\ p % (2 * s) = 0 /\ (p - s) % (2 * s) # 0
      \/ u = p - s /\ (p - s) % (2 * s) = 0 /\ p % (2 * s) # 0
  BY <1>1, <1>2, MultipleHalf DEF Upper
<1>4. u >= 0
  <2>1. CASE p = 0
    <3>1. 0 % (2 * s) = 0
      BY <1>1, MultipleHalf
    <3> QED
      BY <1>3, <2>1, <3>1
  <2>2. CASE p > 0
    <3>1. 0 % s = 0
      BY <1>1
    <3>2. 0 + s <= p
      BY <1>1, <1>2, <2>2, <3>1, MultipleGap
    <3> QED
      BY <1>1, <1>2, <1>3, <3>2
  <2> QED
    BY <1>2, <2>1, <2>2
<1>5. u \in Nodes(c - 1)
  BY <1>1, <1>2, <1>3, <1>4 DEF Nodes
<1>6. \/ p = u /\ Buddy(p, c) = p + s
      \/ p = u + s /\ Buddy(p, c) = u
  BY <1>1, <1>2, <1>3 DEF Buddy
<1>7. /\ u \in Nodes(c) /\ u + s \in Nodes(c)
      /\ Parent(node_for_ptr(u, c)) = node_for_ptr(u, c - 1)
      /\ Parent(node_for_ptr(u + s, c)) = node_for_ptr(u, c - 1)
      /\ Sibling(node_for_ptr(u, c)) = node_for_ptr(u + s, c)
      /\ Sibling(node_for_ptr(u + s, c)) = node_for_ptr(u, c)
  BY <1>1, <1>5, Halves
<1>8. Upper(Buddy(p, c), c) = u
  <2>1. u % (2 * s) = 0 /\ u \in Int
    BY <1>1, <1>2, <1>3
  <2>2. (u + s) % (2 * s) # 0
    <3>1. u + s \in Int /\ u + s - s = u /\ (u + s) % s = 0
      BY <1>1, <2>1, <1>7 DEF Nodes
    <3> QED
      BY <1>1, <2>1, <3>1, MultipleHalf
  <2>3. \A x : Upper(x, c) = IF x % (2 * s) = 0 THEN x ELSE x - s
    BY <1>1 DEF Upper
  <2> HIDE DEF u
  <2>4. Upper(u, c) = u /\ Upper(u + s, c) = u
    BY <1>1, <2>1, <2>2, <2>3
  <2>5. Buddy(p, c) = u \/ Buddy(p, c) = u + s
    BY <1>6
  <2> QED
    BY <2>4, <2>5 DEF u
<1> HIDE DEF u, s
<1>9. Buddy(p, c) \in Nodes(c)
  BY <1>6, <1>7
<1>10. /\ Parent(node_for_ptr(p, c)) = node_for_ptr(u, c - 1)
       /\ Sibling(node_for_ptr(p, c)) = node_for_ptr(Buddy(p, c), c)
  BY <1>6, <1>7
<1> QED
  BY <1>1, <1>5, <1>6, <1>8, <1>9, <1>10 DEF u, s

(* Only one node has a given half.                                         *)
LEMMA UpperUnique ==
  ASSUME NEW c \in Buckets, c > 0, NEW u \in Nodes(c - 1), NEW p, p = u \/ p = u + SizeOf(c)
  PROVE  Upper(p, c) = u
<1>1. /\ c - 1 \in Buckets /\ c - 1 + 1 = c
      /\ SizeOf(c) \in Nat \ {0} /\ SizeOf(c - 1) = 2 * SizeOf(c)
  <2>1. c - 1 \in Buckets /\ c - 1 + 1 = c
    BY Sizes DEF Buckets
  <2> QED
    BY <2>1, Sizes
<1> DEFINE s == SizeOf(c)
<1> HIDE DEF s
<1>2. s \in Nat \ {0} /\ u \in Int /\ u % (2 * s) = 0 /\ (p = u \/ p = u + s)
      /\ Upper(p, c) = IF p % (2 * s) = 0 THEN p ELSE p - s
  BY <1>1 DEF s, Upper, Nodes
<1>3. u % s = 0
  BY <1>2, MultipleHalf
<1>4. (u + s) % (2 * s) # 0
  <2>1. u + s \in Int /\ u + s - s = u /\ (u + s) % s = 0
    BY <1>2, <1>3, MultipleSteps
  <2> QED
    BY <1>2, <2>1, MultipleHalf
<1> QED
  BY <1>2, <1>4

-----------------------------------------------------------------------------
\* Blocks and nodes

(* A node that begins inside of a block of its size or a larger one lies   *)
(* inside of it.                                                           *)
LEMMA NodeInBlock ==
  ASSUME NEW b \in Buckets, NEW c \in Buckets, b <= c,
         NEW p \in Nodes(b), NEW q \in Nodes(c), Covers(<<p, b>>, q)
  PROVE  q + SizeOf(c) <= p + SizeOf(b)
<1>1. /\ SizeOf(b) \in Nat \ {0} /\ SizeOf(c) \in Nat \ {0}
      /\ p \in Int /\ q \in Int /\ p % SizeOf(b) = 0 /\ q % SizeOf(c) = 0
      /\ q < p + SizeOf(b)
  BY Sizes DEF Nodes, Covers
<1>2. (p + SizeOf(b)) % SizeOf(b) = 0 /\ p + SizeOf(b) \in Int
  BY <1>1, MultipleSteps
<1>3. (p + SizeOf(b)) % SizeOf(c) = 0
  BY <1>2, LaterSizes
<1> QED
  BY <1>1, <1>2, <1>3, MultipleGap

(* A block holds both halves of a node of its size or smaller, or none.    *)
LEMMA HalvesInBlock ==
  ASSUME NEW b \in Buckets, NEW c \in Buckets, b <= c, c + 1 \in Buckets,
         NEW p \in Nodes(b), NEW q \in Nodes(c)
  PROVE  Covers(<<p, b>>, q) <=> Covers(<<p, b>>, q + SizeOf(c + 1))
<1>1. /\ SizeOf(b) \in Nat \ {0} /\ SizeOf(c + 1) \in Nat \ {0}
      /\ SizeOf(c) = 2 * SizeOf(c + 1)
      /\ p \in Int /\ q \in Int /\ p % SizeOf(b) = 0 /\ q % SizeOf(c) = 0
  BY Sizes DEF Nodes
<1>2. ASSUME Covers(<<p, b>>, q)
      PROVE  Covers(<<p, b>>, q + SizeOf(c + 1))
  <2>1. q + SizeOf(c) <= p + SizeOf(b)
    BY <1>2, NodeInBlock
  <2> QED
    BY <1>1, <1>2, <2>1 DEF Covers
<1>3. ASSUME Covers(<<p, b>>, q + SizeOf(c + 1)), q < p
      PROVE  FALSE
  <2>1. p % SizeOf(c) = 0
    BY <1>1, LaterSizes
  <2>2. q + SizeOf(c) <= p
    BY <1>1, <1>3, <2>1, MultipleGap
  <2> QED
    BY <1>1, <1>3, <2>2 DEF Covers
<1>4. ASSUME Covers(<<p, b>>, q + SizeOf(c + 1)) PROVE Covers(<<p, b>>, q)
  BY <1>1, <1>3, <1>4 DEF Covers
<1> QED
  BY <1>2, <1>4

(* A block holds only one node of its size.                                *)
LEMMA NodeIsBlock ==
  ASSUME NEW b \in Buckets, NEW p \in Nodes(b), NEW q \in Nodes(b)
  PROVE  Covers(<<p, b>>, q) <=> p = q
<1>1. /\ SizeOf(b) \in Nat \ {0} /\ p \in Int /\ q \in Int
      /\ p % SizeOf(b) = 0 /\ q % SizeOf(b) = 0
  BY Sizes DEF Nodes
<1>2. p < q => p + SizeOf(b) <= q
  BY <1>1, MultipleGap
<1> QED
  BY <1>1, <1>2 DEF Covers

-----------------------------------------------------------------------------
\* The bits of the tree

(* A block that becomes free changes the difference of the halves for its  *)
(* parent and for no other node: larger nodes with it were not free and    *)
(* are not now, and in smaller ones both halves become free.               *)
LEMMA DifferChanges ==
  ASSUME NEW spare, NEW top, NEW b \in Buckets, NEW p \in Nodes(b),
         top \in Nat, p + SizeOf(b) <= top,
         \A block \in spare : \A x \in Nat :
           ~ (Covers(block, x) /\ Covers(<<p, b>>, x)),
         NEW c \in Buckets, c + 1 \in Buckets, NEW q \in Nodes(c)
  PROVE  LET before == Differ(spare, top, q, c)
             after == Differ(spare \cup {<<p, b>>}, top, q, c)
         IN  IF b > 0 /\ b = c + 1 /\ q = Upper(p, b) THEN after # before
                                                      ELSE after = before
<1> DEFINE r == q + SizeOf(c + 1)
           In(x) == Covers(<<p, b>>, x)
           Before(x) == Unused(spare, top, x, c + 1)
           After(x) == Unused(spare \cup {<<p, b>>}, top, x, c + 1)
<1>1. q \in Nat /\ r \in Nat /\ b \in Int /\ c \in Int
      /\ q \in Nodes(c + 1) /\ r \in Nodes(c + 1)
  BY Sizes, Halves DEF Nodes, Buckets
<1>2. \A x : After(x) <=> (Before(x) \/ (In(x) /\ b <= c + 1))
  BY DEF Unused
<1>3. ASSUME NEW x \in Nat, In(x)
      PROVE  ~ Before(x)
  <2>1. x < p + SizeOf(b) /\ p \in Int /\ SizeOf(b) \in Int
    BY <1>3, Sizes DEF Covers, Nodes
  <2> QED
    BY <1>3, <2>1 DEF Unused
<1>4. /\ Before(q) \in BOOLEAN /\ Before(r) \in BOOLEAN
      /\ After(q) \in BOOLEAN /\ After(r) \in BOOLEAN
      /\ In(q) \in BOOLEAN /\ In(r) \in BOOLEAN
  BY DEF Unused, Covers
<1>5. /\ Differ(spare, top, q, c) = (Before(q) # Before(r))
      /\ Differ(spare \cup {<<p, b>>}, top, q, c) = (After(q) # After(r))
  BY DEF Differ
<1>6. CASE b <= c
  <2>1. In(q) <=> In(r)
    BY <1>6, HalvesInBlock
  <2>2. b <= c + 1 /\ b # c + 1
    BY <1>1, <1>6
  <2> HIDE DEF r, In, Before, After
  <2> QED
    BY <1>1, <1>2, <1>3, <1>4, <1>5, <2>1, <2>2
<1>7. CASE b = c + 1
  <2>1. In(q) <=> p = q
    BY <1>1, <1>7, NodeIsBlock
  <2>2. In(r) <=> p = r
    BY <1>1, <1>7, NodeIsBlock
  <2>3. b > 0 /\ c = b - 1
    BY <1>1, <1>7 DEF Buckets
  <2>4. q # r
    BY <1>1, Sizes
  <2>5. q = Upper(p, b) <=> p = q \/ p = r
    <3>1. p = q \/ p = r => q = Upper(p, b)
      BY <1>7, <2>3, UpperUnique
    <3>2. q = Upper(p, b) => p = q \/ p = r
      BY <1>7, <2>3, UpperNode
    <3> QED
      BY <3>1, <3>2
  <2>6. b <= c + 1
    BY <1>1, <1>7
  <2> HIDE DEF r, In, Before, After
  <2> QED
    BY <1>1, <1>2, <1>3, <1>4, <1>5, <1>7, <2>1, <2>2, <2>3, <2>4, <2>5, <2>6
<1>8. CASE b > c + 1
  <2>1. ~ (b <= c + 1) /\ b # c + 1
    BY <1>1, <1>8
  <2> HIDE DEF r, In, Before, After
  <2> QED
    BY <1>2, <1>4, <1>5, <2>1
<1> QED
  BY <1>1, <1>6, <1>7, <1>8

(* Only the root of all has the number 0.                                  *)
LEMMA NodeZero ==
  ASSUME NEW b \in Buckets, NEW p \in Nodes(b)
  PROVE  node_for_ptr(p, b) = 0 <=> b = 0
<1>1. node_for_ptr(p, b) \in 2 ^ b - 1 .. 2 * 2 ^ b - 2 /\ 2 ^ b \in Nat /\ 2 ^ 0 = 1
  BY NodeOfPtr, Sizes
<1>2. CASE b = 0
  BY <1>1, <1>2
<1>3. CASE b # 0
  <2>1. 0 \in Buckets /\ 0 < b /\ 0 <= b
    BY <1>3, Sizes DEF Buckets
  <2>2. 2 * 2 ^ 0 <= 2 ^ b
    BY <2>1, LaterSizes
  <2> QED
    BY <1>1, <1>3, <2>2
<1> QED
  BY <1>2, <1>3

(* No block in the tree is larger than the tree.                           *)
LEMMA BlockInTree ==
  ASSUME NEW b \in Buckets, NEW p \in Nat, NEW limit \in Buckets,
         p + SizeOf(b) <= SizeOf(limit)
  PROVE  b >= limit
<1>1. b \in Int /\ limit \in Int /\ SizeOf(b) \in Nat \ {0} /\ SizeOf(limit) \in Nat \ {0}
  BY Sizes DEF Buckets
<1> QED
  BY <1>1, LaterSizes

\* The bits after the block at ptr has become free, or is free no more
Flipped(bits, ptr, bucket) ==
  IF node_for_ptr(ptr, bucket) = 0 THEN bits
  ELSE flip_parent_is_split(bits, node_for_ptr(ptr, bucket))

(* If the bits tell which halves differ, they still do when a block        *)
(* becomes free, or free no more, and the bit of its parent is flipped.    *)
LEMMA BitsFlip ==
  ASSUME NEW spare, NEW limit \in Buckets, NEW bits, NEW b \in Buckets, NEW p \in Nodes(b),
         p + SizeOf(b) <= SizeOf(limit),
         \A block \in spare : \A x \in Nat :
           ~ (Covers(block, x) /\ Covers(<<p, b>>, x))
  PROVE  BitsAgree(spare, limit, bits)
           <=> BitsAgree(spare \cup {<<p, b>>}, limit, Flipped(bits, p, b))
<1> DEFINE top == SizeOf(limit)
           after == spare \cup {<<p, b>>}
           Here(q, c) == b > 0 /\ b = c + 1 /\ q = Upper(p, b)
<1>1. top \in Nat /\ b \in Nat /\ limit \in Nat /\ b >= limit
  <2>1. p \in Nat
    BY DEF Nodes
  <2> QED
    BY <2>1, Sizes, BlockInTree DEF Buckets
<1>2. ASSUME NEW c \in 0 .. BUCKET_COUNT - 2
      PROVE  c \in Buckets /\ c + 1 \in Buckets /\ c \in Nat
  BY Sizes DEF Buckets
<1>3. ASSUME NEW c \in 0 .. BUCKET_COUNT - 2, NEW q \in Nodes(c)
      PROVE  node_for_ptr(q, c) \in Flipped(bits, p, b) <=>
               IF Here(q, c) THEN node_for_ptr(q, c) \notin bits
                             ELSE node_for_ptr(q, c) \in bits
  <2> DEFINE n == node_for_ptr(q, c)
             m == node_for_ptr(p, b)
  <2>1. CASE b = 0
    <3>1. m = 0
      BY <2>1, NodeZero
    <3> QED
      BY <2>1, <3>1 DEF Flipped
  <2>2. CASE b > 0
    <3>1. m # 0
      BY <2>2, NodeZero
    <3>2. /\ b - 1 \in Buckets /\ Upper(p, b) \in Nodes(b - 1)
          /\ Parent(m) = node_for_ptr(Upper(p, b), b - 1)
      BY <2>2, UpperNode
    <3>3. n = Parent(m) <=> Here(q, c)
      <4>1. Here(q, c) => n = Parent(m)
        <5>1. b = c + 1 => c = b - 1
          BY <1>1, <1>2
        <5> QED
          BY <3>2, <5>1
      <4>2. n = Parent(m) => c = b - 1 /\ q = Upper(p, b)
        BY <1>2, <3>2, NodesDiffer
      <4> QED
        BY <1>1, <1>2, <2>2, <4>1, <4>2
    <3>4. Flipped(bits, p, b)
            = IF Parent(m) \in bits THEN bits \ {Parent(m)} ELSE bits \cup {Parent(m)}
      BY <3>1 DEF Flipped, flip_parent_is_split
    <3> HIDE DEF n, m, Here
    <3>5. n \in Flipped(bits, p, b) <=> IF n = Parent(m) THEN n \notin bits ELSE n \in bits
      BY <3>4
    <3>6. n \in Flipped(bits, p, b) <=> IF Here(q, c) THEN n \notin bits ELSE n \in bits
      BY <3>3, <3>5
    <3> QED
      BY <3>6 DEF n
  <2> QED
    BY <1>1, <2>1, <2>2
<1>4. ASSUME NEW c \in 0 .. BUCKET_COUNT - 2, NEW q \in Nodes(c)
      PROVE  /\ IF Here(q, c) THEN Differ(after, top, q, c) # Differ(spare, top, q, c)
                              ELSE Differ(after, top, q, c) = Differ(spare, top, q, c)
             /\ Here(q, c) => c >= limit - 1
             /\ Differ(after, top, q, c) \in BOOLEAN /\ Differ(spare, top, q, c) \in BOOLEAN
  <2>1. /\ Here(q, c) => Differ(after, top, q, c) # Differ(spare, top, q, c)
        /\ ~ Here(q, c) => Differ(after, top, q, c) = Differ(spare, top, q, c)
    BY <1>1, <1>2, DifferChanges
  <2>2. Here(q, c) => c >= limit - 1
    BY <1>1, <1>2
  <2>3. Differ(after, top, q, c) \in BOOLEAN /\ Differ(spare, top, q, c) \in BOOLEAN
    BY DEF Differ
  <2> HIDE DEF Here
  <2> QED
    BY <2>1, <2>2, <2>3
<1>5. ASSUME NEW c \in 0 .. BUCKET_COUNT - 2, NEW q \in Nodes(c)
      PROVE  (node_for_ptr(q, c) \in bits
                <=> c >= limit - 1 /\ Differ(spare, top, q, c))
             <=> (node_for_ptr(q, c) \in Flipped(bits, p, b)
                    <=> c >= limit - 1 /\ Differ(after, top, q, c))
  <2>1. /\ node_for_ptr(q, c) \in Flipped(bits, p, b) <=>
             IF Here(q, c) THEN node_for_ptr(q, c) \notin bits
                           ELSE node_for_ptr(q, c) \in bits
        /\ IF Here(q, c) THEN Differ(after, top, q, c) # Differ(spare, top, q, c)
                         ELSE Differ(after, top, q, c) = Differ(spare, top, q, c)
        /\ Here(q, c) => c >= limit - 1
        /\ Differ(after, top, q, c) \in BOOLEAN /\ Differ(spare, top, q, c) \in BOOLEAN
    BY <1>3, <1>4
  <2> HIDE DEF Here, after, top
  <2> QED
    BY <2>1
<1> HIDE DEF after, Here
<1>6. BitsAgree(spare, limit, bits) <=> BitsAgree(after, limit, Flipped(bits, p, b))
  BY <1>5 DEF BitsAgree
<1> QED
  BY <1>6 DEF after

-----------------------------------------------------------------------------
\* Lists

(* list_remove takes the entry out of its list and leaves the others.      *)
LEMMA RemoveEntry ==
  ASSUME NEW S, NEW s \in Seq(S), NEW e, IsInjective(s)
  PROVE  /\ RemoveFirst(s, e) \in Seq(S)
         /\ IsInjective(RemoveFirst(s, e))
         /\ ToSet(RemoveFirst(s, e)) = ToSet(s) \ {e}
<1>1. Len(s) \in Nat /\ DOMAIN s = 1 .. Len(s) /\ \A i \in 1 .. Len(s) : s[i] \in S
  BY LenProperties, ElementOfSeq
<1>2. CASE ~ \E i \in 1 .. Len(s) : s[i] = e
  <2>1. RemoveFirst(s, e) = s
    BY <1>2 DEF RemoveFirst
  <2> QED
    BY <1>1, <1>2, <2>1 DEF ToSet
<1>3. CASE \E i \in 1 .. Len(s) : s[i] = e
  <2> DEFINE I == {i \in 1 .. Len(s) : s[i] = e}
             k == SelectInSeq(s, LAMBDA v : v = e)
             left == SubSeq(s, 1, k - 1)
             right == SubSeq(s, k + 1, Len(s))
             r == RemoveFirst(s, e)
  <2>1. k \in 1 .. Len(s) /\ s[k] = e
    <3>1. k = IF I # {} THEN Min(I) ELSE 0
      BY DEF SelectInSeq
    <3>2. I # {} /\ I \in SUBSET Nat
      BY <1>1, <1>3
    <3>3. \E x \in I : \A y \in I : x =< y
      BY <3>2, LeastNatural
    <3>4. Min(I) \in I
      BY <3>3 DEF Min
    <3> QED
      BY <3>1, <3>2, <3>4
  <2>2. r = left \o right
    BY <1>3 DEF RemoveFirst, RemoveAt
  <2> HIDE DEF k
  <2>3. /\ left \in Seq(S) /\ Len(left) = k - 1
        /\ \A i \in 1 .. k - 1 : left[i] = s[i]
    <3>1. \A i \in 1 .. k - 1 : s[i] \in S
      BY <1>1, <2>1
    <3>2. 1 \in Int /\ k - 1 \in Int /\ k - 1 - 1 + 1 = k - 1
          /\ (1 <= k - 1 \/ k - 1 = 0)
          /\ \A i \in 1 .. k - 1 : 1 + i - 1 = i
      BY <1>1, <2>1
    <3> QED
      BY <3>1, <3>2, SubSeqProperties
  <2>4. /\ right \in Seq(S) /\ Len(right) = Len(s) - k
        /\ \A i \in 1 .. Len(s) - k : right[i] = s[k + i]
    <3>1. \A i \in k + 1 .. Len(s) : s[i] \in S
      BY <1>1, <2>1
    <3>2. k + 1 \in Int /\ Len(s) \in Int /\ k \in Int /\ k <= Len(s)
      BY <1>1, <2>1
    <3>3. \A i \in 1 .. Len(s) - k : (k + 1) + i - 1 = k + i
      BY <1>1, <2>1
    <3>4. /\ Len(s) - (k + 1) + 1 = Len(s) - k
          /\ k + 1 > Len(s) => Len(s) - k = 0
      BY <3>2
    <3>5. /\ right \in Seq(S)
          /\ Len(right) = IF k + 1 <= Len(s) THEN Len(s) - (k + 1) + 1 ELSE 0
          /\ \A i \in 1 .. Len(s) - (k + 1) + 1 : right[i] = s[(k + 1) + i - 1]
      BY <3>1, <3>2, SubSeqProperties
    <3> HIDE DEF right
    <3>6. Len(right) = Len(s) - k
      <4>1. CASE k = Len(s)
        BY <3>2, <3>5, <4>1
      <4>2. CASE k < Len(s)
        <5>1. k + 1 <= Len(s)
          BY <3>2, <4>2
        <5> QED
          BY <3>4, <3>5, <5>1
      <4> QED
        BY <3>2, <4>1, <4>2
    <3> QED
      BY <3>3, <3>4, <3>5, <3>6
  <2> HIDE DEF left, right, r
  <2>5. /\ r \in Seq(S) /\ Len(r) = Len(s) - 1
        /\ \A i \in 1 .. Len(s) - 1 : r[i] = IF i < k THEN s[i] ELSE s[i + 1]
    <3>1. /\ r \in Seq(S) /\ Len(r) = (k - 1) + (Len(s) - k)
          /\ \A i \in 1 .. (k - 1) + (Len(s) - k) :
               r[i] = IF i <= k - 1 THEN left[i] ELSE right[i - (k - 1)]
      <4>1. /\ left \o right \in Seq(S) /\ Len(left \o right) = Len(left) + Len(right)
            /\ \A i \in 1 .. Len(left) + Len(right) :
                 (left \o right)[i]
                   = IF i <= Len(left) THEN left[i] ELSE right[i - Len(left)]
        BY <2>3, <2>4, ConcatProperties
      <4> QED
        BY <2>2, <2>3, <2>4, <4>1
    <3>2. ASSUME NEW i \in 1 .. Len(s) - 1
          PROVE  r[i] = IF i < k THEN s[i] ELSE s[i + 1]
      <4>1. i < k => r[i] = s[i]
        BY <1>1, <2>1, <2>3, <3>1
      <4>2. ~ (i < k) => r[i] = s[i + 1]
        <5>1. ASSUME ~ (i < k)
              PROVE  i - (k - 1) \in 1 .. Len(s) - k /\ k + (i - (k - 1)) = i + 1
                     /\ ~ (i <= k - 1) /\ i \in 1 .. (k - 1) + (Len(s) - k)
          BY <1>1, <2>1, <5>1
        <5> QED
          BY <2>4, <3>1, <5>1
      <4> QED
        BY <4>1, <4>2
    <3>3. (k - 1) + (Len(s) - k) = Len(s) - 1
      BY <1>1, <2>1
    <3> QED
      BY <3>1, <3>2, <3>3
  <2>6. DOMAIN r = 1 .. Len(s) - 1
    BY <2>5, LenProperties
  <2>7. IsInjective(r)
    <3>1. SUFFICES ASSUME NEW i \in 1 .. Len(s) - 1, NEW j \in 1 .. Len(s) - 1,
                          r[i] = r[j]
                   PROVE  i = j
      BY <2>6 DEF IsInjective
    <3>2. PICK x \in 1 .. Len(s) : x = (IF i < k THEN i ELSE i + 1) /\ r[i] = s[x]
      BY <1>1, <2>1, <2>5
    <3>3. PICK y \in 1 .. Len(s) : y = (IF j < k THEN j ELSE j + 1) /\ r[j] = s[y]
      BY <1>1, <2>1, <2>5
    <3>4. x = y
      BY <1>1, <2>1, <3>1, <3>2, <3>3 DEF IsInjective
    <3> QED
      BY <2>1, <3>2, <3>3, <3>4
  <2>8. ToSet(r) \subseteq ToSet(s) \ {e}
    <3>1. ASSUME NEW i \in 1 .. Len(s) - 1
          PROVE  \E j \in 1 .. Len(s) : j # k /\ r[i] = s[j]
      <4>1. i < k => i \in 1 .. Len(s) /\ i # k
        BY <1>1, <2>1
      <4>2. ~ (i < k) => i + 1 \in 1 .. Len(s) /\ i + 1 # k
        BY <1>1, <2>1
      <4> QED
        BY <2>5, <4>1, <4>2
    <3>2. \A j \in 1 .. Len(s) : j # k => s[j] # e
      BY <1>1, <2>1 DEF IsInjective
    <3> QED
      BY <1>1, <2>6, <3>1, <3>2 DEF ToSet
  <2>9. ToSet(s) \ {e} \subseteq ToSet(r)
    <3>1. ASSUME NEW j \in 1 .. Len(s), j # k
          PROVE  \E i \in 1 .. Len(s) - 1 : r[i] = s[j]
      <4>1. j < k => j \in 1 .. Len(s) - 1
        BY <1>1, <2>1
      <4>2. ~ (j < k) => j - 1 \in 1 .. Len(s) - 1 /\ ~ (j - 1 < k) /\ j - 1 + 1 = j
        BY <1>1, <2>1, <3>1
      <4> QED
        BY <2>5, <4>1, <4>2
    <3> QED
      BY <1>1, <2>1, <2>6, <3>1 DEF ToSet
  <2> QED
    BY <2>5, <2>7, <2>8, <2>9 DEF r
<1> QED
  BY <1>2, <1>3

(* list_push adds an entry to its list.                                    *)
LEMMA AddEntry ==
  ASSUME NEW S, NEW s \in Seq(S), NEW e \in S, IsInjective(s), e \notin ToSet(s)
  PROVE  /\ Append(s, e) \in Seq(S)
         /\ IsInjective(Append(s, e))
         /\ ToSet(Append(s, e)) = ToSet(s) \cup {e}
<1> DEFINE t == Append(s, e)
<1>1. /\ Len(s) \in Nat /\ DOMAIN s = 1 .. Len(s) /\ \A i \in 1 .. Len(s) : s[i] \in S
      /\ t \in Seq(S) /\ DOMAIN t = 1 .. Len(s) + 1
      /\ \A i \in 1 .. Len(s) : t[i] = s[i]
      /\ t[Len(s) + 1] = e
  BY LenProperties, ElementOfSeq, AppendProperties
<1> HIDE DEF t
<1>2. \A i \in 1 .. Len(s) : s[i] # e
  BY <1>1 DEF ToSet
<1>3. \A i \in 1 .. Len(s) + 1 : i \in 1 .. Len(s) \/ i = Len(s) + 1
  BY <1>1
<1>4. IsInjective(t)
  BY <1>1, <1>2, <1>3 DEF IsInjective
<1>5. ToSet(t) = ToSet(s) \cup {e}
  <2>1. Len(s) + 1 \in DOMAIN t /\ \A i \in DOMAIN s : i \in DOMAIN t
    BY <1>1
  <2>2. \A i \in DOMAIN t : t[i] \in ToSet(s) \cup {e}
    BY <1>1, <1>3 DEF ToSet
  <2> QED
    BY <1>1, <2>1, <2>2 DEF ToSet
<1> QED
  BY <1>1, <1>4, <1>5 DEF t

(* list_pop takes an entry of a list that is not empty.                    *)
LEMMA LastEntry ==
  ASSUME NEW S, NEW s \in Seq(S), s # <<>>
  PROVE  Last(s) \in ToSet(s) /\ Last(s) \in S
<1>1. Len(s) \in 1 .. Len(s) /\ DOMAIN s = 1 .. Len(s)
  BY LenProperties, EmptySeq
<1> QED
  BY <1>1, ElementOfSeq DEF Last, ToSet

Offsets == 0 .. MAX_ALLOC - MIN_ALLOC

\* The lists hold no entry twice.
Lists(lists) ==
  /\ lists \in [Buckets -> Seq(Offsets)]
  /\ \A b \in Buckets : IsInjective(lists[b])

FreeOf(lists) == UNION {{<<p, b>> : p \in ToSet(lists[b])} : b \in Buckets}

(* A block is free exactly if its pointer is on the list of its bucket.    *)
LEMMA FreeMembers ==
  ASSUME NEW lists
  PROVE  \A block : block \in FreeOf(lists)
           <=> \E b \in Buckets : \E p \in ToSet(lists[b]) : block = <<p, b>>
BY DEF FreeOf

(* The same for a pointer and a bucket.                                    *)
LEMMA FreeMember ==
  ASSUME NEW lists, NEW p, NEW b
  PROVE  <<p, b>> \in FreeOf(lists) <=> b \in Buckets /\ p \in ToSet(lists[b])
BY DEF FreeOf

(* Pushing an entry on a list makes one more block free.                   *)
LEMMA PushFrees ==
  ASSUME NEW lists, Lists(lists), NEW b \in Buckets, NEW p \in Offsets,
         <<p, b>> \notin FreeOf(lists)
  PROVE  /\ Lists(list_push(lists, b, p))
         /\ FreeOf(list_push(lists, b, p)) = FreeOf(lists) \cup {<<p, b>>}
<1> DEFINE after == list_push(lists, b, p)
<1>1. p \notin ToSet(lists[b])
  BY FreeMember
<1>2. lists[b] \in Seq(Offsets) /\ IsInjective(lists[b])
  BY DEF Lists
<1>3. /\ Append(lists[b], p) \in Seq(Offsets)
      /\ IsInjective(Append(lists[b], p))
      /\ ToSet(Append(lists[b], p)) = ToSet(lists[b]) \cup {p}
  BY <1>1, <1>2, AddEntry
<1>4. /\ after[b] = Append(lists[b], p)
      /\ \A c \in Buckets : c # b => after[c] = lists[c]
      /\ after = [lists EXCEPT ![b] = Append(lists[b], p)]
  BY DEF list_push, Lists
<1>5. after \in [Buckets -> Seq(Offsets)]
  BY <1>3, <1>4 DEF Lists
<1>6. \A c \in Buckets : IsInjective(after[c])
  BY <1>3, <1>4 DEF Lists
<1> HIDE DEF after
<1>7. \A c \in Buckets : ToSet(after[c]) = IF c = b THEN ToSet(lists[c]) \cup {p}
                                                     ELSE ToSet(lists[c])
  <2>1. ToSet(after[b]) = ToSet(lists[b]) \cup {p}
    BY <1>3, <1>4
  <2>2. \A c \in Buckets : c # b => ToSet(after[c]) = ToSet(lists[c])
    BY <1>4
  <2> QED
    BY <2>1, <2>2
<1>8. FreeOf(after) = FreeOf(lists) \cup {<<p, b>>}
  <2>1. ASSUME NEW block \in FreeOf(after)
        PROVE  block \in FreeOf(lists) \cup {<<p, b>>}
    <3>0. PICK c \in Buckets : \E q \in ToSet(after[c]) : block = <<q, c>>
      BY FreeMembers
    <3>1. PICK q \in ToSet(after[c]) : block = <<q, c>>
      BY <3>0
    <3> QED
      BY <1>7, <3>1, FreeMember
  <2>2. ASSUME NEW block \in FreeOf(lists) \cup {<<p, b>>}
        PROVE  block \in FreeOf(after)
    <3>1. ASSUME block \in FreeOf(lists)
          PROVE  block \in FreeOf(after)
      <4>1. PICK c \in Buckets : \E q \in ToSet(lists[c]) : block = <<q, c>>
        BY <3>1, FreeMembers
      <4>2. PICK q \in ToSet(lists[c]) : block = <<q, c>>
        BY <4>1
      <4>3. q \in ToSet(after[c])
        BY <1>7
      <4> QED
        BY <4>2, <4>3, FreeMember
    <3>2. <<p, b>> \in FreeOf(after)
      BY <1>7, FreeMember
    <3> QED
      BY <3>1, <3>2
  <2> QED
    BY <2>1, <2>2
<1> QED
  BY <1>5, <1>6, <1>8 DEF Lists, after

(* Removing an entry takes the blocks that begin there off the lists.      *)
LEMMA RemoveUnfrees ==
  ASSUME NEW lists, Lists(lists), NEW p
  PROVE  /\ Lists(list_remove(lists, p))
         /\ \A block : block \in FreeOf(list_remove(lists, p))
              <=> block \in FreeOf(lists) /\ block[1] # p
<1> DEFINE after == list_remove(lists, p)
<1>1. \A b \in Buckets :
        /\ after[b] \in Seq(Offsets) /\ IsInjective(after[b])
        /\ ToSet(after[b]) = ToSet(lists[b]) \ {p}
  <2>1. ASSUME NEW b \in Buckets
        PROVE  /\ after[b] \in Seq(Offsets) /\ IsInjective(after[b])
               /\ ToSet(after[b]) = ToSet(lists[b]) \ {p}
    <3>1. lists[b] \in Seq(Offsets) /\ IsInjective(lists[b])
      BY DEF Lists
    <3>2. after[b] = RemoveFirst(lists[b], p)
      BY DEF list_remove
    <3> QED
      BY <3>1, <3>2, RemoveEntry
  <2> QED
    BY <2>1
<1>2. Lists(after)
  <2>1. after \in [Buckets -> Seq(Offsets)]
    BY <1>1 DEF list_remove
  <2> QED
    BY <1>1, <2>1 DEF Lists
<1> HIDE DEF after
<1>3. ASSUME NEW block \in FreeOf(after)
      PROVE  block \in FreeOf(lists) /\ block[1] # p
  <2>0. PICK c \in Buckets : \E q \in ToSet(after[c]) : block = <<q, c>>
    BY FreeMembers
  <2>1. PICK q \in ToSet(after[c]) : block = <<q, c>>
    BY <2>0
  <2>2. q \in ToSet(lists[c]) /\ q # p /\ block[1] = q
    BY <1>1, <2>1
  <2> QED
    BY <2>1, <2>2, FreeMember
<1>4. ASSUME NEW block \in FreeOf(lists), block[1] # p
      PROVE  block \in FreeOf(after)
  <2>0. PICK c \in Buckets : \E q \in ToSet(lists[c]) : block = <<q, c>>
    BY FreeMembers
  <2>1. PICK q \in ToSet(lists[c]) : block = <<q, c>>
    BY <2>0
  <2>2. block[1] = q
    BY <2>1
  <2>3. q \in ToSet(after[c])
    BY <1>1, <1>4, <2>1, <2>2
  <2> QED
    BY <2>1, <2>3, FreeMember
<1> QED
  BY <1>2, <1>3, <1>4 DEF after

-----------------------------------------------------------------------------
\* Requests

(* bucket_for_request finds the smallest blocks that are large enough, for *)
(* every request that fits into the largest block.                         *)
LEMMA BucketForRequest ==
  ASSUME NEW request \in Nat, request <= MAX_ALLOC
  PROVE  LET b == bucket_for_request(request) IN
         /\ b \in Buckets /\ request <= SizeOf(b)
         /\ \A c \in Buckets : request <= SizeOf(c) => c <= b
<1> DEFINE S == {b \in Buckets : SizeOf(b) >= request}
           T == {k \in Nat : BUCKET_COUNT - 1 - k \in S}
<1>1. BUCKET_COUNT \in Nat /\ 0 \in Buckets /\ SizeOf(0) = MAX_ALLOC
      /\ \A b \in Buckets : SizeOf(b) \in Nat /\ b \in Nat
  BY Sizes DEF Buckets
<1>2. BUCKET_COUNT - 1 \in T
  <2>1. 0 \in S
    BY <1>1
  <2>2. BUCKET_COUNT - 1 \in Nat /\ BUCKET_COUNT - 1 - (BUCKET_COUNT - 1) = 0
    BY Sizes
  <2> QED
    BY <2>1, <2>2
<1>3. PICK k \in T : \A m \in T : k <= m
  <2>1. T \in SUBSET Nat /\ T # {}
    BY <1>2
  <2> QED
    BY <2>1, LeastNatural
<1>4. \A c \in S : BUCKET_COUNT - 1 - c \in T /\ c \in Int
  <2>1. ASSUME NEW c \in S
        PROVE  BUCKET_COUNT - 1 - c \in Nat /\ BUCKET_COUNT - 1 - (BUCKET_COUNT - 1 - c) = c
               /\ c \in Int
    BY <1>1 DEF Buckets
  <2> QED
    BY <2>1
<1>5. /\ BUCKET_COUNT - 1 - k \in S
      /\ \A c \in S : BUCKET_COUNT - 1 - k >= c
  <2>1. k \in Nat /\ BUCKET_COUNT - 1 - k \in S
    BY <1>3
  <2>2. ASSUME NEW c \in S
        PROVE  BUCKET_COUNT - 1 - k >= c
    <3>1. k <= BUCKET_COUNT - 1 - c /\ c \in Int
      BY <1>3, <1>4
    <3> QED
      BY <1>1, <2>1, <3>1
  <2> QED
    BY <2>1, <2>2
<1> HIDE DEF T
<1>6. Max(S) \in S /\ \A c \in S : Max(S) >= c
  BY <1>5 DEF Max
<1>7. bucket_for_request(request) = Max(S)
  BY DEF bucket_for_request
<1> HIDE DEF S
<1>8. /\ Max(S) \in Buckets /\ SizeOf(Max(S)) >= request
      /\ \A c \in Buckets : SizeOf(c) >= request => Max(S) >= c
  BY <1>6 DEF S
<1> QED
  BY <1>1, <1>7, <1>8

(* A request with its header is a size_t.                                  *)
LEMMA WithHeaderType ==
  ASSUME NEW request \in SIZE_T
  PROVE  WithHeader(request) \in Nat /\ WithHeader(request) \in SIZE_T
<1>1. MAX_ALLOC \in Nat \ {0} /\ MIN_ALLOC \in Nat
  BY Sizes DEF Buckets
<1>2. request + HEADER_SIZE \in Int /\ 2 * MAX_ALLOC \in Nat \ {0}
  BY <1>1, HeapAssumption DEF SIZE_T
<1>3. WithHeader(request) \in 0 .. 2 * MAX_ALLOC - 1
  BY <1>2, DivMod DEF WithHeader
<1> QED
  BY <1>3 DEF SIZE_T

-----------------------------------------------------------------------------
\* The tiling

(* The two halves cover a block, without overlap.                          *)
LEMMA CoversHalves ==
  ASSUME NEW b \in Buckets, b + 1 \in Buckets, NEW p \in Nat, NEW x \in Int
  PROVE  LET left == Covers(<<p, b + 1>>, x)
             right == Covers(<<p + SizeOf(b + 1), b + 1>>, x)
         IN  /\ Covers(<<p, b>>, x) <=> (left \/ right)
             /\ ~ (left /\ right)
<1>1. SizeOf(b) = 2 * SizeOf(b + 1) /\ SizeOf(b + 1) \in Nat
  BY Sizes
<1> QED
  BY <1>1 DEF Covers

(* Different blocks of a tiling are disjoint.                              *)
LEMMA TiledApart ==
  ASSUME NEW blocks, NEW top, Tiled(blocks, top),
         NEW b1 \in blocks, NEW b2 \in blocks, b1 # b2, NEW x \in Nat
  PROVE  ~ (Covers(b1, x) /\ Covers(b2, x))
BY DEF Tiled

(* The block that is the whole tree                                        *)
LEMMA WholeTiling ==
  ASSUME NEW limit \in Buckets
  PROVE  Laid({<<0, limit>>}, SizeOf(limit)) /\ Tiled({<<0, limit>>}, SizeOf(limit))
<1>1. SizeOf(limit) \in Nat \ {0} /\ 0 % SizeOf(limit) = 0 /\ 0 + SizeOf(limit) <= SizeOf(limit)
  BY Sizes
<1>2. Laid({<<0, limit>>}, SizeOf(limit))
  BY <1>1 DEF Laid
<1>3. Tiled({<<0, limit>>}, SizeOf(limit))
  BY <1>1 DEF Tiled, Covers
<1> QED
  BY <1>2, <1>3

(* Cutting a block into its halves keeps the tiling.                       *)
LEMMA SplitTiling ==
  ASSUME NEW blocks, NEW top, Laid(blocks, top), Tiled(blocks, top), top \in Nat,
         NEW b \in Buckets, b + 1 \in Buckets, NEW p, <<p, b>> \in blocks
  PROVE  LET after == (blocks \ {<<p, b>>})
                        \cup {<<p, b + 1>>, <<p + SizeOf(b + 1), b + 1>>}
         IN  Laid(after, top) /\ Tiled(after, top)
<1> DEFINE B == <<p, b>>
           L == <<p, b + 1>>
           R == <<p + SizeOf(b + 1), b + 1>>
           after == (blocks \ {B}) \cup {L, R}
<1>1. /\ SizeOf(b) = 2 * SizeOf(b + 1) /\ SizeOf(b + 1) \in Nat \ {0}
      /\ p \in Nat /\ p % SizeOf(b) = 0 /\ p + SizeOf(b) <= top
  <2>1. B \in Nat \X Buckets /\ B[1] % SizeOf(B[2]) = 0 /\ B[1] + SizeOf(B[2]) <= top
    BY DEF Laid
  <2> QED
    BY <2>1, Sizes
<1>2. p % SizeOf(b + 1) = 0 /\ (p + SizeOf(b + 1)) % SizeOf(b + 1) = 0
  <2> DEFINE s == SizeOf(b + 1)
  <2>1. s \in Nat \ {0} /\ p \in Int /\ p % (2 * s) = 0
    BY <1>1
  <2> HIDE DEF s
  <2>2. p % s = 0
    BY <2>1, MultipleHalf
  <2>3. (p + s) % s = 0
    BY <2>1, <2>2, MultipleSteps
  <2> QED
    BY <2>2, <2>3 DEF s
<1>3. \A block \in {L, R} :
        /\ block \in Nat \X Buckets /\ block[1] % SizeOf(block[2]) = 0
        /\ block[1] + SizeOf(block[2]) <= top
  BY <1>1, <1>2
<1>4. Laid(after, top)
  BY <1>3 DEF Laid
<1>5. \A x \in Int : (Covers(B, x) <=> Covers(L, x) \/ Covers(R, x))
                     /\ ~ (Covers(L, x) /\ Covers(R, x))
  BY <1>1, CoversHalves
<1> HIDE DEF B, L, R
<1>6. B \in blocks
  BY DEF B
<1>7. ASSUME NEW x \in 0 .. top - 1
      PROVE  \E block \in after : Covers(block, x)
  <2>1. PICK block \in blocks : Covers(block, x)
    BY DEF Tiled
  <2>2. x \in Int
    OBVIOUS
  <2> QED
    BY <1>5, <2>1, <2>2
<1>8. ASSUME NEW x \in Nat, NEW b1 \in after, NEW b2 \in after, Covers(b1, x), Covers(b2, x)
      PROVE  b1 = b2
  <2>1. \A c \in after : Covers(c, x) =>
          (c \in {L, R} /\ Covers(B, x)) \/ (c \in blocks /\ c # B)
    BY <1>5
  <2>2. \A c, d \in blocks : Covers(c, x) /\ Covers(d, x) => c = d
    BY DEF Tiled
  <2> QED
    BY <1>5, <1>6, <1>8, <2>1, <2>2
<1> HIDE DEF after
<1>9. Tiled(after, top)
  BY <1>7, <1>8 DEF Tiled
<1> QED
  BY <1>4, <1>9 DEF after, B, L, R

(* Joining two buddies keeps it.                                           *)
LEMMA JoinTiling ==
  ASSUME NEW blocks, NEW top, Laid(blocks, top), Tiled(blocks, top), top \in Nat,
         NEW b \in Buckets, b + 1 \in Buckets, NEW p \in Nodes(b),
         <<p, b + 1>> \in blocks, <<p + SizeOf(b + 1), b + 1>> \in blocks
  PROVE  LET after == (blocks \ {<<p, b + 1>>, <<p + SizeOf(b + 1), b + 1>>})
                        \cup {<<p, b>>}
         IN  Laid(after, top) /\ Tiled(after, top)
<1> DEFINE B == <<p, b>>
           L == <<p, b + 1>>
           R == <<p + SizeOf(b + 1), b + 1>>
           after == (blocks \ {L, R}) \cup {B}
<1>1. /\ SizeOf(b) = 2 * SizeOf(b + 1) /\ SizeOf(b + 1) \in Nat \ {0}
      /\ p \in Nat /\ p % SizeOf(b) = 0 /\ p + SizeOf(b) <= top
  <2>1. R \in Nat \X Buckets /\ R[1] + SizeOf(R[2]) <= top
    BY DEF Laid
  <2> QED
    BY <2>1, Sizes DEF Nodes
<1>2. B \in Nat \X Buckets /\ B[1] % SizeOf(B[2]) = 0 /\ B[1] + SizeOf(B[2]) <= top
  BY <1>1
<1>3. Laid(after, top)
  BY <1>2 DEF Laid
<1>4. \A x \in Int : (Covers(B, x) <=> Covers(L, x) \/ Covers(R, x))
                     /\ ~ (Covers(L, x) /\ Covers(R, x))
  BY <1>1, CoversHalves
<1> HIDE DEF B, L, R
<1>5. L \in blocks /\ R \in blocks
  BY DEF L, R
<1>6. ASSUME NEW x \in 0 .. top - 1
      PROVE  \E block \in after : Covers(block, x)
  <2>1. PICK block \in blocks : Covers(block, x)
    BY DEF Tiled
  <2>2. x \in Int
    OBVIOUS
  <2> QED
    BY <1>4, <2>1, <2>2
<1>7. ASSUME NEW x \in Nat, NEW b1 \in after, NEW b2 \in after, Covers(b1, x), Covers(b2, x)
      PROVE  b1 = b2
  <2>1. \A c, d \in blocks : Covers(c, x) /\ Covers(d, x) => c = d
    BY DEF Tiled
  <2> QED
    BY <1>4, <1>5, <1>7, <2>1
<1> HIDE DEF after
<1>8. Tiled(after, top)
  BY <1>6, <1>7 DEF Tiled
<1> QED
  BY <1>3, <1>8 DEF after, B, L, R

(* A new block behind the tree doubles it.                                 *)
LEMMA GrowTiling ==
  ASSUME NEW blocks, NEW limit \in Buckets, limit > 0,
         Laid(blocks, SizeOf(limit)), Tiled(blocks, SizeOf(limit))
  PROVE  LET after == blocks \cup {<<SizeOf(limit), limit>>}
         IN  Laid(after, SizeOf(limit - 1)) /\ Tiled(after, SizeOf(limit - 1))
<1> DEFINE s == SizeOf(limit)
           N == <<s, limit>>
           after == blocks \cup {N}
           top == SizeOf(limit - 1)
<1>1. s \in Nat \ {0} /\ top = 2 * s
  <2>1. limit - 1 \in Buckets /\ limit - 1 + 1 = limit
    BY Sizes DEF Buckets
  <2> QED
    BY <2>1, Sizes
<1>2. N \in Nat \X Buckets /\ N[1] = s /\ N[1] % SizeOf(N[2]) = 0 /\ N[1] + SizeOf(N[2]) <= top
  <2>1. s % s = 0
    BY <1>1, Multiple
  <2> QED
    BY <1>1, <2>1
<1>3. \A x \in Int : Covers(N, x) <=> s <= x /\ x < top
  BY <1>1 DEF Covers
<1>4. \A block \in blocks : /\ block \in Nat \X Buckets /\ block[1] % SizeOf(block[2]) = 0
                            /\ block[1] + SizeOf(block[2]) <= s
  BY DEF Laid
<1>5. \A block \in blocks : block[1] \in Nat /\ SizeOf(block[2]) \in Nat
  BY <1>4, Sizes
<1> HIDE DEF N, s, top
<1>6. \A block \in blocks : \A x \in Int : Covers(block, x) => x < s
  BY <1>1, <1>4, <1>5 DEF Covers
<1>7. Laid(after, top)
  BY <1>1, <1>2, <1>4, <1>5 DEF Laid
<1>8. Tiled(after, top)
  <2>1. ASSUME NEW x \in 0 .. top - 1
        PROVE  \E block \in after : Covers(block, x)
    <3>1. CASE x < s
      <4>1. x \in 0 .. s - 1
        BY <1>1, <3>1
      <4> QED
        BY <4>1 DEF Tiled, s
    <3>2. CASE x >= s
      BY <1>1, <1>3, <3>2
    <3> QED
      BY <1>1, <3>1, <3>2
  <2>2. ASSUME NEW x \in Nat, NEW b1 \in after, NEW b2 \in after,
               Covers(b1, x), Covers(b2, x)
        PROVE  b1 = b2
    <3>1. \A c, d \in blocks : Covers(c, x) /\ Covers(d, x) => c = d
      BY DEF Tiled
    <3>2. \A c \in blocks : Covers(c, x) => ~ Covers(N, x)
      BY <1>1, <1>3, <1>6
    <3> QED
      BY <2>2, <3>1, <3>2
  <2> HIDE DEF after
  <2> QED
    BY <2>1, <2>2 DEF Tiled
<1> QED
  BY <1>7, <1>8 DEF N, s, top

-----------------------------------------------------------------------------
\* Steps of the tree

(* A block in the tree is a node of it.                                    *)
LEMMA LaidBlock ==
  ASSUME NEW blocks, NEW limit \in Buckets, Laid(blocks, SizeOf(limit)),
         NEW p, NEW b, <<p, b>> \in blocks
  PROVE  /\ b \in Buckets /\ p \in Nodes(b) /\ p \in Offsets /\ p \in Nat
         /\ b >= limit /\ p + SizeOf(b) <= SizeOf(limit)
         /\ Covers(<<p, b>>, p)
<1>1. /\ b \in Buckets /\ p \in Nat /\ p % SizeOf(b) = 0
      /\ p + SizeOf(b) <= SizeOf(limit)
  BY DEF Laid
<1>2. b >= limit
  BY <1>1, BlockInTree
<1>3. /\ SizeOf(b) \in Nat \ {0} /\ SizeOf(limit) \in Nat \ {0} /\ MIN_ALLOC \in Nat
      /\ SizeOf(limit) <= MAX_ALLOC /\ MIN_ALLOC <= SizeOf(b) /\ MAX_ALLOC \in Nat
  <2>1. 0 \in Buckets /\ 0 <= limit /\ BUCKET_COUNT - 1 \in Buckets /\ b <= BUCKET_COUNT - 1
    BY <1>1, Sizes DEF Buckets
  <2> QED
    BY <1>1, <2>1, Sizes, LaterSizes
<1>4. p <= MAX_ALLOC - MIN_ALLOC /\ p <= MAX_ALLOC - 1 /\ p < p + SizeOf(b)
  BY <1>1, <1>3
<1> QED
  BY <1>1, <1>2, <1>3, <1>4 DEF Nodes, Offsets, Covers

(* Flipping a bit twice leaves it alone.                                   *)
LEMMA FlipTwice ==
  ASSUME NEW bits, NEW p, NEW b
  PROVE  Flipped(Flipped(bits, p, b), p, b) = bits
BY DEF Flipped, flip_parent_is_split

\* The numbers of the nodes that have halves
SplitNodes == 0 .. 2 ^ (BUCKET_COUNT - 1) - 2

(* Only bits of nodes that have halves are flipped: every index into the   *)
(* array of bits is inside of it.                                          *)
LEMMA FlippedType ==
  ASSUME NEW bits, bits \subseteq SplitNodes, NEW b \in Buckets, NEW p \in Nodes(b)
  PROVE  Flipped(bits, p, b) \subseteq SplitNodes
<1>1. CASE b = 0
  BY <1>1, NodeZero DEF Flipped
<1>2. CASE b # 0
  <2> DEFINE m == Parent(node_for_ptr(p, b))
  <2>1. b > 0 /\ b - 1 \in Buckets /\ b - 1 + 1 = b
        /\ b <= BUCKET_COUNT - 1 /\ BUCKET_COUNT - 1 \in Buckets
    BY <1>2, Sizes DEF Buckets
  <2>2. Upper(p, b) \in Nodes(b - 1) /\ m = node_for_ptr(Upper(p, b), b - 1)
    BY <2>1, UpperNode
  <2>3. m \in 2 ^ (b - 1) - 1 .. 2 * 2 ^ (b - 1) - 2
    BY <2>1, <2>2, NodeOfPtr
  <2>4. 2 ^ (b - 1) \in Nat \ {0} /\ 2 ^ b = 2 * 2 ^ (b - 1)
        /\ 2 ^ (BUCKET_COUNT - 1) \in Nat \ {0}
    BY <2>1, Sizes
  <2>5. 2 ^ b <= 2 ^ (BUCKET_COUNT - 1)
    <3>1. CASE b = BUCKET_COUNT - 1
      BY <2>4, <3>1
    <3>2. CASE b < BUCKET_COUNT - 1
      <4>1. 2 * 2 ^ b <= 2 ^ (BUCKET_COUNT - 1)
        BY <2>1, <3>2, LaterSizes
      <4> QED
        BY <2>4, <4>1
    <3> QED
      BY <2>1, <3>1, <3>2, Sizes DEF Buckets
  <2> HIDE DEF m
  <2>6. m \in SplitNodes
    BY <2>3, <2>4, <2>5 DEF SplitNodes
  <2>7. Flipped(bits, p, b) \subseteq bits \cup {m}
    BY DEF Flipped, flip_parent_is_split, m
  <2> QED
    BY <2>6, <2>7
<1> QED
  BY <1>1, <1>2

(* The buddy of the buddy is the block.                                    *)
LEMMA BuddyTwice ==
  ASSUME NEW b \in Buckets, b > 0, NEW p \in Nodes(b)
  PROVE  /\ Buddy(Buddy(p, b), b) = p /\ Buddy(p, b) # p /\ Buddy(p, b) \in Nodes(b)
         /\ \A bits : Flipped(bits, Buddy(p, b), b) = Flipped(bits, p, b)
<1> DEFINE u == Upper(p, b)
           d == Buddy(p, b)
           s == SizeOf(b)
<1>1. /\ (p = u /\ d = u + s) \/ (p = u + s /\ d = u)
      /\ d \in Nodes(b) /\ Upper(d, b) = u
      /\ Parent(node_for_ptr(p, b)) = node_for_ptr(u, b - 1)
  BY UpperNode
<1>2. /\ (d = u /\ Buddy(d, b) = u + s) \/ (d = u + s /\ Buddy(d, b) = u)
      /\ Parent(node_for_ptr(d, b)) = node_for_ptr(u, b - 1)
  <2>1. /\ (d = Upper(d, b) /\ Buddy(d, b) = d + s)
             \/ (d = Upper(d, b) + s /\ Buddy(d, b) = Upper(d, b))
        /\ Parent(node_for_ptr(d, b)) = node_for_ptr(Upper(d, b), b - 1)
    BY <1>1, UpperNode
  <2> QED
    BY <1>1, <2>1
<1>3. u \in Int /\ s \in Nat \ {0}
  BY UpperNode, Sizes DEF Nodes
<1>4. Buddy(d, b) = p /\ d # p
  BY <1>1, <1>2, <1>3
<1>5. node_for_ptr(p, b) # 0 /\ node_for_ptr(d, b) # 0
  BY <1>1, NodeZero
<1>6. \A bits : Flipped(bits, d, b) = Flipped(bits, p, b)
  BY <1>1, <1>2, <1>5 DEF Flipped, flip_parent_is_split
<1> QED
  BY <1>1, <1>4, <1>6

(* Taking a block off its list                                             *)
LEMMA TakeTree ==
  ASSUME NEW spare, NEW used, NEW limit \in Buckets, NEW bits,
         Tree(spare, used, {}, limit, bits), NEW p, NEW b, <<p, b>> \in spare
  PROVE  Tree(spare \ {<<p, b>>}, used, {<<p, b>>}, limit, Flipped(bits, p, b))
<1> DEFINE B == <<p, b>>
           rest == spare \ {B}
<1>1. /\ spare \cap used = {} /\ Laid(spare \cup used \cup {}, SizeOf(limit))
      /\ Tiled(spare \cup used \cup {}, SizeOf(limit))
      /\ BitsAgree(spare, limit, bits) /\ Merged(spare, limit)
  BY DEF Tree
<1>2. b \in Buckets /\ p \in Nodes(b) /\ p + SizeOf(b) <= SizeOf(limit)
  BY <1>1, LaidBlock
<1>3. \A block \in rest : \A x \in Nat : ~ (Covers(block, x) /\ Covers(B, x))
  BY <1>1, TiledApart
<1>4. rest \cup {B} = spare /\ rest \cup used \cup {B} = spare \cup used \cup {}
  OBVIOUS
<1>5. BitsAgree(rest, limit, Flipped(bits, p, b))
  <2>1. BitsAgree(rest, limit, Flipped(bits, p, b))
          <=> BitsAgree(rest \cup {B}, limit, Flipped(Flipped(bits, p, b), p, b))
    BY <1>2, <1>3, BitsFlip
  <2> QED
    BY <1>1, <1>4, <2>1, FlipTwice
<1>6. Merged(rest, limit)
  BY <1>1 DEF Merged
<1> HIDE DEF B
<1>7. rest \cap used = {} /\ {B} \cap (rest \cup used) = {}
  <2>1. B \in spare
    BY DEF B
  <2> QED
    BY <1>1, <2>1
<1> QED
  BY <1>1, <1>4, <1>5, <1>6, <1>7 DEF Tree, B

(* Cutting the block in hand: the right half goes to its list.             *)
LEMMA SplitTree ==
  ASSUME NEW spare, NEW used, NEW limit \in Buckets, NEW bits, NEW p, NEW b,
         Tree(spare, used, {<<p, b>>}, limit, bits), b + 1 \in Buckets
  PROVE  LET right == <<p + SizeOf(b + 1), b + 1>> IN
         /\ right \notin spare
         /\ Tree(spare \cup {right}, used, {<<p, b + 1>>}, limit,
                 Flipped(bits, p + SizeOf(b + 1), b + 1))
<1> DEFINE B == <<p, b>>
           L == <<p, b + 1>>
           R == <<p + SizeOf(b + 1), b + 1>>
           before == spare \cup used \cup {B}
<1>1. /\ spare \cap used = {} /\ {B} \cap (spare \cup used) = {}
      /\ Laid(before, SizeOf(limit)) /\ Tiled(before, SizeOf(limit))
      /\ BitsAgree(spare, limit, bits) /\ Merged(spare, limit)
  BY DEF Tree
<1>2. /\ b \in Buckets /\ p \in Nodes(b) /\ p + SizeOf(b) <= SizeOf(limit) /\ p \in Nat
      /\ b >= limit
  <2>1. <<p, b>> \in before
    OBVIOUS
  <2> HIDE DEF before
  <2> QED
    BY <1>1, <2>1, LaidBlock
<1>3. /\ SizeOf(b) = 2 * SizeOf(b + 1) /\ SizeOf(b + 1) \in Nat \ {0}
      /\ SizeOf(limit) \in Nat /\ b \in Int /\ limit \in Int
  BY <1>2, Sizes DEF Buckets
<1>4. p + SizeOf(b + 1) \in Nodes(b + 1) /\ p \in Nodes(b + 1)
      /\ p + SizeOf(b + 1) \in Nat /\ p + SizeOf(b + 1) + SizeOf(b + 1) <= SizeOf(limit)
  BY <1>2, <1>3, Halves
<1>5. \A x \in Int : (Covers(B, x) <=> Covers(L, x) \/ Covers(R, x))
                     /\ ~ (Covers(L, x) /\ Covers(R, x))
  BY <1>2, CoversHalves
<1>6. \A block \in spare \cup used : \A x \in Nat : ~ (Covers(block, x) /\ Covers(B, x))
  <2>1. \A block \in spare \cup used : block \in before /\ block # B /\ B \in before
    BY <1>1
  <2> QED
    BY <1>1, <2>1, TiledApart
<1>7. L \notin spare \cup used /\ R \notin spare \cup used
  <2>1. Covers(L, p) /\ Covers(R, p + SizeOf(b + 1))
    BY <1>2, <1>3 DEF Covers
  <2>2. Covers(B, p) /\ Covers(B, p + SizeOf(b + 1))
    BY <1>4, <1>5, <2>1, <1>2
  <2> QED
    BY <1>2, <1>4, <1>6, <2>1, <2>2
<1>8. L # R
  BY <1>2, <1>3
<1>9. BitsAgree(spare \cup {R}, limit, Flipped(bits, p + SizeOf(b + 1), b + 1))
  <2>1. \A block \in spare : \A x \in Nat : ~ (Covers(block, x) /\ Covers(R, x))
    BY <1>5, <1>6
  <2> HIDE DEF before
  <2> QED
    BY <1>1, <1>4, <2>1, BitsFlip
<1>10. Merged(spare \cup {R}, limit)
  <2>1. b + 1 > 0 /\ (b + 1) - 1 = b /\ p \in Nodes((b + 1) - 1)
    BY <1>2 DEF Buckets
  <2>2. Buddy(p + SizeOf(b + 1), b + 1) = p
    <3>1. Upper(p + SizeOf(b + 1), b + 1) = p
      BY <2>1, UpperUnique
    <3> QED
      BY <1>2, <1>3, <1>4, <2>1, <3>1, UpperNode
  <2>3. ASSUME NEW block \in spare, block[2] > limit,
               <<Buddy(block[1], block[2]), block[2]>> = R
        PROVE  FALSE
    <3>1. block = <<block[1], block[2]>>
      BY <1>1 DEF Laid
    <3>2. block[2] = b + 1 /\ Buddy(block[1], b + 1) = p + SizeOf(b + 1)
      BY <2>3
    <3>3. block[1] \in Nodes(b + 1)
      BY <1>1, <3>1, <3>2, LaidBlock
    <3>4. block[1] = Buddy(p + SizeOf(b + 1), b + 1)
      BY <2>1, <3>2, <3>3, BuddyTwice
    <3>5. block = L
      BY <2>2, <3>1, <3>2, <3>4
    <3> QED
      BY <1>7, <3>5
  <2>4. <<Buddy(R[1], R[2]), R[2]>> = L
    BY <2>2
  <2> HIDE DEF R, L
  <2>5. \A block \in spare : block[2] > limit
          => <<Buddy(block[1], block[2]), block[2]>> \notin spare
    BY <1>1 DEF Merged
  <2> QED
    BY <1>7, <1>8, <2>3, <2>4, <2>5 DEF Merged
<1>11. Laid((spare \cup {R}) \cup used \cup {L}, SizeOf(limit))
       /\ Tiled((spare \cup {R}) \cup used \cup {L}, SizeOf(limit))
  <2>1. Laid((before \ {B}) \cup {L, R}, SizeOf(limit))
        /\ Tiled((before \ {B}) \cup {L, R}, SizeOf(limit))
    <3>1. B \in before
      OBVIOUS
    <3> HIDE DEF before
    <3> QED
      BY <1>1, <1>2, <1>3, <3>1, SplitTiling
  <2> HIDE DEF B, L, R
  <2>2. (before \ {B}) \cup {L, R} = (spare \cup {R}) \cup used \cup {L}
    BY <1>1
  <2> QED
    BY <2>1, <2>2
<1> HIDE DEF L, R
<1>12. (spare \cup {R}) \cap used = {} /\ {L} \cap ((spare \cup {R}) \cup used) = {}
  BY <1>1, <1>7, <1>8
<1> QED
  BY <1>7, <1>9, <1>10, <1>11, <1>12 DEF Tree, L, R

(* The bit of the parent of a node says whether its halves differ.         *)
LEMMA ParentBit ==
  ASSUME NEW spare, NEW limit \in Buckets, NEW bits, BitsAgree(spare, limit, bits),
         NEW b \in Buckets, b > 0, NEW p \in Nodes(b)
  PROVE  parent_is_split(bits, node_for_ptr(p, b)) <=>
           /\ b >= limit
           /\ Unused(spare, SizeOf(limit), p, b)
                # Unused(spare, SizeOf(limit), Buddy(p, b), b)
<1> DEFINE u == Upper(p, b)
           top == SizeOf(limit)
           Free(x) == Unused(spare, top, x, b)
<1>1. /\ b - 1 \in Buckets /\ u \in Nodes(b - 1)
      /\ (p = u /\ Buddy(p, b) = u + SizeOf(b)) \/ (p = u + SizeOf(b) /\ Buddy(p, b) = u)
      /\ Parent(node_for_ptr(p, b)) = node_for_ptr(u, b - 1)
  BY UpperNode
<1>2. b - 1 \in 0 .. BUCKET_COUNT - 2 /\ (b - 1) + 1 = b
      /\ (b - 1 >= limit - 1 <=> b >= limit)
  BY Sizes DEF Buckets
<1>3. node_for_ptr(u, b - 1) \in bits <=> b - 1 >= limit - 1 /\ Differ(spare, top, u, b - 1)
  BY <1>1, <1>2 DEF BitsAgree
<1>4. Differ(spare, top, u, b - 1) = (Free(u) # Free(u + SizeOf(b)))
  BY <1>2 DEF Differ
<1>5. \A x : Free(x) \in BOOLEAN
  BY DEF Unused
<1> HIDE DEF u, top, Free
<1>6. (Free(u) # Free(u + SizeOf(b))) <=> (Free(p) # Free(Buddy(p, b)))
  BY <1>1, <1>5
<1>7. parent_is_split(bits, node_for_ptr(p, b)) <=> b >= limit /\ (Free(p) # Free(Buddy(p, b)))
  BY <1>1, <1>2, <1>3, <1>4, <1>6 DEF parent_is_split
<1> QED
  BY <1>7 DEF Free, top

(* A block that is not free is not unused: no free block covers it.        *)
LEMMA HeldIsUsed ==
  ASSUME NEW spare, NEW used, NEW limit \in Buckets, NEW bits, NEW p, NEW b,
         Tree(spare, used, {<<p, b>>}, limit, bits)
  PROVE  /\ b \in Buckets /\ p \in Nodes(b) /\ p + SizeOf(b) <= SizeOf(limit)
         /\ p \in Nat /\ p \in Offsets /\ b >= limit
         /\ \A block \in spare : ~ Covers(block, p)
         /\ \A block \in spare : \A x \in Nat : ~ (Covers(block, x) /\ Covers(<<p, b>>, x))
         /\ ~ Unused(spare, SizeOf(limit), p, b)
<1> DEFINE B == <<p, b>>
           blocks == spare \cup used \cup {B}
<1>1. /\ {B} \cap (spare \cup used) = {}
      /\ Laid(blocks, SizeOf(limit)) /\ Tiled(blocks, SizeOf(limit))
  BY DEF Tree
<1>2. B \in blocks /\ \A block \in spare : block \in blocks /\ block # B
  BY <1>1
<1> HIDE DEF blocks
<1>3. /\ b \in Buckets /\ p \in Nodes(b) /\ p + SizeOf(b) <= SizeOf(limit)
      /\ p \in Nat /\ p \in Offsets /\ b >= limit /\ Covers(B, p)
  BY <1>1, <1>2, LaidBlock
<1>4. \A block \in spare : \A x \in Nat : ~ (Covers(block, x) /\ Covers(B, x))
  BY <1>1, <1>2, TiledApart
<1>5. \A block \in spare : ~ Covers(block, p)
  BY <1>3, <1>4
<1>6. ~ (p >= SizeOf(limit))
  <2>1. SizeOf(b) \in Nat \ {0} /\ SizeOf(limit) \in Nat
    BY <1>3, Sizes
  <2> QED
    BY <1>3, <2>1
<1>7. ~ Unused(spare, SizeOf(limit), p, b)
  BY <1>5, <1>6 DEF Unused
<1> QED
  BY <1>3, <1>4, <1>5, <1>7

(* When the bit of the parent is on, the buddy of the block in hand is a   *)
(* free block, and the two become one.                                     *)
LEMMA MergeTree ==
  ASSUME NEW spare, NEW used, NEW limit \in Buckets, NEW bits, NEW p, NEW b,
         Tree(spare, used, {<<p, b>>}, limit, bits), b > limit,
         parent_is_split(bits, node_for_ptr(p, b))
  PROVE  /\ <<Buddy(p, b), b>> \in spare
         /\ Tree(spare \ {<<Buddy(p, b), b>>}, used, {<<Upper(p, b), b - 1>>}, limit,
                 Flipped(bits, p, b))
<1> DEFINE B == <<p, b>>
           d == Buddy(p, b)
           D == <<d, b>>
           u == Upper(p, b)
           U == <<u, b - 1>>
           top == SizeOf(limit)
           before == spare \cup used \cup {B}
           rest == spare \ {D}
<1>1. /\ spare \cap used = {} /\ {B} \cap (spare \cup used) = {}
      /\ Laid(before, top) /\ Tiled(before, top)
      /\ BitsAgree(spare, limit, bits) /\ Merged(spare, limit)
  BY DEF Tree
<1>2. /\ b \in Buckets /\ p \in Nodes(b) /\ p + SizeOf(b) <= top /\ b > 0
      /\ \A block \in spare : ~ Covers(block, p)
      /\ ~ Unused(spare, top, p, b)
  <2>1. /\ b \in Buckets /\ p \in Nodes(b) /\ p + SizeOf(b) <= top
        /\ \A block \in spare : ~ Covers(block, p)
        /\ ~ Unused(spare, top, p, b)
    BY HeldIsUsed
  <2>2. b > 0
    BY <2>1 DEF Buckets
  <2> QED
    BY <2>1, <2>2
<1>3. /\ b - 1 \in Buckets /\ (b - 1) + 1 = b /\ b \in Int /\ limit \in Int
      /\ SizeOf(b - 1) = 2 * SizeOf(b) /\ SizeOf(b) \in Nat \ {0} /\ top \in Nat \ {0}
      /\ b - 1 >= limit /\ limit <= b - 1
  <2>1. b - 1 \in Buckets /\ (b - 1) + 1 = b
    BY <1>2, Sizes DEF Buckets
  <2> QED
    BY <1>2, <2>1, Sizes DEF Buckets
<1>4. /\ u \in Nodes(b - 1) /\ d \in Nodes(b)
      /\ (p = u /\ d = u + SizeOf(b)) \/ (p = u + SizeOf(b) /\ d = u)
  BY <1>2, UpperNode
<1>5. Unused(spare, top, d, b)
  BY <1>1, <1>2, ParentBit DEF Unused
<1>6. d < top
  <2>1. p < top /\ p \in Nat /\ u \in Nat /\ u <= p
    BY <1>2, <1>3, <1>4 DEF Nodes
  <2>2. Covers(<<0, limit>>, u) /\ 0 \in Nodes(limit)
    <3>1. 0 % top = 0 /\ MAX_ALLOC \in Nat \ {0}
      BY <1>3, Sizes DEF Buckets
    <3> QED
      BY <1>3, <2>1, <3>1 DEF Covers, Nodes
  <2>3. u + SizeOf(b - 1) <= 0 + top
    BY <1>3, <1>4, <2>2, NodeInBlock
  <2> QED
    BY <1>3, <1>4, <2>1, <2>3
<1>7. PICK block \in spare : Covers(block, d) /\ block[2] <= b
  BY <1>5, <1>6, <1>3, <1>4 DEF Unused, Nodes
<1>8. /\ block[2] \in Buckets /\ block[1] \in Nodes(block[2])
      /\ block = <<block[1], block[2]>> /\ block[2] \in Int
  <2>1. block = <<block[1], block[2]>>
    BY <1>1 DEF Laid
  <2>2. <<block[1], block[2]>> \in before
    BY <2>1
  <2> HIDE DEF before
  <2> QED
    BY <1>1, <2>1, <2>2, LaidBlock DEF Buckets
<1>9. block[2] = b
  <2>1. ASSUME block[2] < b
        PROVE  FALSE
    <3>1. block[2] <= b - 1
      BY <1>3, <1>8, <2>1
    <3>2. Covers(<<block[1], block[2]>>, u)
            <=> Covers(<<block[1], block[2]>>, u + SizeOf((b - 1) + 1))
      BY <1>2, <1>3, <1>4, <1>8, <3>1, HalvesInBlock
    <3>3. Covers(block, u) <=> Covers(block, u + SizeOf(b))
      BY <1>3, <1>8, <3>2
    <3> QED
      BY <1>2, <1>4, <1>7, <3>3
  <2> QED
    BY <1>3, <1>7, <1>8, <2>1
<1>10. D \in spare
  <2>1. Covers(<<block[1], b>>, d) <=> block[1] = d
    BY <1>2, <1>4, <1>8, <1>9, NodeIsBlock
  <2> QED
    BY <1>7, <1>8, <1>9, <2>1
<1>11. BitsAgree(rest, limit, Flipped(bits, p, b))
  <2>1. d + SizeOf(b) <= top
    <3>1. D \in before
      BY <1>10
    <3> HIDE DEF before
    <3> QED
      BY <1>1, <3>1, LaidBlock
  <2>2. \A c \in rest : \A x \in Nat : ~ (Covers(c, x) /\ Covers(D, x))
    <3>1. \A c \in rest : c \in before /\ c # D
      OBVIOUS
    <3>2. D \in before
      BY <1>10
    <3> HIDE DEF before, rest, D
    <3> QED
      BY <1>1, <3>1, <3>2, TiledApart
  <2>3. rest \cup {D} = spare
    BY <1>10
  <2>4. BitsAgree(rest, limit, Flipped(bits, d, b))
          <=> BitsAgree(rest \cup {D}, limit, Flipped(Flipped(bits, d, b), d, b))
    BY <1>2, <1>4, <2>1, <2>2, BitsFlip
  <2>5. Flipped(bits, d, b) = Flipped(bits, p, b)
    BY <1>2, BuddyTwice
  <2> QED
    BY <1>1, <2>3, <2>4, <2>5, FlipTwice
<1>12. Merged(rest, limit)
  BY <1>1 DEF Merged
<1>13. /\ Laid(rest \cup used \cup {U}, top) /\ Tiled(rest \cup used \cup {U}, top)
       /\ {U} \cap (rest \cup used) = {}
  <2> DEFINE L == <<u, b>>
             R == <<u + SizeOf(b), b>>
  <2>1. {L, R} = {B, D} /\ L \in before /\ R \in before
    BY <1>4, <1>10
  <2>2. Laid((before \ {L, R}) \cup {U}, top) /\ Tiled((before \ {L, R}) \cup {U}, top)
    <3> DEFINE c == (b - 1) + 1
    <3>1. /\ <<u, c>> \in before /\ <<u + SizeOf(c), c>> \in before /\ c \in Buckets
          /\ <<u, c>> = L /\ <<u + SizeOf(c), c>> = R
      BY <1>2, <1>3, <2>1
    <3> HIDE DEF before
    <3>2. Laid((before \ {<<u, c>>, <<u + SizeOf(c), c>>}) \cup {U}, top)
          /\ Tiled((before \ {<<u, c>>, <<u + SizeOf(c), c>>}) \cup {U}, top)
      BY <1>1, <1>3, <1>4, <3>1, JoinTiling
    <3> QED
      BY <3>1, <3>2
  <2>3. D \in spare /\ D \notin used /\ B \notin spare /\ B \notin used
    BY <1>1, <1>10
  <2>4. U \notin spare \cup used
    <3>1. u \in Nat /\ Covers(U, u)
      BY <1>3, <1>4 DEF Covers, Nodes
    <3>2. Covers(L, u) /\ L # U /\ L \in before
      BY <1>3, <1>4, <2>1 DEF Covers, Nodes
    <3>3. U \in before => U = L
      <4> HIDE DEF U, L, before
      <4> QED
        BY <1>1, <3>1, <3>2, TiledApart
    <3> QED
      BY <3>2, <3>3
  <2> HIDE DEF L, R, B, D, U
  <2>5. (before \ {L, R}) \cup {U} = rest \cup used \cup {U}
    BY <2>1, <2>3
  <2> QED
    BY <2>2, <2>4, <2>5
<1>14. rest \cap used = {}
  BY <1>1
<1> QED
  BY <1>10, <1>11, <1>12, <1>13, <1>14 DEF Tree

(* Returning the block in hand to its list when its buddy is not free      *)
LEMMA ReturnTree ==
  ASSUME NEW spare, NEW used, NEW limit \in Buckets, NEW bits, NEW p, NEW b,
         Tree(spare, used, {<<p, b>>}, limit, bits),
         b > limit => ~ parent_is_split(bits, node_for_ptr(p, b))
  PROVE  Tree(spare \cup {<<p, b>>}, used, {}, limit, Flipped(bits, p, b))
<1> DEFINE B == <<p, b>>
           d == Buddy(p, b)
           top == SizeOf(limit)
<1>1. /\ spare \cap used = {} /\ {B} \cap (spare \cup used) = {}
      /\ Laid(spare \cup used \cup {B}, top) /\ Tiled(spare \cup used \cup {B}, top)
      /\ BitsAgree(spare, limit, bits) /\ Merged(spare, limit)
  BY DEF Tree
<1>2. /\ b \in Buckets /\ p \in Nodes(b) /\ p + SizeOf(b) <= top /\ b >= limit
      /\ \A block \in spare : \A x \in Nat : ~ (Covers(block, x) /\ Covers(B, x))
      /\ ~ Unused(spare, top, p, b)
  BY HeldIsUsed
<1>3. BitsAgree(spare \cup {B}, limit, Flipped(bits, p, b))
  BY <1>1, <1>2, BitsFlip
<1>4. ASSUME b > limit
      PROVE  <<d, b>> \notin spare /\ d # p /\ d \in Nodes(b) /\ Buddy(d, b) = p /\ b > 0
  <2>1. b > 0
    BY <1>2, <1>4 DEF Buckets
  <2>2. d # p /\ d \in Nodes(b) /\ Buddy(d, b) = p
    BY <1>2, <2>1, BuddyTwice
  <2>3. ~ Unused(spare, top, d, b)
    <3>1. Unused(spare, top, d, b) \in BOOLEAN /\ Unused(spare, top, p, b) \in BOOLEAN
      BY DEF Unused
    <3>2. ~ parent_is_split(bits, node_for_ptr(p, b))
      BY <1>4
    <3>3. ~ (Unused(spare, top, p, b) # Unused(spare, top, d, b))
      BY <1>1, <1>2, <2>1, <3>2, ParentBit
    <3> QED
      BY <1>2, <3>1, <3>3
  <2>4. Covers(<<d, b>>, d)
    BY <1>2, <2>2, NodeIsBlock
  <2>5. <<d, b>> \notin spare
    <3>1. b <= b
      BY <1>2 DEF Buckets
    <3> QED
      BY <2>3, <2>4, <3>1 DEF Unused
  <2> QED
    BY <2>1, <2>2, <2>5
<1>5. Merged(spare \cup {B}, limit)
  <2>1. ASSUME NEW block \in spare, block[2] > limit,
               <<Buddy(block[1], block[2]), block[2]>> = B
        PROVE  FALSE
    <3>1. block = <<block[1], b>> /\ Buddy(block[1], b) = p /\ b > limit
      BY <1>1, <2>1 DEF Laid
    <3>2. block[1] \in Nodes(b)
      <4>1. <<block[1], b>> \in spare \cup used \cup {B}
        BY <3>1
      <4> QED
        BY <1>1, <4>1, LaidBlock
    <3>3. b > 0
      BY <1>4, <3>1
    <3>4. Buddy(p, b) = block[1]
      BY <1>2, <3>1, <3>2, <3>3, BuddyTwice
    <3> QED
      BY <1>4, <3>1, <3>4
  <2>2. \A block \in spare : block[2] > limit
          => <<Buddy(block[1], block[2]), block[2]>> \notin spare
    BY <1>1 DEF Merged
  <2>3. b > limit => <<Buddy(B[1], B[2]), B[2]>> \notin spare \cup {B}
    BY <1>4
  <2>4. B[2] = b
    OBVIOUS
  <2> HIDE DEF B
  <2> QED
    BY <2>1, <2>2, <2>3, <2>4 DEF Merged
<1> HIDE DEF B
<1>6. /\ (spare \cup {B}) \cap used = {}
      /\ (spare \cup {B}) \cup used \cup {} = spare \cup used \cup {B}
  BY <1>1
<1> QED
  BY <1>1, <1>3, <1>5, <1>6 DEF Tree, B

(* The block in hand becomes an allocation, and back.                      *)
LEMMA GiveTree ==
  ASSUME NEW spare, NEW used, NEW limit, NEW bits, NEW block,
         Tree(spare, used, {block}, limit, bits)
  PROVE  Tree(spare, used \cup {block}, {}, limit, bits)
<1>1. spare \cup used \cup {block} = spare \cup (used \cup {block}) \cup {}
  OBVIOUS
<1>2. spare \cap (used \cup {block}) = {}
  BY DEF Tree
<1> QED
  BY <1>1, <1>2 DEF Tree

(* An allocation that is freed becomes the block in hand.                  *)
LEMMA FreeTree ==
  ASSUME NEW spare, NEW used, NEW limit, NEW bits, NEW block \in used,
         Tree(spare, used, {}, limit, bits)
  PROVE  Tree(spare, used \ {block}, {block}, limit, bits)
<1>1. spare \cup (used \ {block}) \cup {block} = spare \cup used \cup {}
  OBVIOUS
<1>2. /\ spare \cap (used \ {block}) = {}
      /\ {block} \cap (spare \cup (used \ {block})) = {}
  BY DEF Tree
<1> QED
  BY <1>1, <1>2 DEF Tree

(* When the whole tree is one free block, every bit is off.                *)
LEMMA WholeBits ==
  ASSUME NEW limit \in Buckets, NEW bits
  PROVE  BitsAgree({<<0, limit>>}, limit, bits)
           <=> \A c \in 0 .. BUCKET_COUNT - 2 : \A q \in Nodes(c) :
                 node_for_ptr(q, c) \notin bits
<1> DEFINE Free(x, c) == Unused({<<0, limit>>}, SizeOf(limit), x, c)
<1>1. ASSUME NEW c \in 0 .. BUCKET_COUNT - 2, NEW q \in Nodes(c), c >= limit - 1
      PROVE  ~ Differ({<<0, limit>>}, SizeOf(limit), q, c)
  <2>1. c + 1 >= limit /\ SizeOf(limit) \in Nat /\ SizeOf(c + 1) \in Nat
    <3>1. c + 1 \in Buckets /\ limit \in Int /\ c \in Int
      BY Sizes DEF Buckets
    <3> QED
      BY <1>1, <3>1, Sizes
  <2>2. \A x \in Nat : Free(x, c + 1)
    BY <2>1 DEF Unused, Covers
  <2>3. q \in Nat /\ q + SizeOf(c + 1) \in Nat
    BY <2>1 DEF Nodes
  <2>4. Free(q, c + 1) /\ Free(q + SizeOf(c + 1), c + 1)
    BY <2>2, <2>3
  <2>5. Free(q, c + 1) \in BOOLEAN /\ Free(q + SizeOf(c + 1), c + 1) \in BOOLEAN
    BY DEF Unused
  <2> HIDE DEF Free
  <2>6. ~ (Free(q, c + 1) # Free(q + SizeOf(c + 1), c + 1))
    BY <2>4, <2>5
  <2> QED
    BY <2>6 DEF Differ, Free
<1> QED
  BY <1>1 DEF BitsAgree

(* The root of the tree is the left half of its parent.                    *)
LEMMA RootNode ==
  ASSUME NEW limit \in Buckets
  PROVE  /\ 0 \in Nodes(limit)
         /\ limit > 0 => /\ limit - 1 \in Buckets /\ SizeOf(limit - 1) = 2 * SizeOf(limit)
                         /\ Upper(0, limit) = 0 /\ Buddy(0, limit) = SizeOf(limit)
                         /\ Parent(node_for_ptr(0, limit)) = node_for_ptr(0, limit - 1)
<1>1. SizeOf(limit) \in Nat \ {0} /\ MAX_ALLOC \in Nat \ {0} /\ 0 % SizeOf(limit) = 0
  BY Sizes DEF Buckets
<1>2. 0 \in Nodes(limit)
  BY <1>1 DEF Nodes
<1>3. ASSUME limit > 0
      PROVE  /\ limit - 1 \in Buckets /\ SizeOf(limit - 1) = 2 * SizeOf(limit)
             /\ Upper(0, limit) = 0 /\ Buddy(0, limit) = SizeOf(limit)
             /\ Parent(node_for_ptr(0, limit)) = node_for_ptr(0, limit - 1)
  <2>1. limit - 1 \in Buckets /\ (limit - 1) + 1 = limit
    BY <1>3, Sizes DEF Buckets
  <2>2. SizeOf(limit - 1) = 2 * SizeOf(limit) /\ SizeOf(limit - 1) \in Nat \ {0}
    BY <2>1, Sizes
  <2>3. Upper(0, limit) = 0 /\ Buddy(0, limit) = SizeOf(limit)
    <3>1. 0 % SizeOf(limit - 1) = 0 /\ 0 + SizeOf(limit) = SizeOf(limit)
      BY <1>1, <2>2
    <3> QED
      BY <3>1 DEF Upper, Buddy
  <2> QED
    BY <1>2, <1>3, <2>1, <2>2, <2>3, UpperNode
<1> QED
  BY <1>2, <1>3

(* The bit of the parent of the root tells whether the whole tree is free. *)
LEMMA RootBit ==
  ASSUME NEW spare, NEW used, NEW held, NEW limit \in Buckets, NEW bits, limit > 0,
         Tree(spare, used, held, limit, bits)
  PROVE  /\ parent_is_split(bits, node_for_ptr(0, limit)) <=> <<0, limit>> \notin spare
         /\ <<0, limit>> \in spare => spare = {<<0, limit>>} /\ used = {} /\ held = {}
<1> DEFINE top == SizeOf(limit)
           R == <<0, limit>>
           blocks == spare \cup used \cup held
           Free(x) == Unused(spare, top, x, limit)
<1>1. /\ spare \cap used = {} /\ held \cap (spare \cup used) = {}
      /\ Laid(blocks, top) /\ Tiled(blocks, top) /\ BitsAgree(spare, limit, bits)
  BY DEF Tree
<1>2. top \in Nat \ {0} /\ 0 \in Nodes(limit) /\ Buddy(0, limit) = top /\ limit \in Int
      /\ Covers(R, 0) /\ \A x \in Nat : Covers(R, x) <=> x < top
  BY Sizes, RootNode DEF Covers, Buckets
<1>3. Free(top) /\ \A x : Free(x) \in BOOLEAN
  BY <1>2 DEF Unused
<1>4. ASSUME NEW block \in blocks
      PROVE  /\ block = <<block[1], block[2]>> /\ block[2] \in Buckets
             /\ block[1] \in Nat /\ block[1] \in Nodes(block[2]) /\ block[2] >= limit
             /\ Covers(block, block[1]) /\ block[1] < top
  <2>1. block = <<block[1], block[2]>>
    BY <1>1 DEF Laid
  <2>2. <<block[1], block[2]>> \in blocks
    BY <2>1
  <2>3. /\ block[2] \in Buckets /\ block[1] \in Nat /\ block[2] >= limit
        /\ block[1] \in Nodes(block[2])
        /\ Covers(<<block[1], block[2]>>, block[1])
        /\ block[1] + SizeOf(block[2]) <= top
    <3> HIDE DEF blocks
    <3> QED
      BY <1>1, <2>2, LaidBlock
  <2>4. SizeOf(block[2]) \in Nat \ {0}
    BY <2>3, Sizes
  <2> QED
    BY <1>2, <2>1, <2>3, <2>4
<1>5. Free(0) <=> R \in spare
  <2>1. ASSUME Free(0)
        PROVE  R \in spare
    <3>1. PICK block \in spare : Covers(block, 0) /\ block[2] <= limit
      BY <1>2, <2>1 DEF Unused
    <3>2. block[2] = limit /\ block[1] \in Nat /\ block = <<block[1], block[2]>>
      BY <1>2, <1>4, <3>1 DEF Buckets
    <3>3. block[1] = 0
      BY <3>1, <3>2 DEF Covers
    <3> QED
      BY <3>1, <3>2, <3>3
  <2>2. R \in spare => Free(0)
    BY <1>2 DEF Unused
  <2> QED
    BY <2>1, <2>2
<1>6. parent_is_split(bits, node_for_ptr(0, limit)) <=> (Free(0) # Free(top))
  <2>1. limit >= limit
    BY <1>2
  <2> QED
    BY <1>1, <1>2, <2>1, ParentBit
<1>7. ASSUME R \in spare, NEW block \in blocks
      PROVE  block = R
  <2>1. Covers(R, block[1]) /\ Covers(block, block[1]) /\ block[1] \in Nat /\ R \in blocks
    BY <1>2, <1>4, <1>7
  <2> HIDE DEF blocks
  <2> QED
    BY <1>1, <2>1, TiledApart
<1> HIDE DEF Free, R, top
<1>8. parent_is_split(bits, node_for_ptr(0, limit)) <=> R \notin spare
  BY <1>3, <1>5, <1>6
<1>9. R \in spare => spare = {R} /\ used = {} /\ held = {}
  BY <1>1, <1>7
<1> QED
  BY <1>8, <1>9 DEF R

(* A tree that is free as a whole is doubled.                              *)
LEMMA GrowFreeTree ==
  ASSUME NEW limit \in Buckets, limit > 0, NEW bits,
         Tree({<<0, limit>>}, {}, {}, limit, bits)
  PROVE  Tree({<<0, limit - 1>>}, {}, {}, limit - 1, bits)
<1> DEFINE R == <<0, limit - 1>>
<1>1. limit - 1 \in Buckets
  BY RootNode
<1>2. BitsAgree({R}, limit - 1, bits)
  BY <1>1, WholeBits DEF Tree
<1>3. Laid({R}, SizeOf(limit - 1)) /\ Tiled({R}, SizeOf(limit - 1))
  BY <1>1, WholeTiling
<1>4. Merged({R}, limit - 1)
  BY <1>1 DEF Merged, Buckets
<1>5. {R} \cap {} = {} /\ {} \cap ({R} \cup {}) = {} /\ {R} \cup {} \cup {} = {R}
  OBVIOUS
<1> QED
  BY <1>2, <1>3, <1>4, <1>5 DEF Tree

(* The tree of the first call                                              *)
LEMMA FirstTree ==
  ASSUME NEW limit \in Buckets
  PROVE  Tree({<<0, limit>>}, {}, {}, limit, {})
<1> DEFINE R == <<0, limit>>
<1>1. BitsAgree({R}, limit, {})
  BY WholeBits
<1>2. Laid({R}, SizeOf(limit)) /\ Tiled({R}, SizeOf(limit))
  BY WholeTiling
<1>3. Merged({R}, limit)
  BY DEF Merged, Buckets
<1>4. {R} \cap {} = {} /\ {} \cap ({R} \cup {}) = {} /\ {R} \cup {} \cup {} = {R}
  OBVIOUS
<1> QED
  BY <1>1, <1>2, <1>3, <1>4 DEF Tree

(* A new free block behind the tree: the bit of the parent of the new root *)
(* is on, because what lies behind the new tree counts as free.            *)
LEMMA GrowBits ==
  ASSUME NEW spare, NEW limit \in Buckets, limit > 0, NEW bits,
         Laid(spare, SizeOf(limit)), BitsAgree(spare, limit, bits)
  PROVE  BitsAgree(spare \cup {<<SizeOf(limit), limit>>}, limit - 1,
                   Flipped(bits, 0, limit - 1))
<1> DEFINE t == SizeOf(limit)
           N == <<t, limit>>
           after == spare \cup {N}
           New == Flipped(bits, 0, limit - 1)
           top == SizeOf(limit - 1)
<1>1. /\ limit - 1 \in Buckets /\ top = 2 * t /\ t \in Nat \ {0} /\ limit \in Nat
      /\ 0 \in Nodes(limit - 1)
  BY Sizes, RootNode DEF Buckets
<1>2. \A x \in Int : Covers(N, x) <=> t <= x /\ x < 2 * t
  BY <1>1 DEF Covers
<1>3. \A block \in spare : block[2] \in Buckets /\ block[2] >= limit
  <2>1. ASSUME NEW block \in spare
        PROVE  block[2] \in Buckets /\ block[2] >= limit
    <3>1. block = <<block[1], block[2]>>
      BY DEF Laid
    <3> QED
      BY <3>1, LaidBlock
  <2> QED
    BY <2>1
<1>4. ASSUME NEW c \in 0 .. BUCKET_COUNT - 2
      PROVE  c \in Buckets /\ c + 1 \in Buckets /\ c \in Nat
             /\ SizeOf(c + 1) \in Nat /\ SizeOf(c) = 2 * SizeOf(c + 1)
  BY Sizes DEF Buckets
<1>5. ASSUME NEW c \in Buckets, NEW q \in Nodes(c)
      PROVE  node_for_ptr(q, c) \in New <=>
               IF c = limit - 2 /\ q = 0 THEN node_for_ptr(q, c) \notin bits
                                         ELSE node_for_ptr(q, c) \in bits
  <2> DEFINE n == node_for_ptr(q, c)
  <2>1. CASE limit = 1
    <3>1. limit - 1 = 0 /\ limit - 2 = -1 /\ c # -1
      BY <2>1 DEF Buckets
    <3>2. node_for_ptr(0, limit - 1) = 0
      BY <1>1, <3>1, NodeZero
    <3> QED
      BY <3>1, <3>2 DEF Flipped
  <2>2. CASE limit > 1
    <3> DEFINE m == Parent(node_for_ptr(0, limit - 1))
    <3>1. limit - 1 > 0 /\ (limit - 1) - 1 = limit - 2
      BY <1>1, <2>2
    <3>2. node_for_ptr(0, limit - 1) # 0
      BY <1>1, <3>1, NodeZero
    <3>3. m = node_for_ptr(0, limit - 2) /\ limit - 2 \in Buckets
      BY <1>1, <3>1, RootNode
    <3>4. n = m <=> c = limit - 2 /\ q = 0
      BY <3>3, RootNode, NodesDiffer
    <3>5. New = IF m \in bits THEN bits \ {m} ELSE bits \cup {m}
      BY <3>2 DEF Flipped, flip_parent_is_split
    <3> HIDE DEF m, n, New
    <3>6. n \in New <=> IF n = m THEN n \notin bits ELSE n \in bits
      BY <3>5
    <3>7. n \in New <=> IF c = limit - 2 /\ q = 0 THEN n \notin bits ELSE n \in bits
      BY <3>4, <3>6
    <3> QED
      BY <3>7 DEF n
  <2> QED
    BY <1>1, <2>1, <2>2
<1> HIDE DEF New
<1>6. ASSUME NEW c \in 0 .. BUCKET_COUNT - 2, NEW q \in Nodes(c), c >= limit - 1
      PROVE  Differ(after, top, q, c) = Differ(spare, t, q, c)
  <2>1. \A x \in Nat : Unused(after, top, x, c + 1) = Unused(spare, t, x, c + 1)
    <3>1. limit <= c + 1
      BY <1>1, <1>4, <1>6
    <3>2. ASSUME NEW x \in Nat
          PROVE  Unused(after, top, x, c + 1) <=> Unused(spare, t, x, c + 1)
      <4>1. Unused(after, top, x, c + 1) <=>
              \/ x >= top
              \/ \E block \in spare : Covers(block, x) /\ block[2] <= c + 1
              \/ Covers(N, x) /\ limit <= c + 1
        BY DEF Unused
      <4>2. x >= top \/ Covers(N, x) <=> x >= t
        BY <1>1, <1>2
      <4> QED
        BY <3>1, <4>1, <4>2 DEF Unused
    <3>3. \A x : Unused(after, top, x, c + 1) \in BOOLEAN
                 /\ Unused(spare, t, x, c + 1) \in BOOLEAN
      BY DEF Unused
    <3> QED
      BY <3>2, <3>3
  <2>2. q \in Nat /\ q + SizeOf(c + 1) \in Nat
    BY <1>4 DEF Nodes
  <2> HIDE DEF after, top, t
  <2> QED
    BY <2>1, <2>2 DEF Differ
<1>7. ASSUME NEW c \in 0 .. BUCKET_COUNT - 2, NEW q \in Nodes(c), c = limit - 2
      PROVE  Differ(after, top, q, c) <=> q = 0
  <2> DEFINE Free(x) == Unused(after, top, x, c + 1)
  <2>1. c + 1 = limit - 1 /\ SizeOf(c + 1) = top
    BY <1>1, <1>7
  <2>2. ~ Free(0)
    <3>1. ~ Covers(N, 0) /\ ~ (0 >= top)
      BY <1>1, <1>2
    <3>2. \A block \in spare : ~ (block[2] <= c + 1)
      BY <1>1, <1>3, <2>1 DEF Buckets
    <3> QED
      BY <3>1, <3>2 DEF Unused
  <2>3. \A x \in Nat : x >= top => Free(x)
    BY DEF Unused
  <2>4. \A x : Free(x) \in BOOLEAN
    BY DEF Unused
  <2>5. q # 0 => q >= top
    <3>1. q \in Nat /\ q % SizeOf(c) = 0 /\ SizeOf(c) \in Nat \ {0} /\ 0 % SizeOf(c) = 0
      BY <1>4, Sizes DEF Nodes
    <3>2. q # 0 => 0 + SizeOf(c) <= q
      BY <3>1, MultipleGap
    <3> QED
      BY <1>1, <1>4, <2>1, <3>1, <3>2
  <2>6. q \in Nat /\ q + top \in Nat /\ q + top >= top /\ 0 + top >= top /\ top \in Nat /\ 0 + top \in Nat
    BY <1>1 DEF Nodes
  <2>7. Differ(after, top, q, c) = (Free(q) # Free(q + top))
    BY <2>1 DEF Differ
  <2> HIDE DEF Free, top, after
  <2>8. Free(q + top) = TRUE
    BY <2>3, <2>4, <2>6
  <2>9. q # 0 => Free(q) = TRUE
    BY <2>3, <2>4, <2>5, <2>6
  <2>10. Free(0) = FALSE
    BY <2>2, <2>4
  <2> QED
    BY <2>7, <2>8, <2>9, <2>10
<1>8. ASSUME NEW c \in 0 .. BUCKET_COUNT - 2, NEW q \in Nodes(c)
      PROVE  node_for_ptr(q, c) \in New
               <=> c >= (limit - 1) - 1 /\ Differ(after, top, q, c)
  <2>1. node_for_ptr(q, c) \in bits <=> c >= limit - 1 /\ Differ(spare, t, q, c)
    BY DEF BitsAgree
  <2>2. CASE c >= limit - 1
    <3>1. c # limit - 2 /\ c >= (limit - 1) - 1
      BY <1>1, <1>4, <2>2
    <3> QED
      BY <1>4, <1>5, <1>6, <2>1, <2>2, <3>1
  <2>3. CASE c = limit - 2
    <3>1. ~ (c >= limit - 1) /\ c >= (limit - 1) - 1
      BY <1>1, <1>4, <2>3
    <3>2. node_for_ptr(q, c) \notin bits
      BY <2>1, <3>1
    <3>3. node_for_ptr(q, c) \in New <=> q = 0
      BY <1>4, <1>5, <2>3, <3>2
    <3>4. Differ(after, top, q, c) <=> q = 0
      BY <1>7, <2>3
    <3> HIDE DEF after, top
    <3> QED
      BY <3>1, <3>3, <3>4
  <2>4. CASE c < limit - 2
    <3>1. ~ (c >= limit - 1) /\ ~ (c >= (limit - 1) - 1) /\ c # limit - 2
      BY <1>1, <1>4, <2>4
    <3> QED
      BY <1>4, <1>5, <2>1, <3>1
  <2> QED
    BY <1>1, <1>4, <2>2, <2>3, <2>4
<1> HIDE DEF after, top
<1>9. BitsAgree(after, limit - 1, New)
  BY <1>8 DEF BitsAgree, top
<1> QED
  BY <1>9 DEF after, New

(* A tree that is in use becomes the left half of a larger one, and the    *)
(* right half is a free block.                                             *)
LEMMA GrowUsedTree ==
  ASSUME NEW spare, NEW used, NEW limit \in Buckets, limit > 0, NEW bits,
         Tree(spare, used, {}, limit, bits), <<0, limit>> \notin spare
  PROVE  LET right == <<SizeOf(limit), limit>> IN
         /\ right \notin spare
         /\ Tree(spare \cup {right}, used, {}, limit - 1, Flipped(bits, 0, limit - 1))
<1> DEFINE N == <<SizeOf(limit), limit>>
           blocks == spare \cup used \cup {}
<1>1. /\ spare \cap used = {} /\ Laid(blocks, SizeOf(limit)) /\ Tiled(blocks, SizeOf(limit))
      /\ BitsAgree(spare, limit, bits) /\ Merged(spare, limit)
  BY DEF Tree
<1>2. /\ limit - 1 \in Buckets /\ SizeOf(limit) \in Nat \ {0} /\ limit \in Nat
      /\ 0 \in Nodes(limit) /\ Buddy(0, limit) = SizeOf(limit)
  BY Sizes, RootNode DEF Buckets
<1>3. N \notin blocks
  <2>1. ASSUME N \in blocks PROVE FALSE
    <3>1. N[1] + SizeOf(N[2]) <= SizeOf(limit)
      BY <1>1, <2>1 DEF Laid
    <3> QED
      BY <1>2, <3>1
  <2> QED
    BY <2>1
<1>4. /\ Laid(blocks \cup {N}, SizeOf(limit - 1))
      /\ Tiled(blocks \cup {N}, SizeOf(limit - 1))
  <2> HIDE DEF blocks
  <2> QED
    BY <1>1, GrowTiling
<1>5. BitsAgree(spare \cup {N}, limit - 1, Flipped(bits, 0, limit - 1))
  <2>1. Laid(spare, SizeOf(limit))
    BY <1>1 DEF Laid
  <2> QED
    BY <1>1, <2>1, GrowBits
<1>6. Merged(spare \cup {N}, limit - 1)
  <2>1. Buddy(SizeOf(limit), limit) = 0
    BY <1>2, BuddyTwice
  <2>2. <<Buddy(N[1], N[2]), N[2]>> = <<0, limit>>
    BY <2>1
  <2>3. ASSUME NEW block \in spare, block[2] > limit - 1
        PROVE  <<Buddy(block[1], block[2]), block[2]>> \notin spare \cup {N}
    <3>1. block = <<block[1], block[2]>>
      BY <1>1 DEF Laid
    <3>2. <<block[1], block[2]>> \in blocks
      BY <3>1
    <3>3. /\ block[2] \in Buckets /\ block[1] \in Nat
          /\ block[1] + SizeOf(block[2]) <= SizeOf(limit)
      <4> HIDE DEF blocks
      <4> QED
        BY <1>1, <3>2, LaidBlock
    <3>4. block[2] # limit
      <4>1. ASSUME block[2] = limit PROVE FALSE
        <5>1. block[1] = 0
          BY <1>2, <3>3, <4>1
        <5> QED
          BY <3>1, <4>1, <5>1
      <4> QED
        BY <4>1
    <3>5. block[2] > limit
      BY <1>2, <2>3, <3>3, <3>4 DEF Buckets
    <3>6. <<Buddy(block[1], block[2]), block[2]>> # N
      BY <3>4
    <3> QED
      BY <1>1, <3>5, <3>6 DEF Merged
  <2>4. <<0, limit>> # N /\ <<0, limit>> \notin spare
    BY <1>2
  <2> HIDE DEF N
  <2> QED
    BY <2>2, <2>3, <2>4 DEF Merged
<1> HIDE DEF N
<1>7. /\ (spare \cup {N}) \cup used \cup {} = blocks \cup {N}
      /\ (spare \cup {N}) \cap used = {}
  BY <1>1, <1>3
<1> QED
  BY <1>3, <1>4, <1>5, <1>6, <1>7 DEF Tree, N

-----------------------------------------------------------------------------
\* States

(* What the steps use of the invariant                                     *)
LEMMA HeapFacts ==
  ASSUME HeapInv, base_ptr
  PROVE  /\ Lists(buckets) /\ FreeBlocks = FreeOf(buckets)
         /\ bucket_limit \in Buckets /\ node_is_split \subseteq SplitNodes
         /\ Tree(FreeOf(buckets), UsedBlocks, HeldBlocks, bucket_limit, node_is_split)
         /\ max_ptr \in Nat /\ max_ptr <= MAX_ALLOC
         /\ \A b \in Buckets : buckets[b] \in Seq(Offsets)
<1>1. FreeBlocks = FreeOf(buckets)
  BY DEF FreeBlocks, FreeOf
<1>2. TreeInv /\ TypeOK
  BY DEF HeapInv
<1>3. Lists(buckets)
  BY <1>2 DEF TypeOK, TreeInv, Lists, Offsets
<1>4. max_ptr \in Nat /\ max_ptr <= MAX_ALLOC
  <2>1. MAX_ALLOC \in Nat
    BY Sizes DEF Buckets
  <2> QED
    BY <1>2, <2>1 DEF TypeOK
<1> QED
  BY <1>1, <1>2, <1>3, <1>4 DEF TypeOK, TreeInv, SplitNodes, Lists

(* The tree after a step, with the ranges that follow from the tiling: no  *)
(* list of a bucket above the root holds an entry.                         *)
LEMMA TreeNext ==
  ASSUME Lists(buckets'), bucket_limit' \in Buckets, node_is_split' \subseteq SplitNodes,
         Tree(FreeOf(buckets'), UsedBlocks', HeldBlocks', bucket_limit', node_is_split')
  PROVE  /\ TreeInv' /\ FreeBlocks' = FreeOf(buckets')
         /\ buckets' \in [Buckets -> Seq(0 .. MAX_ALLOC - MIN_ALLOC)]
         /\ \A b \in 0 .. bucket_limit' - 1 : buckets'[b] = <<>>
         /\ node_is_split' \subseteq 0 .. 2 ^ (BUCKET_COUNT - 1) - 2
<1>1. FreeBlocks' = FreeOf(buckets')
  BY DEF FreeBlocks, FreeOf
<1>2. TreeInv'
  BY <1>1 DEF TreeInv, Lists
<1>3. ASSUME NEW b \in 0 .. bucket_limit' - 1
      PROVE  buckets'[b] = <<>>
  <2>1. b \in Buckets /\ ~ (b >= bucket_limit')
    <3>1. \A limit \in Buckets : \A c \in 0 .. limit - 1 : c \in Buckets /\ ~ (c >= limit)
      BY Sizes DEF Buckets
    <3> QED
      BY <3>1
  <2>2. buckets'[b] \in Seq(Offsets)
    BY <2>1 DEF Lists
  <2>3. ASSUME buckets'[b] # <<>> PROVE FALSE
    <3>1. Last(buckets'[b]) \in ToSet(buckets'[b])
      BY <2>2, <2>3, LastEntry
    <3>2. <<Last(buckets'[b]), b>> \in FreeOf(buckets')
      BY <2>1, <3>1, FreeMember
    <3>3. Laid(FreeOf(buckets') \cup UsedBlocks' \cup HeldBlocks', SizeOf(bucket_limit'))
      BY DEF Tree
    <3>4. b >= bucket_limit'
      <4>1. <<Last(buckets'[b]), b>> \in FreeOf(buckets') \cup UsedBlocks' \cup HeldBlocks'
        BY <3>2
      <4> QED
        BY <3>3, <4>1, LaidBlock
    <3> QED
      BY <2>1, <3>4
  <2> QED
    BY <2>3
<1> QED
  BY <1>1, <1>2, <1>3 DEF Lists, Offsets, SplitNodes

(* While a call is running, or an allocation is live, the tree is set up.  *)
LEMMA SetUp ==
  ASSUME HeapInv, run.pc # "idle" \/ DOMAIN header # {}
  PROVE  base_ptr
BY DEF HeapInv, Untouched

(* A request that is too large is answered with NULL.                      *)
LEMMA TooLargeStep ==
  ASSUME HeapInv, NEW request \in Requests, malloc_too_large(request)
  PROVE  HeapInv'
<1>1. /\ run.pc = "idle" /\ WithHeader(request) > MAX_ALLOC /\ run' = Done(request, NULL)
      /\ base_ptr' = base_ptr /\ buckets' = buckets /\ bucket_limit' = bucket_limit
      /\ node_is_split' = node_is_split /\ max_ptr' = max_ptr /\ header' = header
  BY DEF malloc_too_large, tree
<1>2. run'.pc = "idle" /\ run'.request = request
  BY <1>1 DEF Done
<1>3. /\ FreeBlocks' = FreeBlocks /\ UsedBlocks' = UsedBlocks
      /\ HeldBlocks = {} /\ HeldBlocks' = {}
  BY <1>1, <1>2 DEF FreeBlocks, UsedBlocks, HeldBlocks
<1>4. TypeOK'
  <2>1. run' \in [pc : {"idle", "search", "grow", "split", "coalesce"},
               request : SIZE_T, bucket : Buckets, original : Buckets,
               ptr : {NULL} \cup 0 .. MAX_ALLOC]
    <3>1. 0 \in Buckets /\ request \in SIZE_T
      BY Sizes, HeapAssumption DEF Buckets
    <3> QED
      BY <1>1, <3>1 DEF Done
  <2> QED
    BY <1>1, <2>1 DEF TypeOK, HeapInv
<1>5. (IF base_ptr THEN TreeInv ELSE Untouched)'
  BY <1>1, <1>2, <1>3 DEF HeapInv, TreeInv, Untouched
<1>6. BreakInv'
  BY <1>1, <1>2, <1>3 DEF HeapInv, BreakInv, Reserved
<1>7. HeaderInv'
  BY <1>1 DEF HeapInv, HeaderInv
<1>8. SearchInv'
  BY <1>2 DEF SearchInv
<1>9. NullOnlyWhenExhausted'
  BY <1>1, <1>2 DEF NullOnlyWhenExhausted
<1> QED
  BY <1>4, <1>5, <1>6, <1>7, <1>8, <1>9 DEF HeapInv

(* The break only moves up, and as far as it is asked to.                  *)
LEMMA MaxPtr ==
  ASSUME NEW v \in Int, max_ptr \in Int
  PROVE  /\ update_max_ptr(v) \in Int
         /\ update_max_ptr(v) >= v /\ update_max_ptr(v) >= max_ptr
         /\ update_max_ptr(v) \in {v, max_ptr}
BY DEF update_max_ptr

(* What malloc searches for                                                *)
LEMMA RequestBucket ==
  ASSUME NEW request \in SIZE_T, WithHeader(request) <= MAX_ALLOC
  PROVE  LET bucket == bucket_for_request(WithHeader(request)) IN
         bucket \in Buckets /\ WithHeader(request) <= SizeOf(bucket)
BY WithHeaderType, BucketForRequest

(* Before the first allocation no block is free or used.                   *)
LEMMA FirstLists ==
  ASSUME Untouched, TypeOK
  PROVE  /\ FreeOf(buckets) = {} /\ UsedBlocks = {} /\ HeldBlocks = {}
         /\ Lists(buckets)
<1>1. \A b \in Buckets : buckets[b] = <<>>
  BY DEF Untouched
<1>2. ToSet(<<>>) = {} /\ IsInjective(<<>>)
  BY DEF ToSet, IsInjective
<1>3. FreeOf(buckets) = {}
  BY <1>1, <1>2 DEF FreeOf
<1>4. UsedBlocks = {} /\ HeldBlocks = {}
  BY DEF Untouched, UsedBlocks, HeldBlocks
<1>5. Lists(buckets)
  BY <1>1, <1>2 DEF Lists, TypeOK, Offsets
<1> QED
  BY <1>3, <1>4, <1>5

(* The first call sets the tree up.                                        *)
LEMMA FirstStep ==
  ASSUME HeapInv, NEW request \in Requests, malloc(request), ~ base_ptr
  PROVE  /\ base_ptr' /\ bucket_limit' \in Buckets /\ Lists(buckets')
         /\ max_ptr' \in Nat /\ max_ptr' <= MAX_ALLOC
         /\ FreeOf(buckets') = {<<0, bucket_limit'>>} /\ UsedBlocks' = {}
         /\ Tree(FreeOf(buckets'), {}, {}, bucket_limit', node_is_split')
         /\ node_is_split' = {}
         /\ LIST_SIZE <= max_ptr'
<1> DEFINE last == BUCKET_COUNT - 1
<1>1. /\ base_ptr' = TRUE /\ bucket_limit' = last
      /\ max_ptr' = update_max_ptr(LIST_SIZE)
      /\ buckets' = [buckets EXCEPT ![last] = <<0>>]
      /\ node_is_split' = node_is_split /\ header' = header
  BY DEF malloc
<1>2. Untouched /\ TypeOK
  BY DEF HeapInv
<1>3. last \in Buckets /\ 0 \in Offsets /\ MAX_ALLOC \in Nat /\ MIN_ALLOC \in Nat
      /\ MIN_ALLOC <= MAX_ALLOC
  <2>1. last \in Buckets /\ 0 \in Buckets /\ 0 <= last
    BY Sizes DEF Buckets
  <2>2. SizeOf(last) <= SizeOf(0) /\ SizeOf(last) \in Nat /\ SizeOf(0) \in Nat
    BY <2>1, Sizes, LaterSizes
  <2> QED
    BY <2>1, <2>2, Sizes DEF Offsets
<1>4. FreeOf(buckets) = {} /\ Lists(buckets) /\ buckets[last] = <<>>
  BY <1>2, <1>3, FirstLists DEF Untouched
<1>5. buckets' = list_push(buckets, last, 0)
  <2>1. Append(<<>>, 0) = <<0>>
    OBVIOUS
  <2> QED
    BY <1>1, <1>4, <2>1 DEF list_push
<1>6. Lists(buckets') /\ FreeOf(buckets') = {} \cup {<<0, last>>}
  BY <1>3, <1>4, <1>5, PushFrees
<1>7. UsedBlocks' = {} /\ node_is_split' = {}
  BY <1>1, <1>2 DEF Untouched, UsedBlocks
<1>8. Tree({<<0, last>>}, {}, {}, last, {})
  BY <1>3, FirstTree
<1>9. max_ptr' \in Nat /\ max_ptr' <= MAX_ALLOC /\ LIST_SIZE <= max_ptr'
  <2>1. LIST_SIZE \in Int /\ max_ptr \in Int /\ LIST_SIZE <= MAX_ALLOC /\ max_ptr >= 0
        /\ max_ptr <= MAX_ALLOC /\ LIST_SIZE >= 0
    BY <1>2, <1>3, HeapAssumption DEF TypeOK
  <2> QED
    BY <1>1, <1>3, <2>1, MaxPtr
<1>10. {} \cup {<<0, last>>} = {<<0, last>>}
  OBVIOUS
<1> QED
  BY <1>1, <1>3, <1>6, <1>7, <1>8, <1>9, <1>10

(* A call of malloc begins with the search in the bucket of its size.      *)
LEMMA MallocStep ==
  ASSUME HeapInv, NEW request \in Requests, malloc(request)
  PROVE  HeapInv'
<1> DEFINE size == WithHeader(request)
           bucket == bucket_for_request(size)
<1>1. /\ run.pc = "idle" /\ size <= MAX_ALLOC /\ header' = header
      /\ run' = [pc |-> "search", request |-> request, bucket |-> bucket,
                 original |-> bucket, ptr |-> NULL]
  BY DEF malloc
<1>2. request \in SIZE_T
  BY HeapAssumption
<1>3. bucket \in Buckets
  BY <1>1, <1>2, RequestBucket
<1> HIDE DEF bucket, size
<1>4. /\ run'.pc = "search" /\ run'.bucket = bucket /\ run'.original = bucket
      /\ run'.request = request
  BY <1>1
<1>5. HeldBlocks = {} /\ HeldBlocks' = {} /\ UsedBlocks' = UsedBlocks
  BY <1>1, <1>4 DEF HeldBlocks, UsedBlocks
<1>6. /\ base_ptr' /\ bucket_limit' \in Buckets /\ Lists(buckets')
      /\ max_ptr' \in Nat /\ max_ptr' <= MAX_ALLOC /\ node_is_split' \subseteq SplitNodes
      /\ Tree(FreeOf(buckets'), UsedBlocks', HeldBlocks', bucket_limit', node_is_split')
      /\ base_ptr' = TRUE
      /\ \A block \in FreeOf(buckets') : block[1] + LIST_SIZE <= max_ptr'
      /\ \A block \in UsedBlocks' : block[1] + SizeOf(block[2]) <= max_ptr'
  <2>1. CASE base_ptr
    <3>1. /\ base_ptr' = base_ptr /\ buckets' = buckets /\ bucket_limit' = bucket_limit
          /\ node_is_split' = node_is_split /\ max_ptr' = max_ptr
      BY <2>1 DEF malloc, tree
    <3>2. Reserved /\ base_ptr \in BOOLEAN
      BY DEF HeapInv, BreakInv, TypeOK
    <3> QED
      BY <1>5, <2>1, <3>1, <3>2, HeapFacts DEF Reserved
  <2>2. CASE ~ base_ptr
    <3>1. /\ base_ptr' /\ bucket_limit' \in Buckets /\ Lists(buckets')
          /\ max_ptr' \in Nat /\ max_ptr' <= MAX_ALLOC
          /\ FreeOf(buckets') = {<<0, bucket_limit'>>} /\ UsedBlocks' = {}
          /\ Tree(FreeOf(buckets'), {}, {}, bucket_limit', node_is_split')
          /\ node_is_split' = {}
          /\ LIST_SIZE <= max_ptr'
      BY <2>2, FirstStep
    <3>2. base_ptr' = TRUE
      BY <2>2 DEF malloc
    <3>3. \A block \in FreeOf(buckets') : block[1] + LIST_SIZE <= max_ptr'
      <4>1. LIST_SIZE \in Int
        BY Sizes, HeapAssumption DEF Buckets
      <4> QED
        BY <3>1, <4>1
    <3> QED
      BY <1>5, <3>1, <3>2, <3>3
  <2> QED
    BY <2>1, <2>2
<1>7. /\ TreeInv' /\ FreeBlocks' = FreeOf(buckets')
      /\ buckets' \in [Buckets -> Seq(0 .. MAX_ALLOC - MIN_ALLOC)]
      /\ \A b \in 0 .. bucket_limit' - 1 : buckets'[b] = <<>>
      /\ node_is_split' \subseteq 0 .. 2 ^ (BUCKET_COUNT - 1) - 2
  BY <1>6, TreeNext
<1>8. TypeOK'
  <2>1. run' \in [pc : {"idle", "search", "grow", "split", "coalesce"},
               request : SIZE_T, bucket : Buckets, original : Buckets,
               ptr : {NULL} \cup 0 .. MAX_ALLOC]
    BY <1>1, <1>2, <1>3
  <2>2. /\ DOMAIN header' \subseteq 0 .. MAX_ALLOC - MIN_ALLOC
        /\ header' \in [DOMAIN header' -> SIZE_T]
    BY <1>1 DEF HeapInv, TypeOK
  <2>3. max_ptr' \in 0 .. MAX_ALLOC
    BY <1>6, Sizes DEF Buckets
  <2> QED
    BY <1>6, <1>7, <2>1, <2>2, <2>3 DEF TypeOK
<1>9. (IF base_ptr THEN TreeInv ELSE Untouched)'
  BY <1>6, <1>7
<1>10. BreakInv'
  BY <1>4, <1>6, <1>7 DEF BreakInv, Reserved
<1>11. HeaderInv'
  BY <1>1 DEF HeapInv, HeaderInv
<1>12. SearchInv'
  <2>1. bucket <= bucket /\ ~ (bucket < bucket) /\ bucket \in Int
        /\ \A b : ~ (b \in bucket + 1 .. bucket)
    BY <1>3 DEF Buckets
  <2>2. Empty(run.bucket + 1, run.original)'
    BY <1>4, <2>1 DEF Empty
  <2>3. WithHeader(run'.request) <= MAX_ALLOC
        /\ run'.original = bucket_for_request(WithHeader(run'.request))
    BY <1>1, <1>4 DEF bucket, size
  <2> QED
    BY <1>4, <2>1, <2>2, <2>3 DEF SearchInv
<1>13. NullOnlyWhenExhausted'
  BY <1>4 DEF NullOnlyWhenExhausted
<1> QED
  BY <1>8, <1>9, <1>10, <1>11, <1>12, <1>13 DEF HeapInv

(* No block in this bucket: the search goes on, or malloc gives up.        *)
LEMMA SearchNextStep ==
  ASSUME HeapInv, search_next
  PROVE  HeapInv'
<1>1. /\ run.pc = "search" /\ run.bucket >= bucket_limit /\ buckets[run.bucket] = <<>>
      /\ run' = NotFound
      /\ base_ptr' = base_ptr /\ buckets' = buckets /\ bucket_limit' = bucket_limit
      /\ node_is_split' = node_is_split /\ max_ptr' = max_ptr /\ header' = header
  BY DEF search_next, tree
<1>2. /\ TypeOK /\ SearchInv /\ base_ptr /\ TreeInv /\ BreakInv /\ HeaderInv
  BY <1>1, SetUp DEF HeapInv
<1>3. /\ run.bucket \in Buckets /\ run.original \in Buckets /\ bucket_limit \in Buckets
      /\ run.bucket \in Int /\ run.original \in Int /\ bucket_limit \in Int
      /\ run.bucket >= 0 /\ bucket_limit >= 0 /\ 0 \in Buckets
      /\ run.request \in SIZE_T
  <2>1. run.bucket \in Buckets /\ run.original \in Buckets /\ bucket_limit \in Buckets
        /\ run.request \in SIZE_T
    BY <1>2 DEF TypeOK
  <2> QED
    BY <2>1, Sizes DEF Buckets
<1>4. /\ WithHeader(run.request) <= MAX_ALLOC
      /\ run.original = bucket_for_request(WithHeader(run.request))
      /\ run.bucket <= run.original
      /\ Empty(run.bucket + 1, run.original)
  BY <1>1, <1>2 DEF SearchInv
<1>5. Empty(run.bucket, run.original)
  <2>1. \A b \in run.bucket .. run.original : b = run.bucket \/ b \in run.bucket + 1 .. run.original
    BY <1>3
  <2> QED
    BY <1>1, <1>4, <2>1 DEF Empty
<1>6. CASE run.bucket = 0
  <2>1. run' = Done(run.request, NULL)
    BY <1>1, <1>6 DEF NotFound
  <2>2. run'.pc = "idle" /\ run'.request = run.request
    BY <2>1 DEF Done
  <2>3. /\ FreeBlocks' = FreeBlocks /\ UsedBlocks' = UsedBlocks
        /\ HeldBlocks = {} /\ HeldBlocks' = {}
    BY <1>1, <2>2 DEF FreeBlocks, UsedBlocks, HeldBlocks
  <2>4. TypeOK'
    <3>1. run' \in [pc : {"idle", "search", "grow", "split", "coalesce"},
                 request : SIZE_T, bucket : Buckets, original : Buckets,
                 ptr : {NULL} \cup 0 .. MAX_ALLOC]
      BY <1>3, <2>1 DEF Done
    <3> QED
      BY <1>1, <1>2, <3>1 DEF TypeOK
  <2>5. (IF base_ptr THEN TreeInv ELSE Untouched)' /\ BreakInv' /\ HeaderInv'
    BY <1>1, <1>2, <2>2, <2>3 DEF TreeInv, BreakInv, Reserved, HeaderInv
  <2>6. NullOnlyWhenExhausted'
    <3>1. bucket_limit = 0
      BY <1>1, <1>3, <1>6
    <3>2. \A b \in 0 .. bucket_for_request(WithHeader(run'.request)) : buckets'[b] = <<>>
      BY <1>1, <1>4, <1>5, <1>6, <2>2 DEF Empty
    <3> QED
      BY <1>1, <3>1, <3>2 DEF NullOnlyWhenExhausted
  <2> QED
    BY <2>2, <2>4, <2>5, <2>6 DEF HeapInv, SearchInv
<1>7. CASE run.bucket # 0
  <2>1. run' = IF run.bucket # bucket_limit THEN [run EXCEPT !.bucket = @ - 1]
               ELSE [run EXCEPT !.pc = "grow"]
    BY <1>1, <1>7 DEF NotFound
  <2>2. /\ run'.request = run.request /\ run'.original = run.original
        /\ IF run.bucket # bucket_limit THEN run'.pc = "search" /\ run'.bucket = run.bucket - 1
           ELSE run'.pc = "grow" /\ run'.bucket = run.bucket
        /\ run' \in [pc : {"idle", "search", "grow", "split", "coalesce"},
                 request : SIZE_T, bucket : Buckets, original : Buckets,
                 ptr : {NULL} \cup 0 .. MAX_ALLOC]
    <3>1. run \in [pc : {"idle", "search", "grow", "split", "coalesce"},
                 request : SIZE_T, bucket : Buckets, original : Buckets,
                 ptr : {NULL} \cup 0 .. MAX_ALLOC]
      BY <1>2 DEF TypeOK
    <3>2. run.bucket - 1 \in Buckets
      BY <1>3, <1>7, Sizes DEF Buckets
    <3>3. CASE run.bucket # bucket_limit
      BY <1>1, <2>1, <3>1, <3>2, <3>3
    <3>4. CASE run.bucket = bucket_limit
      BY <1>1, <2>1, <3>1, <3>2, <3>4
    <3> QED
      BY <3>3, <3>4
  <2>3. run'.pc \in {"search", "grow"}
    BY <2>2
  <2>4. /\ FreeBlocks' = FreeBlocks /\ UsedBlocks' = UsedBlocks
        /\ HeldBlocks = {} /\ HeldBlocks' = {}
    BY <1>1, <2>3 DEF FreeBlocks, UsedBlocks, HeldBlocks
  <2>5. TypeOK'
    BY <1>1, <1>2, <2>2 DEF TypeOK
  <2>6. (IF base_ptr THEN TreeInv ELSE Untouched)' /\ BreakInv' /\ HeaderInv'
    BY <1>1, <1>2, <2>3, <2>4 DEF TreeInv, BreakInv, Reserved, HeaderInv
  <2>7. NullOnlyWhenExhausted'
    BY <2>3 DEF NullOnlyWhenExhausted
  <2>8. SearchInv'
    <3>1. CASE run.bucket # bucket_limit
      <4>1. run'.pc = "search" /\ run'.bucket = run.bucket - 1
        BY <2>2, <3>1
      <4>2. Empty(run.bucket + 1, run.original)'
        <5>1. (run.bucket - 1) + 1 = run.bucket
          BY <1>3
        <5> QED
          BY <1>1, <1>5, <2>2, <4>1, <5>1 DEF Empty
      <4>3. run.bucket - 1 <= run.original /\ bucket_limit <= run.bucket - 1
        BY <1>1, <1>3, <1>4, <3>1
      <4> QED
        BY <1>1, <1>4, <2>2, <4>1, <4>2, <4>3 DEF SearchInv
    <3>2. CASE run.bucket = bucket_limit
      <4>1. run'.pc = "grow" /\ run'.bucket = run.bucket
        BY <2>2, <3>2
      <4>2. run.bucket >= 1
        BY <1>3, <1>7
      <4> QED
        BY <1>1, <1>4, <2>2, <3>2, <4>1, <4>2 DEF SearchInv
    <3> QED
      BY <3>1, <3>2
  <2> QED
    BY <2>5, <2>6, <2>7, <2>8 DEF HeapInv
<1> QED
  BY <1>6, <1>7

(* list_remove takes exactly one block off the lists: no other one begins  *)
(* at the same place.                                                      *)
LEMMA RemoveBlock ==
  ASSUME NEW lists, Lists(lists), NEW used, NEW held, NEW limit \in Buckets, NEW bits,
         Tree(FreeOf(lists), used, held, limit, bits), NEW p, NEW b, <<p, b>> \in FreeOf(lists)
  PROVE  /\ Lists(list_remove(lists, p))
         /\ FreeOf(list_remove(lists, p)) = FreeOf(lists) \ {<<p, b>>}
<1> DEFINE B == <<p, b>>
           blocks == FreeOf(lists) \cup used \cup held
<1>1. Laid(blocks, SizeOf(limit)) /\ Tiled(blocks, SizeOf(limit))
  BY DEF Tree
<1>2. /\ Lists(list_remove(lists, p))
      /\ \A block : block \in FreeOf(list_remove(lists, p))
           <=> block \in FreeOf(lists) /\ block[1] # p
  BY RemoveUnfrees
<1>3. ASSUME NEW block \in FreeOf(lists), block[1] = p
      PROVE  block = B
  <2>1. block = <<p, block[2]>> /\ block \in blocks /\ B \in blocks
    BY <1>1, <1>3 DEF Laid
  <2>2. <<p, block[2]>> \in blocks /\ <<p, b>> \in blocks
    BY <2>1
  <2> HIDE DEF blocks
  <2>3. Covers(<<p, block[2]>>, p) /\ Covers(<<p, b>>, p) /\ p \in Nat
    BY <1>1, <2>2, LaidBlock
  <2> QED
    BY <1>1, <2>1, <2>3, TiledApart
<1>4. B[1] = p
  OBVIOUS
<1> HIDE DEF B
<1>5. FreeOf(list_remove(lists, p)) = FreeOf(lists) \ {B}
  BY <1>2, <1>3, <1>4
<1> QED
  BY <1>2, <1>5 DEF B

(* A list entry and a header fit into every block.                         *)
LEMMA ListFits ==
  ASSUME NEW b \in Buckets
  PROVE  /\ LIST_SIZE \in Nat /\ LIST_SIZE <= SizeOf(b)
         /\ HEADER_SIZE \in Nat /\ HEADER_SIZE <= SizeOf(b)
<1>1. b <= BUCKET_COUNT - 1 /\ BUCKET_COUNT - 1 \in Buckets
  BY Sizes DEF Buckets
<1>2. MIN_ALLOC <= SizeOf(b) /\ MIN_ALLOC \in Nat /\ SizeOf(b) \in Nat
  BY <1>1, Sizes, LaterSizes
<1> QED
  BY <1>2, HeapAssumption

(* What lies below the break stays there when no block is added.           *)
LEMMA ReservedNext ==
  ASSUME Reserved, max_ptr' >= max_ptr, max_ptr \in Int, max_ptr' \in Int,
         FreeBlocks' \subseteq FreeBlocks, UsedBlocks' \subseteq UsedBlocks,
         \A block \in FreeBlocks \cup UsedBlocks :
           block[1] \in Int /\ SizeOf(block[2]) \in Int
  PROVE  Reserved'
<1>1. LIST_SIZE \in Int
  <2>1. 0 \in Buckets
    BY Sizes DEF Buckets
  <2> QED
    BY <2>1, ListFits
<1> QED
  BY <1>1 DEF Reserved

(* The ranges of the blocks                                                *)
LEMMA BlockTypes ==
  ASSUME NEW spare, NEW used, NEW held, NEW limit \in Buckets, NEW bits,
         Tree(spare, used, held, limit, bits)
  PROVE  \A block \in spare \cup used \cup held :
           block[1] \in Nat /\ block[2] \in Buckets /\ SizeOf(block[2]) \in Nat
<1>1. Laid(spare \cup used \cup held, SizeOf(limit))
  BY DEF Tree
<1> QED
  BY <1>1, Sizes DEF Laid

(* list_pop found a block.                                                 *)
LEMMA TakeStep ==
  ASSUME HeapInv, take_block
  PROVE  HeapInv'
<1> DEFINE ptr == Last(buckets[run.bucket])
           b == run.bucket
           node == node_for_ptr(ptr, b)
           need == ptr + BytesNeeded
<1>1. /\ run.pc \in {"search", "grow"} /\ buckets[b] # <<>>
      /\ buckets' = list_remove(buckets, ptr)
      /\ max_ptr' = update_max_ptr(need)
      /\ node_is_split' = Flipped(node_is_split, ptr, b)
      /\ run' = [run EXCEPT !.pc = "split", !.ptr = ptr]
      /\ base_ptr' = base_ptr /\ bucket_limit' = bucket_limit /\ header' = header
  BY DEF take_block, Flipped
<1>2. /\ TypeOK /\ SearchInv /\ base_ptr /\ BreakInv /\ HeaderInv
  BY <1>1, SetUp DEF HeapInv
<1>3. /\ run.bucket \in Buckets /\ run.original \in Buckets
      /\ run.bucket \in Int /\ run.original \in Int /\ run.bucket <= run.original
      /\ WithHeader(run.request) <= MAX_ALLOC
      /\ run.original = bucket_for_request(WithHeader(run.request))
  <2>1. run.bucket \in Buckets /\ run.original \in Buckets
    BY <1>2 DEF TypeOK
  <2> QED
    BY <1>1, <1>2, <2>1 DEF Buckets, SearchInv
<1>4. /\ Lists(buckets) /\ FreeBlocks = FreeOf(buckets) /\ bucket_limit \in Buckets
      /\ node_is_split \subseteq SplitNodes
      /\ Tree(FreeOf(buckets), UsedBlocks, HeldBlocks, bucket_limit, node_is_split)
      /\ max_ptr \in Nat /\ max_ptr <= MAX_ALLOC /\ buckets[b] \in Seq(Offsets)
  BY <1>2, <1>3, HeapFacts
<1>5. HeldBlocks = {}
  BY <1>1 DEF HeldBlocks
<1>6. ptr \in ToSet(buckets[b]) /\ ptr \in Offsets
  BY <1>1, <1>4, LastEntry
<1>7. <<ptr, b>> \in FreeOf(buckets)
  BY <1>3, <1>6, FreeMember
<1>8. /\ run'.pc = "split" /\ run'.ptr = ptr /\ run'.bucket = b
      /\ run'.original = run.original /\ run'.request = run.request
      /\ run' \in [pc : {"idle", "search", "grow", "split", "coalesce"},
               request : SIZE_T, bucket : Buckets, original : Buckets,
               ptr : {NULL} \cup 0 .. MAX_ALLOC]
  <2>1. run \in [pc : {"idle", "search", "grow", "split", "coalesce"},
               request : SIZE_T, bucket : Buckets, original : Buckets,
               ptr : {NULL} \cup 0 .. MAX_ALLOC]
    BY <1>2 DEF TypeOK
  <2>2. ptr \in 0 .. MAX_ALLOC
    BY <1>6, Sizes DEF Offsets, Buckets
  <2> HIDE DEF ptr
  <2> QED
    BY <1>1, <2>1, <2>2
<1> HIDE DEF ptr, need, node
<1>9. Lists(buckets') /\ FreeOf(buckets') = FreeOf(buckets) \ {<<ptr, b>>}
  BY <1>1, <1>4, <1>7, RemoveBlock
<1>10. UsedBlocks' = UsedBlocks /\ HeldBlocks' = {<<ptr, b>>}
  BY <1>1, <1>8 DEF UsedBlocks, HeldBlocks
<1>11. Tree(FreeOf(buckets'), UsedBlocks', HeldBlocks', bucket_limit', node_is_split')
  <2>1. Tree(FreeOf(buckets), UsedBlocks, {}, bucket_limit, node_is_split)
    BY <1>4, <1>5
  <2>2. Tree(FreeOf(buckets) \ {<<ptr, b>>}, UsedBlocks, {<<ptr, b>>}, bucket_limit,
             Flipped(node_is_split, ptr, b))
    BY <1>4, <1>7, <2>1, TakeTree
  <2> QED
    BY <1>1, <1>9, <1>10, <2>2
<1>12. /\ ptr \in Nodes(b) /\ ptr \in Nat /\ ptr + SizeOf(b) <= SizeOf(bucket_limit)
       /\ SizeOf(bucket_limit) <= MAX_ALLOC /\ SizeOf(b) \in Nat \ {0}
       /\ SizeOf(bucket_limit) \in Nat /\ MAX_ALLOC \in Nat
  <2>1. Laid(FreeOf(buckets) \cup UsedBlocks \cup HeldBlocks, SizeOf(bucket_limit))
    BY <1>4 DEF Tree
  <2>2. <<ptr, b>> \in FreeOf(buckets) \cup UsedBlocks \cup HeldBlocks
    BY <1>7
  <2>3. ptr \in Nodes(b) /\ ptr \in Nat /\ ptr + SizeOf(b) <= SizeOf(bucket_limit)
    BY <1>4, <2>1, <2>2, LaidBlock
  <2>4. 0 \in Buckets /\ 0 <= bucket_limit
    BY <1>4, Sizes DEF Buckets
  <2> QED
    BY <1>3, <1>4, <2>3, <2>4, Sizes, LaterSizes
<1>13. node_is_split' \subseteq SplitNodes
  BY <1>1, <1>3, <1>4, <1>12, FlippedType
<1>14. /\ TreeInv' /\ FreeBlocks' = FreeOf(buckets')
       /\ buckets' \in [Buckets -> Seq(0 .. MAX_ALLOC - MIN_ALLOC)]
       /\ \A c \in 0 .. bucket_limit' - 1 : buckets'[c] = <<>>
       /\ node_is_split' \subseteq 0 .. 2 ^ (BUCKET_COUNT - 1) - 2
  <2>1. bucket_limit' \in Buckets
    BY <1>1, <1>4
  <2> QED
    BY <1>9, <1>11, <1>13, <2>1, TreeNext
<1>15. /\ need \in Nat /\ need <= MAX_ALLOC /\ LIST_SIZE \in Nat
       /\ need = ptr + (IF b < run.original THEN SizeOf(b + 1) + LIST_SIZE ELSE SizeOf(b))
  <2>1. CASE b < run.original
    <3>1. b + 1 \in Buckets
      BY <1>3, <2>1, Sizes DEF Buckets
    <3>2. SizeOf(b) = 2 * SizeOf(b + 1) /\ SizeOf(b + 1) \in Nat
          /\ LIST_SIZE <= SizeOf(b + 1) /\ LIST_SIZE \in Nat
      BY <1>3, <3>1, Sizes, ListFits
    <3>3. SizeOf(b) \div 2 = SizeOf(b + 1)
      BY <3>2
    <3>4. need = ptr + (SizeOf(b + 1) + LIST_SIZE)
      BY <2>1, <3>3 DEF need, BytesNeeded
    <3> QED
      BY <1>12, <2>1, <3>2, <3>4
  <2>2. CASE ~ (b < run.original)
    <3>1. need = ptr + SizeOf(b)
      BY <2>2 DEF need, BytesNeeded
    <3> QED
      BY <1>3, <1>12, <2>2, <3>1, ListFits
  <2> QED
    BY <2>1, <2>2
<1>16. max_ptr' >= need /\ max_ptr' >= max_ptr /\ max_ptr' \in 0 .. MAX_ALLOC
  <2>1. update_max_ptr(need) >= need /\ update_max_ptr(need) >= max_ptr
        /\ update_max_ptr(need) \in {need, max_ptr}
    <3>1. need \in Int /\ max_ptr \in Int
      BY <1>4, <1>15
    <3> QED
      BY <3>1, MaxPtr
  <2> QED
    BY <1>1, <1>4, <1>12, <1>15, <2>1
<1>17. TypeOK'
  <2>1. /\ DOMAIN header' \subseteq 0 .. MAX_ALLOC - MIN_ALLOC
        /\ header' \in [DOMAIN header' -> SIZE_T] /\ base_ptr' \in BOOLEAN
        /\ bucket_limit' \in Buckets
    BY <1>1, <1>2 DEF TypeOK
  <2> QED
    BY <1>8, <1>14, <1>16, <2>1 DEF TypeOK
<1>18. (IF base_ptr THEN TreeInv ELSE Untouched)'
  BY <1>1, <1>2, <1>14
<1>19. BreakInv'
  <2>1. Reserved'
    <3>1. Reserved
      BY <1>2 DEF BreakInv
    <3>2. \A block \in FreeBlocks \cup UsedBlocks :
            block[1] \in Int /\ SizeOf(block[2]) \in Int
      BY <1>4, BlockTypes
    <3>3. max_ptr' \in Int /\ max_ptr \in Int /\ max_ptr' >= max_ptr
      BY <1>4, <1>16
    <3>4. FreeBlocks' \subseteq FreeBlocks /\ UsedBlocks' \subseteq UsedBlocks
      BY <1>4, <1>9, <1>10, <1>14
    <3> QED
      BY <3>1, <3>2, <3>3, <3>4, ReservedNext
  <2>2. run'.ptr + (IF run'.bucket < run'.original
                    THEN SizeOf(run'.bucket + 1) + LIST_SIZE
                    ELSE SizeOf(run'.bucket)) <= max_ptr'
    BY <1>8, <1>15, <1>16
  <2> QED
    BY <1>8, <2>1, <2>2 DEF BreakInv
<1>20. HeaderInv'
  BY <1>1, <1>2 DEF HeaderInv
<1>21. SearchInv'
  BY <1>3, <1>8 DEF SearchInv
<1>22. NullOnlyWhenExhausted'
  BY <1>8 DEF NullOnlyWhenExhausted
<1> QED
  BY <1>17, <1>18, <1>19, <1>20, <1>21, <1>22 DEF HeapInv

(* The block in hand is cut: its right half is free.                       *)
LEMMA SplitStep ==
  ASSUME HeapInv, split_block
  PROVE  HeapInv'
<1> DEFINE p == run.ptr
           b == run.bucket
           q == p + SizeOf(b + 1)
           left == 2 * node_for_ptr(p, b) + 1
           R == <<q, b + 1>>
<1>1. /\ run.pc = "split" /\ b < run.original
      /\ node_is_split' = flip_parent_is_split(node_is_split, left)
      /\ buckets' = list_push(buckets, b + 1, ptr_for_node(left + 1, b + 1))
      /\ run' = [run EXCEPT !.bucket = @ + 1]
      /\ base_ptr' = base_ptr /\ bucket_limit' = bucket_limit /\ max_ptr' = max_ptr
      /\ header' = header
  BY DEF split_block, FreeHalf
<1>2. /\ TypeOK /\ SearchInv /\ base_ptr /\ BreakInv /\ HeaderInv
  BY <1>1, SetUp DEF HeapInv
<1>3. /\ b \in Buckets /\ b + 1 \in Buckets /\ run.original \in Buckets
      /\ b \in Nat /\ run.original \in Int /\ b + 1 <= run.original
      /\ WithHeader(run.request) <= MAX_ALLOC
      /\ run.original = bucket_for_request(WithHeader(run.request))
  <2>1. b \in Buckets /\ run.original \in Buckets
    BY <1>2 DEF TypeOK
  <2>2. b \in Nat /\ run.original \in Nat /\ b + 1 \in Buckets /\ b + 1 <= run.original
    BY <1>1, <2>1, Sizes DEF Buckets
  <2> QED
    BY <1>1, <1>2, <2>1, <2>2 DEF SearchInv
<1>4. /\ Lists(buckets) /\ FreeBlocks = FreeOf(buckets) /\ bucket_limit \in Buckets
      /\ node_is_split \subseteq SplitNodes
      /\ Tree(FreeOf(buckets), UsedBlocks, HeldBlocks, bucket_limit, node_is_split)
      /\ max_ptr \in Nat /\ max_ptr <= MAX_ALLOC
  BY <1>2, HeapFacts
<1>5. HeldBlocks = {<<p, b>>}
  BY <1>1 DEF HeldBlocks
<1>6. /\ R \notin FreeOf(buckets)
      /\ Tree(FreeOf(buckets) \cup {R}, UsedBlocks, {<<p, b + 1>>}, bucket_limit,
              Flipped(node_is_split, q, b + 1))
      /\ p \in Nodes(b) /\ p \in Nat
  <2>1. Tree(FreeOf(buckets), UsedBlocks, {<<p, b>>}, bucket_limit, node_is_split)
    BY <1>4, <1>5
  <2>2. p \in Nodes(b) /\ p \in Nat
    BY <1>4, <2>1, HeldIsUsed
  <2> QED
    BY <1>3, <1>4, <2>1, <2>2, SplitTree
<1>7. q \in Nodes(b + 1) /\ q \in Offsets /\ q \in Nat
  <2>1. Laid((FreeOf(buckets) \cup {R}) \cup UsedBlocks \cup {<<p, b + 1>>},
             SizeOf(bucket_limit))
    BY <1>6 DEF Tree
  <2>2. <<q, b + 1>> \in (FreeOf(buckets) \cup {R}) \cup UsedBlocks \cup {<<p, b + 1>>}
    OBVIOUS
  <2> HIDE DEF R, q
  <2> QED
    BY <1>4, <2>1, <2>2, LaidBlock
<1>8. /\ left + 1 = node_for_ptr(q, b + 1) /\ Parent(left) = Parent(left + 1)
  BY <1>3, <1>6, Halves
<1>9. ptr_for_node(left + 1, b + 1) = q
  BY <1>3, <1>7, <1>8, NodeOfPtr
<1>10. node_is_split' = Flipped(node_is_split, q, b + 1)
  <2>1. left + 1 # 0
    <3>1. b + 1 # 0
      BY <1>3
    <3> QED
      BY <1>3, <1>7, <1>8, <3>1, NodeZero
  <2> HIDE DEF left, q
  <2> QED
    BY <1>1, <1>8, <2>1 DEF Flipped, flip_parent_is_split
<1>11. /\ run'.pc = "split" /\ run'.ptr = p /\ run'.bucket = b + 1
       /\ run'.original = run.original /\ run'.request = run.request
       /\ run' \in [pc : {"idle", "search", "grow", "split", "coalesce"},
                request : SIZE_T, bucket : Buckets, original : Buckets,
                ptr : {NULL} \cup 0 .. MAX_ALLOC]
  <2>1. run \in [pc : {"idle", "search", "grow", "split", "coalesce"},
               request : SIZE_T, bucket : Buckets, original : Buckets,
               ptr : {NULL} \cup 0 .. MAX_ALLOC]
    BY <1>2 DEF TypeOK
  <2> QED
    BY <1>1, <1>3, <2>1
<1> HIDE DEF p, q, left, R
<1>12. Lists(buckets') /\ FreeOf(buckets') = FreeOf(buckets) \cup {R}
  <2>1. buckets' = list_push(buckets, b + 1, q)
    BY <1>1, <1>9
  <2> QED
    BY <1>3, <1>4, <1>6, <1>7, <2>1, PushFrees DEF R
<1>13. UsedBlocks' = UsedBlocks /\ HeldBlocks' = {<<p, b + 1>>}
  BY <1>1, <1>11 DEF UsedBlocks, HeldBlocks
<1>14. Tree(FreeOf(buckets'), UsedBlocks', HeldBlocks', bucket_limit', node_is_split')
  BY <1>1, <1>6, <1>10, <1>12, <1>13
<1>15. node_is_split' \subseteq SplitNodes
  BY <1>3, <1>4, <1>7, <1>10, FlippedType
<1>16. /\ TreeInv' /\ FreeBlocks' = FreeOf(buckets')
       /\ buckets' \in [Buckets -> Seq(0 .. MAX_ALLOC - MIN_ALLOC)]
       /\ \A c \in 0 .. bucket_limit' - 1 : buckets'[c] = <<>>
       /\ node_is_split' \subseteq 0 .. 2 ^ (BUCKET_COUNT - 1) - 2
  <2>1. bucket_limit' \in Buckets
    BY <1>1, <1>4
  <2> QED
    BY <1>12, <1>14, <1>15, <2>1, TreeNext
<1>17. TypeOK'
  BY <1>1, <1>2, <1>11, <1>16 DEF TypeOK
<1>18. (IF base_ptr THEN TreeInv ELSE Untouched)'
  BY <1>1, <1>2, <1>16
<1>19. BreakInv'
  <2>1. p + (SizeOf(b + 1) + LIST_SIZE) <= max_ptr
    BY <1>1, <1>2 DEF BreakInv, p
  <2>2. SizeOf(b + 1) \in Nat /\ LIST_SIZE \in Nat /\ LIST_SIZE <= SizeOf(b + 1)
    BY <1>3, Sizes, ListFits
  <2>3. R[1] + LIST_SIZE <= max_ptr
    BY <1>6, <2>1, <2>2 DEF R, q
  <2>4. Reserved'
    BY <1>1, <1>2, <1>4, <1>12, <1>13, <1>16, <2>3 DEF Reserved, BreakInv
  <2>5. run'.ptr + (IF run'.bucket < run'.original
                    THEN SizeOf(run'.bucket + 1) + LIST_SIZE
                    ELSE SizeOf(run'.bucket)) <= max_ptr'
    <3>1. CASE b + 1 < run.original
      <4>1. (b + 1) + 1 \in Buckets
        BY <1>3, <3>1, Sizes DEF Buckets
      <4>2. SizeOf(b + 1) = 2 * SizeOf((b + 1) + 1) /\ SizeOf((b + 1) + 1) \in Nat
        BY <1>3, <4>1, Sizes
      <4>3. p + (SizeOf((b + 1) + 1) + LIST_SIZE) <= max_ptr
        BY <1>4, <1>6, <2>1, <2>2, <4>2
      <4> QED
        BY <1>1, <1>11, <3>1, <4>3
    <3>2. CASE ~ (b + 1 < run.original)
      <4>1. p + SizeOf(b + 1) <= max_ptr
        BY <1>4, <1>6, <2>1, <2>2
      <4> QED
        BY <1>1, <1>11, <3>2, <4>1
    <3> QED
      BY <3>1, <3>2
  <2> QED
    BY <1>11, <2>4, <2>5 DEF BreakInv
<1>20. HeaderInv'
  BY <1>1, <1>2 DEF HeaderInv
<1>21. SearchInv'
  BY <1>3, <1>11 DEF SearchInv
<1>22. NullOnlyWhenExhausted'
  BY <1>11 DEF NullOnlyWhenExhausted
<1> QED
  BY <1>17, <1>18, <1>19, <1>20, <1>21, <1>22 DEF HeapInv

(* The block in hand becomes an allocation.                                *)
LEMMA MallocReturnStep ==
  ASSUME HeapInv, malloc_return
  PROVE  HeapInv'
<1> DEFINE p == run.ptr
           b == run.bucket
<1>1. /\ run.pc = "split" /\ b = run.original
      /\ header' = [x \in DOMAIN header \cup {p} |->
                      IF x = p THEN run.request ELSE header[x]]
      /\ run' = Done(run.request, p + HEADER_SIZE)
      /\ base_ptr' = base_ptr /\ buckets' = buckets /\ bucket_limit' = bucket_limit
      /\ node_is_split' = node_is_split /\ max_ptr' = max_ptr
  BY DEF malloc_return, tree
<1>2. /\ TypeOK /\ SearchInv /\ base_ptr /\ BreakInv /\ HeaderInv
  BY <1>1, SetUp DEF HeapInv
<1>3. /\ b \in Buckets /\ run.request \in SIZE_T
      /\ WithHeader(run.request) <= MAX_ALLOC
      /\ b = bucket_for_request(WithHeader(run.request))
  <2>1. b \in Buckets /\ run.request \in SIZE_T
    BY <1>2 DEF TypeOK
  <2> QED
    BY <1>1, <1>2, <2>1 DEF SearchInv
<1>4. /\ Lists(buckets) /\ FreeBlocks = FreeOf(buckets) /\ bucket_limit \in Buckets
      /\ node_is_split \subseteq SplitNodes
      /\ Tree(FreeOf(buckets), UsedBlocks, HeldBlocks, bucket_limit, node_is_split)
      /\ max_ptr \in Nat /\ max_ptr <= MAX_ALLOC
  BY <1>2, HeapFacts
<1>5. HeldBlocks = {<<p, b>>}
  BY <1>1 DEF HeldBlocks
<1>6. /\ p \in Nodes(b) /\ p \in Nat /\ p \in Offsets
      /\ p + SizeOf(b) <= SizeOf(bucket_limit)
      /\ Tree(FreeOf(buckets), UsedBlocks \cup {<<p, b>>}, {}, bucket_limit, node_is_split)
  <2>1. Tree(FreeOf(buckets), UsedBlocks, {<<p, b>>}, bucket_limit, node_is_split)
    BY <1>4, <1>5
  <2>2. p \in Nodes(b) /\ p \in Nat /\ p \in Offsets /\ p + SizeOf(b) <= SizeOf(bucket_limit)
    BY <1>4, <2>1, HeldIsUsed
  <2> QED
    BY <2>1, <2>2, GiveTree
<1>7. p \notin DOMAIN header
  <2>1. ASSUME p \in DOMAIN header
        PROVE  FALSE
    <3> DEFINE c == bucket_for_request(WithHeader(header[p]))
               blocks == FreeOf(buckets) \cup UsedBlocks \cup HeldBlocks
    <3>1. <<p, c>> \in UsedBlocks
      BY <2>1 DEF UsedBlocks
    <3>2. /\ Laid(blocks, SizeOf(bucket_limit)) /\ Tiled(blocks, SizeOf(bucket_limit))
          /\ HeldBlocks \cap (FreeOf(buckets) \cup UsedBlocks) = {}
      BY <1>4 DEF Tree
    <3>3. <<p, c>> \in blocks /\ <<p, b>> \in blocks /\ <<p, c>> # <<p, b>>
      <4> HIDE DEF c
      <4> QED
        BY <1>5, <3>1, <3>2
    <3> HIDE DEF blocks, c
    <3>4. Covers(<<p, c>>, p) /\ Covers(<<p, b>>, p)
      BY <1>4, <3>2, <3>3, LaidBlock
    <3> QED
      BY <1>6, <3>2, <3>3, <3>4, TiledApart
  <2> QED
    BY <2>1
<1>8. /\ run'.pc = "idle" /\ run'.request = run.request /\ run'.ptr = p + HEADER_SIZE
      /\ run' \in [pc : {"idle", "search", "grow", "split", "coalesce"},
               request : SIZE_T, bucket : Buckets, original : Buckets,
               ptr : {NULL} \cup 0 .. MAX_ALLOC]
      /\ p + HEADER_SIZE # NULL
  <2>1. /\ HEADER_SIZE \in Nat /\ HEADER_SIZE <= SizeOf(b) /\ SizeOf(b) \in Nat
        /\ SizeOf(bucket_limit) <= MAX_ALLOC /\ SizeOf(bucket_limit) \in Nat
        /\ MAX_ALLOC \in Nat /\ 0 \in Buckets
    <3>1. 0 \in Buckets /\ 0 <= bucket_limit
      BY <1>4, Sizes DEF Buckets
    <3> QED
      BY <1>3, <1>4, <3>1, Sizes, ListFits, LaterSizes
  <2>2. p + HEADER_SIZE \in 0 .. MAX_ALLOC
    BY <1>6, <2>1
  <2> HIDE DEF p
  <2> QED
    BY <1>1, <1>3, <2>1, <2>2 DEF Done, NULL
<1> HIDE DEF p
<1>9. /\ DOMAIN header' = DOMAIN header \cup {p}
      /\ \A x \in DOMAIN header' : header'[x] = IF x = p THEN run.request ELSE header[x]
  BY <1>1
<1>10. UsedBlocks' = UsedBlocks \cup {<<p, b>>} /\ HeldBlocks' = {}
  <2>1. UsedBlocks' = {<<x, bucket_for_request(WithHeader(header'[x]))>> : x \in DOMAIN header'}
    BY DEF UsedBlocks
  <2>2. \A x \in DOMAIN header : header'[x] = header[x]
    BY <1>7, <1>9
  <2>3. header'[p] = run.request
    BY <1>9
  <2>4. UsedBlocks' = UsedBlocks \cup {<<p, b>>}
    BY <1>3, <1>9, <2>1, <2>2, <2>3 DEF UsedBlocks
  <2> QED
    BY <1>8, <2>4 DEF HeldBlocks
<1>11. Tree(FreeOf(buckets'), UsedBlocks', HeldBlocks', bucket_limit', node_is_split')
  BY <1>1, <1>6, <1>10
<1>12. /\ TreeInv' /\ FreeBlocks' = FreeOf(buckets')
       /\ buckets' \in [Buckets -> Seq(0 .. MAX_ALLOC - MIN_ALLOC)]
       /\ \A c \in 0 .. bucket_limit' - 1 : buckets'[c] = <<>>
       /\ node_is_split' \subseteq 0 .. 2 ^ (BUCKET_COUNT - 1) - 2
  <2>1. Lists(buckets') /\ bucket_limit' \in Buckets /\ node_is_split' \subseteq SplitNodes
    BY <1>1, <1>4
  <2> QED
    BY <1>11, <2>1, TreeNext
<1>13. TypeOK'
  <2>1. header' \in [DOMAIN header' -> SIZE_T] /\ DOMAIN header' \subseteq 0 .. MAX_ALLOC - MIN_ALLOC
    <3>1. \A x \in DOMAIN header : header[x] \in SIZE_T
      BY <1>2 DEF TypeOK
    <3>2. \A x \in DOMAIN header' : header'[x] \in SIZE_T
      BY <1>3, <1>9, <3>1
    <3>3. header' = [x \in DOMAIN header' |-> header'[x]]
      BY <1>1
    <3>4. DOMAIN header \subseteq 0 .. MAX_ALLOC - MIN_ALLOC
      BY <1>2 DEF TypeOK
    <3> QED
      BY <1>6, <1>9, <3>2, <3>3, <3>4 DEF Offsets
  <2> QED
    BY <1>1, <1>2, <1>8, <1>12, <2>1 DEF TypeOK
<1>14. (IF base_ptr THEN TreeInv ELSE Untouched)'
  BY <1>1, <1>2, <1>12
<1>15. BreakInv'
  <2>1. p + SizeOf(b) <= max_ptr
    <3>1. ~ (b < run.original)
      BY <1>1, <1>3 DEF Buckets
    <3> QED
      BY <1>1, <1>2, <3>1 DEF BreakInv, p
  <2>2. Reserved'
    BY <1>1, <1>2, <1>4, <1>10, <1>12, <2>1 DEF Reserved, BreakInv
  <2> QED
    BY <1>8, <2>2 DEF BreakInv
<1>16. HeaderInv'
  <2>1. WithHeader(run.request) <= SizeOf(bucket_for_request(WithHeader(run.request)))
    BY <1>3, RequestBucket
  <2> QED
    BY <1>2, <1>9, <2>1 DEF HeaderInv
<1>17. SearchInv' /\ NullOnlyWhenExhausted'
  BY <1>8 DEF SearchInv, NullOnlyWhenExhausted
<1> QED
  BY <1>13, <1>14, <1>15, <1>16, <1>17 DEF HeapInv

(* free takes the block of an allocation in hand.                          *)
LEMMA FreeStep ==
  ASSUME HeapInv, NEW p \in DOMAIN header, free(p + HEADER_SIZE)
  PROVE  HeapInv'
<1> DEFINE size == WithHeader(header[p])
           b == bucket_for_request(size)
<1>1. /\ TypeOK /\ base_ptr /\ BreakInv /\ HeaderInv
  BY SetUp DEF HeapInv
<1>2. p \in Nat /\ p \in 0 .. MAX_ALLOC
      /\ (p + HEADER_SIZE) - HEADER_SIZE = p
  <2>1. p \in 0 .. MAX_ALLOC - MIN_ALLOC
    BY <1>1 DEF TypeOK
  <2>2. MAX_ALLOC \in Nat /\ MIN_ALLOC \in Nat
    BY Sizes DEF Buckets
  <2> QED
    BY <2>1, <2>2, HeapAssumption
<1>3. /\ run.pc = "idle"
      /\ run' = [pc |-> "coalesce", request |-> 0, bucket |-> b, original |-> b, ptr |-> p]
      /\ header' = [x \in DOMAIN header \ {p} |-> header[x]]
      /\ base_ptr' = base_ptr /\ buckets' = buckets /\ bucket_limit' = bucket_limit
      /\ node_is_split' = node_is_split /\ max_ptr' = max_ptr
  BY <1>2 DEF free, tree
<1>4. /\ Lists(buckets) /\ FreeBlocks = FreeOf(buckets) /\ bucket_limit \in Buckets
      /\ node_is_split \subseteq SplitNodes
      /\ Tree(FreeOf(buckets), UsedBlocks, HeldBlocks, bucket_limit, node_is_split)
      /\ max_ptr \in Nat /\ max_ptr <= MAX_ALLOC
  BY <1>1, HeapFacts
<1>5. HeldBlocks = {} /\ <<p, b>> \in UsedBlocks
  BY <1>3 DEF HeldBlocks, UsedBlocks
<1> HIDE DEF b
<1>6. b \in Buckets
  <2>1. \A block \in FreeOf(buckets) \cup UsedBlocks \cup HeldBlocks :
          block[1] \in Nat /\ block[2] \in Buckets /\ SizeOf(block[2]) \in Nat
    BY <1>4, BlockTypes
  <2>2. <<p, b>> \in FreeOf(buckets) \cup UsedBlocks \cup HeldBlocks
    BY <1>5
  <2> QED
    BY <2>1, <2>2
<1>7. /\ run'.pc = "coalesce" /\ run'.ptr = p /\ run'.bucket = b /\ run'.request = 0
      /\ run' \in [pc : {"idle", "search", "grow", "split", "coalesce"},
               request : SIZE_T, bucket : Buckets, original : Buckets,
               ptr : {NULL} \cup 0 .. MAX_ALLOC]
  <2>1. 0 \in SIZE_T
    BY Sizes DEF SIZE_T, Buckets
  <2> QED
    BY <1>2, <1>3, <1>6, <2>1
<1>8. /\ DOMAIN header' = DOMAIN header \ {p}
      /\ \A x \in DOMAIN header' : header'[x] = header[x]
  BY <1>3
<1>9. UsedBlocks' = UsedBlocks \ {<<p, b>>} /\ HeldBlocks' = {<<p, b>>}
  <2>1. UsedBlocks' = {<<x, bucket_for_request(WithHeader(header'[x]))>> : x \in DOMAIN header'}
    BY DEF UsedBlocks
  <2>2. UsedBlocks' = {<<x, bucket_for_request(WithHeader(header[x]))>> : x \in DOMAIN header \ {p}}
    BY <1>8, <2>1
  <2>3. b = bucket_for_request(WithHeader(header[p]))
    BY DEF b
  <2>4. UsedBlocks' = UsedBlocks \ {<<p, b>>}
    BY <2>2, <2>3 DEF UsedBlocks
  <2> QED
    BY <1>7, <2>4 DEF HeldBlocks
<1>10. Tree(FreeOf(buckets'), UsedBlocks', HeldBlocks', bucket_limit', node_is_split')
  BY <1>3, <1>4, <1>5, <1>9, FreeTree
<1>11. /\ TreeInv' /\ FreeBlocks' = FreeOf(buckets')
       /\ buckets' \in [Buckets -> Seq(0 .. MAX_ALLOC - MIN_ALLOC)]
       /\ \A c \in 0 .. bucket_limit' - 1 : buckets'[c] = <<>>
       /\ node_is_split' \subseteq 0 .. 2 ^ (BUCKET_COUNT - 1) - 2
  <2>1. Lists(buckets') /\ bucket_limit' \in Buckets /\ node_is_split' \subseteq SplitNodes
    BY <1>3, <1>4
  <2> QED
    BY <1>10, <2>1, TreeNext
<1>12. TypeOK'
  <2>1. header' \in [DOMAIN header' -> SIZE_T] /\ DOMAIN header' \subseteq 0 .. MAX_ALLOC - MIN_ALLOC
    BY <1>1, <1>3 DEF TypeOK
  <2> QED
    BY <1>1, <1>3, <1>7, <1>11, <2>1 DEF TypeOK
<1>13. (IF base_ptr THEN TreeInv ELSE Untouched)'
  BY <1>1, <1>3, <1>11
<1>14. BreakInv'
  <2>1. p + SizeOf(b) <= max_ptr
    <3>1. \A block \in UsedBlocks : block[1] + SizeOf(block[2]) <= max_ptr
      BY <1>1 DEF BreakInv, Reserved
    <3> QED
      BY <1>5, <3>1
  <2>2. p + LIST_SIZE <= max_ptr
    <3>1. LIST_SIZE \in Nat /\ LIST_SIZE <= SizeOf(b) /\ SizeOf(b) \in Nat
      BY <1>6, ListFits, Sizes
    <3> QED
      BY <1>2, <1>4, <2>1, <3>1
  <2>3. Reserved'
    BY <1>1, <1>3, <1>4, <1>9, <1>11 DEF Reserved, BreakInv
  <2> QED
    BY <1>3, <1>7, <2>2, <2>3 DEF BreakInv
<1>15. HeaderInv'
  BY <1>1, <1>8 DEF HeaderInv
<1>16. SearchInv' /\ NullOnlyWhenExhausted'
  BY <1>7 DEF SearchInv, NullOnlyWhenExhausted
<1> QED
  BY <1>12, <1>13, <1>14, <1>15, <1>16 DEF HeapInv

(* What both ends of free's loop know                                      *)
LEMMA Coalescing ==
  ASSUME HeapInv, run.pc = "coalesce"
  PROVE  /\ TypeOK /\ base_ptr /\ BreakInv /\ HeaderInv
         /\ Lists(buckets) /\ FreeBlocks = FreeOf(buckets) /\ bucket_limit \in Buckets
         /\ node_is_split \subseteq SplitNodes
         /\ Tree(FreeOf(buckets), UsedBlocks, {<<run.ptr, run.bucket>>}, bucket_limit,
                 node_is_split)
         /\ max_ptr \in Nat /\ max_ptr <= MAX_ALLOC
         /\ run.bucket \in Buckets /\ run.ptr \in Nodes(run.bucket)
         /\ run.ptr \in Nat /\ run.ptr \in Offsets /\ run.bucket >= bucket_limit
         /\ run.ptr + LIST_SIZE <= max_ptr
         /\ MergesWithBuddy <=> /\ run.bucket > bucket_limit
                                /\ parent_is_split(node_is_split, Node)
<1>1. /\ TypeOK /\ base_ptr /\ BreakInv /\ HeaderInv
  BY SetUp DEF HeapInv
<1>2. /\ Lists(buckets) /\ FreeBlocks = FreeOf(buckets) /\ bucket_limit \in Buckets
      /\ node_is_split \subseteq SplitNodes
      /\ Tree(FreeOf(buckets), UsedBlocks, HeldBlocks, bucket_limit, node_is_split)
      /\ max_ptr \in Nat /\ max_ptr <= MAX_ALLOC
  BY <1>1, HeapFacts
<1>3. HeldBlocks = {<<run.ptr, run.bucket>>}
  BY DEF HeldBlocks
<1>4. /\ run.bucket \in Buckets /\ run.ptr \in Nodes(run.bucket)
      /\ run.ptr \in Nat /\ run.ptr \in Offsets /\ run.bucket >= bucket_limit
  <2>1. Tree(FreeOf(buckets), UsedBlocks, {<<run.ptr, run.bucket>>}, bucket_limit, node_is_split)
    BY <1>2, <1>3
  <2> QED
    BY <1>2, <2>1, HeldIsUsed
<1>5. run.ptr + LIST_SIZE <= max_ptr
  BY <1>1 DEF BreakInv
<1>6. MergesWithBuddy <=> /\ run.bucket > bucket_limit
                          /\ parent_is_split(node_is_split, Node)
  <2>1. ~ parent_is_split(flip_parent_is_split(node_is_split, Node), Node)
          <=> parent_is_split(node_is_split, Node)
    BY DEF parent_is_split, flip_parent_is_split
  <2>2. run.bucket # bucket_limit <=> run.bucket > bucket_limit
    BY <1>2, <1>4 DEF Buckets
  <2>3. run.bucket > bucket_limit => Node # 0
    <3>1. run.bucket > bucket_limit => run.bucket # 0
      BY <1>2, <1>4 DEF Buckets
    <3> QED
      BY <1>4, <3>1, NodeZero DEF Node
  <2> QED
    BY <2>1, <2>2, <2>3 DEF MergesWithBuddy
<1> QED
  BY <1>1, <1>2, <1>3, <1>4, <1>5, <1>6

(* The block in hand and its buddy become one.                             *)
LEMMA MergeStep ==
  ASSUME HeapInv, merge_with_buddy
  PROVE  HeapInv'
<1> DEFINE p == run.ptr
           b == run.bucket
           d == Buddy(p, b)
           u == Upper(p, b)
<1>1. /\ run.pc = "coalesce" /\ MergesWithBuddy
      /\ node_is_split' = flip_parent_is_split(node_is_split, Node)
      /\ buckets' = list_remove(buckets, ptr_for_node(Sibling(Node), b))
      /\ run' = [run EXCEPT !.bucket = @ - 1,
                            !.ptr = ptr_for_node(Parent(Node), b - 1)]
      /\ base_ptr' = base_ptr /\ bucket_limit' = bucket_limit /\ max_ptr' = max_ptr
      /\ header' = header
  BY DEF merge_with_buddy
<1>2. /\ TypeOK /\ base_ptr /\ BreakInv /\ HeaderInv
      /\ Lists(buckets) /\ FreeBlocks = FreeOf(buckets) /\ bucket_limit \in Buckets
      /\ node_is_split \subseteq SplitNodes
      /\ Tree(FreeOf(buckets), UsedBlocks, {<<p, b>>}, bucket_limit, node_is_split)
      /\ max_ptr \in Nat /\ max_ptr <= MAX_ALLOC
      /\ b \in Buckets /\ p \in Nodes(b) /\ p \in Nat
      /\ p + LIST_SIZE <= max_ptr
      /\ b > bucket_limit /\ parent_is_split(node_is_split, Node)
  BY <1>1, Coalescing
<1>3. b > 0
  BY <1>2 DEF Buckets
<1>4. /\ b - 1 \in Buckets /\ u \in Nodes(b - 1) /\ d \in Nodes(b)
      /\ (p = u /\ d = u + SizeOf(b)) \/ (p = u + SizeOf(b) /\ d = u)
      /\ Parent(Node) = node_for_ptr(u, b - 1)
      /\ Sibling(Node) = node_for_ptr(d, b)
  BY <1>2, <1>3, UpperNode DEF Node
<1>5. ptr_for_node(Sibling(Node), b) = d /\ ptr_for_node(Parent(Node), b - 1) = u
  BY <1>2, <1>4, NodeOfPtr
<1>6. /\ <<d, b>> \in FreeOf(buckets)
      /\ Tree(FreeOf(buckets) \ {<<d, b>>}, UsedBlocks, {<<u, b - 1>>}, bucket_limit,
              Flipped(node_is_split, p, b))
  BY <1>2, MergeTree DEF Node
<1>7. node_is_split' = Flipped(node_is_split, p, b)
  <2>1. node_for_ptr(p, b) # 0
    BY <1>2, <1>3, NodeZero
  <2> QED
    BY <1>1, <2>1 DEF Flipped, Node
<1>8. Lists(buckets') /\ FreeOf(buckets') = FreeOf(buckets) \ {<<d, b>>}
  <2>1. buckets' = list_remove(buckets, d)
    BY <1>1, <1>5
  <2>2. /\ Lists(buckets) /\ bucket_limit \in Buckets /\ <<d, b>> \in FreeOf(buckets)
        /\ Tree(FreeOf(buckets), UsedBlocks, {<<p, b>>}, bucket_limit, node_is_split)
    BY <1>2, <1>6
  <2> HIDE DEF p, b, d
  <2>3. /\ Lists(list_remove(buckets, d))
        /\ FreeOf(list_remove(buckets, d)) = FreeOf(buckets) \ {<<d, b>>}
    BY <2>2, RemoveBlock
  <2> QED
    BY <2>1, <2>3
<1>9. u \in Nat /\ u <= p /\ u \in 0 .. MAX_ALLOC
  <2>1. u \in Nat /\ SizeOf(b) \in Nat
    BY <1>2, <1>4, Sizes DEF Nodes
  <2> QED
    BY <1>2, <1>4, <2>1, Sizes DEF Nodes, Buckets
<1>10. /\ run'.pc = "coalesce" /\ run'.ptr = u /\ run'.bucket = b - 1
       /\ run'.request = run.request
       /\ run' \in [pc : {"idle", "search", "grow", "split", "coalesce"},
                request : SIZE_T, bucket : Buckets, original : Buckets,
                ptr : {NULL} \cup 0 .. MAX_ALLOC]
  <2>1. run \in [pc : {"idle", "search", "grow", "split", "coalesce"},
               request : SIZE_T, bucket : Buckets, original : Buckets,
               ptr : {NULL} \cup 0 .. MAX_ALLOC]
    BY <1>2 DEF TypeOK
  <2> HIDE DEF u
  <2> QED
    BY <1>1, <1>4, <1>5, <1>9, <2>1
<1> HIDE DEF p, d, u
<1>11. UsedBlocks' = UsedBlocks /\ HeldBlocks' = {<<u, b - 1>>}
  BY <1>1, <1>10 DEF UsedBlocks, HeldBlocks
<1>12. Tree(FreeOf(buckets'), UsedBlocks', HeldBlocks', bucket_limit', node_is_split')
  BY <1>1, <1>6, <1>7, <1>8, <1>11
<1>13. /\ TreeInv' /\ FreeBlocks' = FreeOf(buckets')
       /\ buckets' \in [Buckets -> Seq(0 .. MAX_ALLOC - MIN_ALLOC)]
       /\ \A c \in 0 .. bucket_limit' - 1 : buckets'[c] = <<>>
       /\ node_is_split' \subseteq 0 .. 2 ^ (BUCKET_COUNT - 1) - 2
  <2>1. bucket_limit' \in Buckets /\ node_is_split' \subseteq SplitNodes
    BY <1>1, <1>2, <1>7, FlippedType
  <2> QED
    BY <1>8, <1>12, <2>1, TreeNext
<1>14. TypeOK'
  BY <1>1, <1>2, <1>10, <1>13 DEF TypeOK
<1>15. (IF base_ptr THEN TreeInv ELSE Untouched)'
  BY <1>1, <1>2, <1>13
<1>16. BreakInv'
  <2>1. u + LIST_SIZE <= max_ptr
    <3>1. LIST_SIZE \in Nat
      BY <1>2, ListFits
    <3> QED
      BY <1>2, <1>9, <3>1
  <2>2. Reserved'
    BY <1>1, <1>2, <1>8, <1>11, <1>13 DEF Reserved, BreakInv
  <2> QED
    BY <1>1, <1>10, <2>1, <2>2 DEF BreakInv
<1>17. HeaderInv'
  BY <1>1, <1>2 DEF HeaderInv
<1>18. SearchInv' /\ NullOnlyWhenExhausted'
  BY <1>10 DEF SearchInv, NullOnlyWhenExhausted
<1> QED
  BY <1>14, <1>15, <1>16, <1>17, <1>18 DEF HeapInv

(* The block in hand is returned to its list.                              *)
LEMMA FreeReturnStep ==
  ASSUME HeapInv, free_return
  PROVE  HeapInv'
<1> DEFINE p == run.ptr
           b == run.bucket
<1>1. /\ run.pc = "coalesce" /\ ~ MergesWithBuddy
      /\ node_is_split' = Flipped(node_is_split, p, b)
      /\ buckets' = list_push(buckets, b, p)
      /\ run' = Done(0, NULL)
      /\ base_ptr' = base_ptr /\ bucket_limit' = bucket_limit /\ max_ptr' = max_ptr
      /\ header' = header
  BY DEF free_return, Flipped, Node
<1>2. /\ TypeOK /\ base_ptr /\ BreakInv /\ HeaderInv
      /\ Lists(buckets) /\ FreeBlocks = FreeOf(buckets) /\ bucket_limit \in Buckets
      /\ node_is_split \subseteq SplitNodes
      /\ Tree(FreeOf(buckets), UsedBlocks, {<<p, b>>}, bucket_limit, node_is_split)
      /\ max_ptr \in Nat /\ max_ptr <= MAX_ALLOC
      /\ b \in Buckets /\ p \in Nodes(b) /\ p \in Nat /\ p \in Offsets
      /\ p + LIST_SIZE <= max_ptr
      /\ ~ (b > bucket_limit /\ parent_is_split(node_is_split, Node))
  BY <1>1, Coalescing
<1>3. Tree(FreeOf(buckets) \cup {<<p, b>>}, UsedBlocks, {}, bucket_limit,
           Flipped(node_is_split, p, b))
  <2>1. b > bucket_limit => ~ parent_is_split(node_is_split, node_for_ptr(p, b))
    BY <1>2 DEF Node
  <2> QED
    BY <1>2, <2>1, ReturnTree
<1>4. <<p, b>> \notin FreeOf(buckets)
  <2>1. {<<p, b>>} \cap (FreeOf(buckets) \cup UsedBlocks) = {}
    BY <1>2 DEF Tree
  <2> QED
    BY <2>1
<1>5. Lists(buckets') /\ FreeOf(buckets') = FreeOf(buckets) \cup {<<p, b>>}
  BY <1>1, <1>2, <1>4, PushFrees
<1>6. /\ run'.pc = "idle" /\ run'.request = 0
      /\ run' \in [pc : {"idle", "search", "grow", "split", "coalesce"},
               request : SIZE_T, bucket : Buckets, original : Buckets,
               ptr : {NULL} \cup 0 .. MAX_ALLOC]
  <2>1. 0 \in SIZE_T /\ 0 \in Buckets
    BY Sizes DEF SIZE_T, Buckets
  <2> QED
    BY <1>1, <2>1 DEF Done
<1> HIDE DEF p
<1>7. UsedBlocks' = UsedBlocks /\ HeldBlocks' = {}
  BY <1>1, <1>6 DEF UsedBlocks, HeldBlocks
<1>8. Tree(FreeOf(buckets'), UsedBlocks', HeldBlocks', bucket_limit', node_is_split')
  BY <1>1, <1>3, <1>5, <1>7
<1>9. /\ TreeInv' /\ FreeBlocks' = FreeOf(buckets')
      /\ buckets' \in [Buckets -> Seq(0 .. MAX_ALLOC - MIN_ALLOC)]
      /\ \A c \in 0 .. bucket_limit' - 1 : buckets'[c] = <<>>
      /\ node_is_split' \subseteq 0 .. 2 ^ (BUCKET_COUNT - 1) - 2
  <2>1. bucket_limit' \in Buckets /\ node_is_split' \subseteq SplitNodes
    BY <1>1, <1>2, FlippedType
  <2> QED
    BY <1>5, <1>8, <2>1, TreeNext
<1>10. TypeOK'
  BY <1>1, <1>2, <1>6, <1>9 DEF TypeOK
<1>11. (IF base_ptr THEN TreeInv ELSE Untouched)'
  BY <1>1, <1>2, <1>9
<1>12. BreakInv'
  <2>1. Reserved'
    BY <1>1, <1>2, <1>5, <1>7, <1>9 DEF Reserved, BreakInv
  <2> QED
    BY <1>6, <2>1 DEF BreakInv
<1>13. HeaderInv'
  BY <1>1, <1>2 DEF HeaderInv
<1>14. SearchInv' /\ NullOnlyWhenExhausted'
  BY <1>6 DEF SearchInv, NullOnlyWhenExhausted
<1> QED
  BY <1>10, <1>11, <1>12, <1>13, <1>14 DEF HeapInv

(* What both ways to grow the tree know: the search has not looked at any  *)
(* bucket yet, or found the list of the root empty.                        *)
LEMMA Growing ==
  ASSUME HeapInv, run.pc \in {"search", "grow"}, Wanted < bucket_limit
  PROVE  /\ TypeOK /\ base_ptr /\ BreakInv /\ HeaderInv /\ SearchInv
         /\ Lists(buckets) /\ FreeBlocks = FreeOf(buckets) /\ bucket_limit \in Buckets
         /\ node_is_split \subseteq SplitNodes
         /\ Tree(FreeOf(buckets), UsedBlocks, {}, bucket_limit, node_is_split)
         /\ max_ptr \in Nat /\ max_ptr <= MAX_ALLOC
         /\ bucket_limit > 0 /\ bucket_limit - 1 \in Buckets /\ bucket_limit \in Nat
         /\ run.pc = "search" => run.bucket = run.original
         /\ run.pc = "grow" => bucket_limit = run.bucket /\ buckets[bucket_limit] = <<>>
<1>1. /\ TypeOK /\ base_ptr /\ BreakInv /\ HeaderInv /\ SearchInv
  BY SetUp DEF HeapInv
<1>2. /\ Lists(buckets) /\ FreeBlocks = FreeOf(buckets) /\ bucket_limit \in Buckets
      /\ node_is_split \subseteq SplitNodes
      /\ Tree(FreeOf(buckets), UsedBlocks, HeldBlocks, bucket_limit, node_is_split)
      /\ max_ptr \in Nat /\ max_ptr <= MAX_ALLOC
  BY <1>1, HeapFacts
<1>3. HeldBlocks = {}
  BY DEF HeldBlocks
<1>4. /\ run.bucket \in Nat /\ run.original \in Nat /\ bucket_limit \in Nat
  <2>1. run.bucket \in Buckets /\ run.original \in Buckets
    BY <1>1 DEF TypeOK
  <2> QED
    BY <1>2, <2>1, Sizes DEF Buckets
<1>5. CASE run.pc = "search"
  <2>1. run.bucket < bucket_limit
    BY <1>5 DEF Wanted
  <2>2. run.bucket <= run.original /\ (run.bucket < run.original => bucket_limit <= run.bucket)
    BY <1>1, <1>5 DEF SearchInv
  <2>3. bucket_limit > 0 /\ run.bucket = run.original
    BY <1>4, <2>1, <2>2
  <2> QED
    BY <1>1, <1>2, <1>3, <1>4, <1>5, <2>3, RootNode
<1>6. CASE run.pc = "grow"
  <2>1. run.bucket - 1 < bucket_limit
    BY <1>6 DEF Wanted
  <2>2. /\ run.bucket >= 1
        /\ \/ bucket_limit = run.bucket /\ buckets[run.bucket] = <<>>
           \/ bucket_limit = run.bucket - 1 /\ buckets[run.bucket] # <<>>
    BY <1>1, <1>6 DEF SearchInv
  <2>3. bucket_limit > 0 /\ bucket_limit = run.bucket /\ buckets[bucket_limit] = <<>>
    BY <1>4, <2>1, <2>2
  <2> QED
    BY <1>1, <1>2, <1>3, <1>4, <1>6, <2>3, RootNode
<1> QED
  BY <1>5, <1>6

(* The tree is free as a whole: the doubled block replaces it.             *)
LEMMA LowerUnusedStep ==
  ASSUME HeapInv, lower_bucket_limit, lower_unused
  PROVE  HeapInv'
<1> DEFINE l == bucket_limit
           up == l - 1
           after == list_remove(buckets, 0)
<1>1. /\ run.pc \in {"search", "grow"} /\ Wanted < bucket_limit
      /\ ~ parent_is_split(node_is_split, node_for_ptr(0, l))
      /\ buckets' = [after EXCEPT ![up] = <<0>>]
      /\ bucket_limit' = up
      /\ node_is_split' = node_is_split /\ max_ptr' = max_ptr
      /\ base_ptr' = base_ptr /\ header' = header /\ run' = run
  BY DEF lower_bucket_limit, lower_unused, Root, RemovedRoot
<1>2. /\ TypeOK /\ base_ptr /\ BreakInv /\ HeaderInv /\ SearchInv
      /\ Lists(buckets) /\ FreeBlocks = FreeOf(buckets) /\ l \in Buckets
      /\ node_is_split \subseteq SplitNodes
      /\ Tree(FreeOf(buckets), UsedBlocks, {}, l, node_is_split)
      /\ max_ptr \in Nat /\ max_ptr <= MAX_ALLOC
      /\ l > 0 /\ up \in Buckets /\ l \in Nat
      /\ run.pc = "search" => run.bucket = run.original
      /\ run.pc = "grow" => l = run.bucket /\ buckets[l] = <<>>
  BY <1>1, Growing
<1>3. <<0, l>> \in FreeOf(buckets) /\ FreeOf(buckets) = {<<0, l>>} /\ UsedBlocks = {}
  BY <1>1, <1>2, RootBit
<1>4. run.pc = "search" /\ run.bucket = run.original
  <2>1. 0 \in ToSet(buckets[l])
    BY <1>3, FreeMember
  <2>2. 0 \notin ToSet(<<>>)
    BY DEF ToSet
  <2> QED
    BY <1>1, <1>2, <2>1, <2>2
<1>5. Lists(after) /\ FreeOf(after) = {}
  <2>1. Lists(after) /\ FreeOf(after) = FreeOf(buckets) \ {<<0, l>>}
    <3>1. Tree(FreeOf(buckets), UsedBlocks, {}, l, node_is_split) /\ Lists(buckets)
          /\ <<0, l>> \in FreeOf(buckets) /\ l \in Buckets
      BY <1>2, <1>3
    <3> HIDE DEF l
    <3> QED
      BY <3>1, RemoveBlock
  <2> QED
    BY <1>3, <2>1
<1> HIDE DEF after
<1>6. after[up] = <<>>
  <2>1. after[up] \in Seq(Offsets)
    BY <1>2, <1>5 DEF Lists
  <2>2. ASSUME after[up] # <<>> PROVE FALSE
    <3>1. Last(after[up]) \in ToSet(after[up])
      BY <2>1, <2>2, LastEntry
    <3>2. <<Last(after[up]), up>> \in FreeOf(after)
      BY <1>2, <3>1, FreeMember
    <3> QED
      BY <1>5, <3>2
  <2> QED
    BY <2>2
<1>7. Lists(buckets') /\ FreeOf(buckets') = {<<0, up>>}
  <2>1. Append(<<>>, 0) = <<0>>
    OBVIOUS
  <2>2. buckets' = list_push(after, up, 0)
    BY <1>1, <1>6, <2>1 DEF list_push
  <2>3. 0 \in Offsets
    <3> DEFINE whole == {<<0, up>>}
    <3>1. Laid(whole, SizeOf(up)) /\ <<0, up>> \in whole
      BY <1>2, WholeTiling
    <3> HIDE DEF whole, up
    <3> QED
      BY <1>2, <3>1, LaidBlock
  <2>4. Lists(buckets') /\ FreeOf(buckets') = FreeOf(after) \cup {<<0, up>>}
    BY <1>2, <1>5, <2>2, <2>3, PushFrees
  <2> QED
    BY <1>5, <2>4
<1>8. UsedBlocks' = {} /\ HeldBlocks' = {}
  BY <1>1, <1>3, <1>4 DEF UsedBlocks, HeldBlocks
<1>9. Tree(FreeOf(buckets'), UsedBlocks', HeldBlocks', bucket_limit', node_is_split')
  <2>1. Tree({<<0, l>>}, {}, {}, l, node_is_split)
    BY <1>2, <1>3
  <2> QED
    BY <1>1, <1>2, <1>7, <1>8, <2>1, GrowFreeTree
<1>10. /\ TreeInv' /\ FreeBlocks' = FreeOf(buckets')
       /\ buckets' \in [Buckets -> Seq(0 .. MAX_ALLOC - MIN_ALLOC)]
       /\ \A c \in 0 .. bucket_limit' - 1 : buckets'[c] = <<>>
       /\ node_is_split' \subseteq 0 .. 2 ^ (BUCKET_COUNT - 1) - 2
  <2>1. bucket_limit' \in Buckets /\ node_is_split' \subseteq SplitNodes
    BY <1>1, <1>2
  <2> QED
    BY <1>7, <1>9, <2>1, TreeNext
<1>11. TypeOK'
  <2>1. bucket_limit' \in Buckets
    BY <1>1, <1>2
  <2> QED
    BY <1>1, <1>2, <1>10, <2>1 DEF TypeOK
<1>12. (IF base_ptr THEN TreeInv ELSE Untouched)'
  BY <1>1, <1>2, <1>10
<1>13. BreakInv'
  <2>1. 0 + LIST_SIZE <= max_ptr
    <3>1. \A block \in FreeOf(buckets) : block[1] + LIST_SIZE <= max_ptr
      BY <1>2 DEF BreakInv, Reserved
    <3> QED
      BY <1>3, <3>1
  <2>2. Reserved'
    BY <1>1, <1>7, <1>8, <1>10, <2>1 DEF Reserved
  <2> QED
    BY <1>1, <1>4, <2>2 DEF BreakInv
<1>14. HeaderInv'
  BY <1>1, <1>2 DEF HeaderInv
<1>15. SearchInv'
  <2>1. Empty(run.bucket + 1, run.original)' /\ ~ (run.bucket < run.original)
    <3>1. run.original \in Int
      BY <1>2 DEF TypeOK, Buckets
    <3>2. \A b : ~ (b \in run.original + 1 .. run.original)
      BY <3>1
    <3> QED
      BY <1>1, <1>4, <3>1, <3>2 DEF Empty
  <2> QED
    BY <1>1, <1>2, <1>4, <2>1 DEF SearchInv
<1>16. NullOnlyWhenExhausted'
  BY <1>1, <1>4 DEF NullOnlyWhenExhausted
<1> QED
  BY <1>11, <1>12, <1>13, <1>14, <1>15, <1>16 DEF HeapInv

(* The tree is in use: it becomes the left half of a new root.             *)
LEMMA LowerUsedStep ==
  ASSUME HeapInv, lower_bucket_limit, lower_used
  PROVE  HeapInv'
<1> DEFINE l == bucket_limit
           up == l - 1
           N == <<SizeOf(l), l>>
           root == node_for_ptr(0, l)
           need == SizeOf(l) + LIST_SIZE
<1>1. /\ run.pc \in {"search", "grow"} /\ Wanted < bucket_limit
      /\ parent_is_split(node_is_split, root)
      /\ max_ptr' = update_max_ptr(ptr_for_node(root + 1, l) + LIST_SIZE)
      /\ buckets' = [list_push(buckets, l, ptr_for_node(root + 1, l)) EXCEPT ![up] = <<>>]
      /\ bucket_limit' = up
      /\ node_is_split' = IF Parent(root) = 0 THEN node_is_split
                          ELSE flip_parent_is_split(node_is_split, Parent(root))
      /\ base_ptr' = base_ptr /\ header' = header /\ run' = run
  BY DEF lower_bucket_limit, lower_used, Root, PushedRightChild, RightChild, FlippedRootParent
<1>2. /\ TypeOK /\ base_ptr /\ BreakInv /\ HeaderInv /\ SearchInv
      /\ Lists(buckets) /\ FreeBlocks = FreeOf(buckets) /\ l \in Buckets
      /\ node_is_split \subseteq SplitNodes
      /\ Tree(FreeOf(buckets), UsedBlocks, {}, l, node_is_split)
      /\ max_ptr \in Nat /\ max_ptr <= MAX_ALLOC
      /\ l > 0 /\ up \in Buckets /\ l \in Nat
      /\ run.pc = "search" => run.bucket = run.original
      /\ run.pc = "grow" => l = run.bucket /\ buckets[l] = <<>>
  BY <1>1, Growing
<1>3. /\ 0 \in Nodes(up) /\ up + 1 = l /\ SizeOf(l) \in Nat \ {0}
      /\ Parent(root) = node_for_ptr(0, up) /\ SizeOf(up) = 2 * SizeOf(l)
  BY <1>2, RootNode, Sizes
<1>4. SizeOf(l) \in Nodes(l) /\ node_for_ptr(SizeOf(l), l) = root + 1
  <2>1. /\ 0 + SizeOf(up + 1) \in Nodes(up + 1)
        /\ node_for_ptr(0 + SizeOf(up + 1), up + 1) = node_for_ptr(0, up + 1) + 1
    BY <1>2, <1>3, Halves
  <2>2. 0 + SizeOf(l) = SizeOf(l)
    BY <1>3
  <2> QED
    BY <1>3, <2>1, <2>2
<1>5. ptr_for_node(root + 1, l) = SizeOf(l)
  BY <1>2, <1>4, NodeOfPtr
<1>6. node_is_split' = Flipped(node_is_split, 0, up)
  BY <1>1, <1>3 DEF Flipped
<1>7. <<0, l>> \notin FreeOf(buckets)
  BY <1>1, <1>2, RootBit
<1>8. /\ N \notin FreeOf(buckets)
      /\ Tree(FreeOf(buckets) \cup {N}, UsedBlocks, {}, up, Flipped(node_is_split, 0, up))
  BY <1>2, <1>7, GrowUsedTree
<1>9. SizeOf(l) \in Offsets
  <2>1. Laid((FreeOf(buckets) \cup {N}) \cup UsedBlocks \cup {}, SizeOf(up))
    BY <1>8 DEF Tree
  <2>2. <<SizeOf(l), l>> \in (FreeOf(buckets) \cup {N}) \cup UsedBlocks \cup {}
    OBVIOUS
  <2> HIDE DEF N, up, l
  <2> QED
    BY <1>2, <2>1, <2>2, LaidBlock
<1> HIDE DEF root, N
<1>10. buckets' = list_push(buckets, l, SizeOf(l))
  <2> DEFINE pushed == list_push(buckets, l, SizeOf(l))
  <2>1. buckets' = [pushed EXCEPT ![up] = <<>>]
    BY <1>1, <1>5
  <2>2. buckets[up] = <<>> /\ up # l
    <3>1. up \in 0 .. l - 1 /\ up # l
      BY <1>2
    <3>2. \A c \in 0 .. l - 1 : buckets[c] = <<>>
      BY <1>2 DEF TypeOK
    <3> QED
      BY <3>1, <3>2
  <2>3. pushed[up] = <<>> /\ pushed = [c \in Buckets |-> pushed[c]]
    BY <1>2, <2>2 DEF list_push, Lists
  <2> HIDE DEF pushed
  <2>4. buckets' = pushed
    BY <2>1, <2>3
  <2> QED
    BY <2>4 DEF pushed
<1>11. Lists(buckets') /\ FreeOf(buckets') = FreeOf(buckets) \cup {N}
  BY <1>2, <1>8, <1>9, <1>10, PushFrees DEF N
<1>12. UsedBlocks' = UsedBlocks /\ HeldBlocks' = {}
  BY <1>1 DEF UsedBlocks, HeldBlocks
<1>13. Tree(FreeOf(buckets'), UsedBlocks', HeldBlocks', bucket_limit', node_is_split')
  BY <1>1, <1>6, <1>8, <1>11, <1>12
<1>14. /\ TreeInv' /\ FreeBlocks' = FreeOf(buckets')
       /\ buckets' \in [Buckets -> Seq(0 .. MAX_ALLOC - MIN_ALLOC)]
       /\ \A c \in 0 .. bucket_limit' - 1 : buckets'[c] = <<>>
       /\ node_is_split' \subseteq 0 .. 2 ^ (BUCKET_COUNT - 1) - 2
  <2>1. bucket_limit' \in Buckets /\ node_is_split' \subseteq SplitNodes
    BY <1>1, <1>2, <1>3, <1>6, FlippedType
  <2> QED
    BY <1>11, <1>13, <2>1, TreeNext
<1>15. /\ need \in Nat /\ need <= MAX_ALLOC /\ LIST_SIZE \in Nat
  <2>1. LIST_SIZE \in Nat /\ LIST_SIZE <= SizeOf(l)
    BY <1>2, ListFits
  <2>2. SizeOf(up) <= MAX_ALLOC /\ MAX_ALLOC \in Nat
    <3>1. 0 \in Buckets /\ 0 <= up
      BY <1>2, Sizes DEF Buckets
    <3> QED
      BY <1>2, <3>1, Sizes, LaterSizes
  <2> QED
    BY <1>3, <2>1, <2>2
<1> HIDE DEF need
<1>16. max_ptr' >= need /\ max_ptr' >= max_ptr /\ max_ptr' \in 0 .. MAX_ALLOC
  <2>1. max_ptr' = update_max_ptr(need) /\ need \in Int /\ max_ptr \in Int
    BY <1>1, <1>2, <1>5, <1>15 DEF need
  <2>2. update_max_ptr(need) >= need /\ update_max_ptr(need) >= max_ptr
        /\ update_max_ptr(need) \in {need, max_ptr}
    BY <2>1, MaxPtr
  <2>3. MAX_ALLOC \in Nat
    BY Sizes DEF Buckets
  <2> QED
    BY <1>2, <1>15, <2>1, <2>2, <2>3
<1>17. TypeOK'
  <2>1. bucket_limit' \in Buckets
    BY <1>1, <1>2
  <2> QED
    BY <1>1, <1>2, <1>14, <1>16, <2>1 DEF TypeOK
<1>18. (IF base_ptr THEN TreeInv ELSE Untouched)'
  BY <1>1, <1>2, <1>14
<1>19. BreakInv'
  <2>1. Reserved /\ \A block \in FreeOf(buckets) \cup UsedBlocks :
          block[1] \in Nat /\ SizeOf(block[2]) \in Nat
    BY <1>2, BlockTypes DEF BreakInv
  <2>2. \A block \in FreeOf(buckets) : block[1] + LIST_SIZE <= max_ptr'
    BY <1>2, <1>15, <1>16, <2>1 DEF Reserved
  <2>3. \A block \in UsedBlocks : block[1] + SizeOf(block[2]) <= max_ptr'
    BY <1>2, <1>16, <2>1 DEF Reserved
  <2>4. N[1] + LIST_SIZE <= max_ptr'
    BY <1>16 DEF N, need
  <2>5. Reserved'
    BY <1>11, <1>12, <1>14, <2>2, <2>3, <2>4 DEF Reserved
  <2> QED
    BY <1>1, <2>5 DEF BreakInv
<1>20. HeaderInv'
  BY <1>1, <1>2 DEF HeaderInv
<1>21. SearchInv'
  <2>1. CASE run.pc = "search"
    <3>1. run.original \in Int /\ run.bucket = run.original
      BY <1>2, <2>1 DEF TypeOK, Buckets
    <3>2. \A b : ~ (b \in run.original + 1 .. run.original)
      BY <3>1
    <3>3. Empty(run.bucket + 1, run.original)' /\ ~ (run.bucket < run.original)
      BY <1>1, <3>1, <3>2 DEF Empty
    <3> QED
      BY <1>1, <1>2, <2>1, <3>3 DEF SearchInv
  <2>2. CASE run.pc = "grow"
    <3>1. bucket_limit' = run.bucket - 1 /\ run.bucket = l
      BY <1>1, <1>2, <2>2
    <3>2. buckets'[l] # <<>>
      <4>1. SizeOf(l) \in ToSet(buckets'[l])
        BY <1>11, FreeMember DEF N
      <4>2. ToSet(<<>>) = {}
        BY DEF ToSet
      <4> QED
        BY <4>1, <4>2
    <3> QED
      BY <1>1, <1>2, <2>2, <3>1, <3>2 DEF SearchInv
  <2> QED
    BY <1>1, <2>1, <2>2
<1>22. NullOnlyWhenExhausted'
  BY <1>1 DEF NullOnlyWhenExhausted
<1> QED
  BY <1>17, <1>18, <1>19, <1>20, <1>21, <1>22 DEF HeapInv

-----------------------------------------------------------------------------
\* The invariant holds

(* Before the first call nothing is set up.                                *)
LEMMA InitHolds ==
  ASSUME Init
  PROVE  HeapInv
<1>1. MAX_ALLOC \in Nat /\ 0 \in Buckets /\ 0 \in SIZE_T
  BY Sizes DEF Buckets, SIZE_T
<1>2. /\ base_ptr = FALSE /\ buckets = [b \in Buckets |-> <<>>] /\ bucket_limit = 0
      /\ node_is_split = {} /\ max_ptr = 0 /\ header = [p \in {} |-> 0]
      /\ run = Done(0, NULL)
  BY DEF Init
<1>3. TypeOK
  <2>1. run \in [pc : {"idle", "search", "grow", "split", "coalesce"},
               request : SIZE_T, bucket : Buckets, original : Buckets,
               ptr : {NULL} \cup 0 .. MAX_ALLOC]
    BY <1>1, <1>2 DEF Done
  <2>2. DOMAIN header = {} /\ header \in [{} -> SIZE_T]
    BY <1>2
  <2>3. buckets \in [Buckets -> Seq(0 .. MAX_ALLOC - MIN_ALLOC)]
    BY <1>2
  <2>4. base_ptr \in BOOLEAN /\ bucket_limit \in Buckets
    BY <1>1, <1>2
  <2>5. \A b \in 0 .. bucket_limit - 1 : buckets[b] = <<>>
    <3>1. \A b : ~ (b \in 0 .. 0 - 1)
      OBVIOUS
    <3> QED
      BY <1>2, <3>1
  <2>6. /\ node_is_split \subseteq 0 .. 2 ^ (BUCKET_COUNT - 1) - 2
        /\ DOMAIN header \subseteq 0 .. MAX_ALLOC - MIN_ALLOC
    BY <1>2, <2>2
  <2>7. max_ptr \in 0 .. MAX_ALLOC
    BY <1>1, <1>2
  <2>8. header \in [DOMAIN header -> SIZE_T]
    BY <2>2
  <2> QED
    BY <2>1, <2>3, <2>4, <2>5, <2>6, <2>7, <2>8 DEF TypeOK
<1>4. Untouched /\ run.pc = "idle" /\ run.request = 0 /\ DOMAIN header = {}
  BY <1>2 DEF Untouched, Done
<1>5. FreeBlocks = {} /\ UsedBlocks = {}
  BY <1>3, <1>4, FirstLists DEF FreeBlocks, FreeOf
<1>6. BreakInv /\ HeaderInv /\ SearchInv /\ NullOnlyWhenExhausted
  BY <1>4, <1>5 DEF BreakInv, Reserved, HeaderInv, SearchInv, NullOnlyWhenExhausted
<1> QED
  BY <1>2, <1>3, <1>4, <1>6 DEF HeapInv

(* A call of free with NULL changes nothing.                               *)
LEMMA StutterStep ==
  ASSUME HeapInv, UNCHANGED vars
  PROVE  HeapInv'
<1>1. /\ base_ptr' = base_ptr /\ buckets' = buckets /\ bucket_limit' = bucket_limit
      /\ node_is_split' = node_is_split /\ max_ptr' = max_ptr /\ header' = header
      /\ run' = run
  BY DEF vars
<1>2. FreeBlocks' = FreeBlocks /\ UsedBlocks' = UsedBlocks /\ HeldBlocks' = HeldBlocks
  BY <1>1 DEF FreeBlocks, UsedBlocks, HeldBlocks
<1>3. TypeOK'
  BY <1>1 DEF HeapInv, TypeOK
<1>4. (IF base_ptr THEN TreeInv ELSE Untouched)'
  BY <1>1, <1>2 DEF HeapInv, TreeInv, Untouched
<1>5. BreakInv'
  BY <1>1, <1>2 DEF HeapInv, BreakInv, Reserved
<1>6. HeaderInv'
  BY <1>1 DEF HeapInv, HeaderInv
<1>7. SearchInv'
  BY <1>1 DEF HeapInv, SearchInv, Empty
<1>8. NullOnlyWhenExhausted'
  BY <1>1 DEF HeapInv, NullOnlyWhenExhausted
<1> QED
  BY <1>3, <1>4, <1>5, <1>6, <1>7, <1>8 DEF HeapInv

(* Every step of a running malloc or free keeps the invariant.             *)
LEMMA ContinueStep ==
  ASSUME HeapInv, Continue
  PROVE  HeapInv'
<1>1. CASE lower_bucket_limit
  <2>1. lower_unused \/ lower_used
    BY <1>1 DEF lower_bucket_limit
  <2> QED
    BY <1>1, <2>1, LowerUnusedStep, LowerUsedStep
<1>2. CASE search_next
  BY <1>2, SearchNextStep
<1>3. CASE take_block
  BY <1>3, TakeStep
<1>4. CASE split_block
  BY <1>4, SplitStep
<1>5. CASE malloc_return
  BY <1>5, MallocReturnStep
<1>6. CASE merge_with_buddy
  BY <1>6, MergeStep
<1>7. CASE free_return
  BY <1>7, FreeReturnStep
<1> QED
  BY <1>1, <1>2, <1>3, <1>4, <1>5, <1>6, <1>7 DEF Continue

(* Every step of the heap and of its callers keeps the invariant.          *)
LEMMA NextHolds ==
  ASSUME HeapInv, [Next]_vars
  PROVE  HeapInv'
<1>1. CASE \E request \in Requests : malloc_too_large(request) \/ malloc(request)
  BY <1>1, TooLargeStep, MallocStep
<1>2. CASE \E block \in DOMAIN header : free(block + HEADER_SIZE)
  BY <1>2, FreeStep
<1>3. CASE Continue
  BY <1>3, ContinueStep
<1>4. CASE UNCHANGED vars
  BY <1>4, StutterStep
<1> QED
  BY <1>1, <1>2, <1>3, <1>4 DEF Next

(* The invariant of the heap holds in every state: malloc and free keep    *)
(* the tiling, the bits, the lists, the break and the headers together.    *)
THEOREM HeapInvariant == Spec => []HeapInv
<1>1. Init => HeapInv
  BY InitHolds
<1>2. HeapInv /\ [Next]_vars => HeapInv'
  BY NextHolds
<1> QED
  BY <1>1, <1>2, PTL DEF Spec

-----------------------------------------------------------------------------
\* The properties of the runs

(* The values stay in range: every index into the array of bits and into   *)
(* the lists is inside of it.                                              *)
THEOREM HeapTypes == Spec => []TypeOK
<1>1. HeapInv => TypeOK
  BY DEF HeapInv
<1> QED
  BY <1>1, HeapInvariant, PTL

(* The invariant implies the tiling, counted unit by unit.                 *)
LEMMA TilingHolds ==
  ASSUME HeapInv
  PROVE  Tiling
<1>1. SUFFICES ASSUME base_ptr PROVE Tiling
  BY DEF Tiling
<1> DEFINE blocks == FreeBlocks \cup UsedBlocks \cup HeldBlocks
<1>2. /\ \A b \in Buckets : IsInjective(buckets[b])
      /\ FreeBlocks \cap UsedBlocks = {}
      /\ HeldBlocks \cap (FreeBlocks \cup UsedBlocks) = {}
      /\ Laid(blocks, SizeOf(bucket_limit)) /\ Tiled(blocks, SizeOf(bucket_limit))
  BY <1>1 DEF HeapInv, TreeInv, Tree
<1>3. SizeOf(bucket_limit) \in Nat \ {0} /\ MIN_ALLOC \in Nat \ {0}
  <2>1. bucket_limit \in Buckets
    BY <1>1, HeapFacts
  <2> QED
    BY <2>1, Sizes DEF Buckets
<1>4. ASSUME NEW k \in 0 .. SizeOf(bucket_limit) \div MIN_ALLOC - 1
      PROVE  Cardinality({block \in blocks : Covers(block, k * MIN_ALLOC)}) = 1
  <2> DEFINE x == k * MIN_ALLOC
             there == {block \in blocks : Covers(block, x)}
  <2>1. x \in 0 .. SizeOf(bucket_limit) - 1 /\ x \in Nat
    <3> DEFINE s == SizeOf(bucket_limit)
               m == MIN_ALLOC
    <3> HIDE DEF s, m
    <3>1. s \in Nat \ {0} /\ m \in Nat \ {0} /\ k \in 0 .. s \div m - 1
      BY <1>3 DEF s, m
    <3>2. s \div m \in Int /\ s % m \in 0 .. m - 1 /\ s = m * (s \div m) + (s % m)
      BY <3>1, DivMod
    <3>3. k \in Nat /\ k + 1 <= s \div m
      BY <3>1, <3>2
    <3>4. k * m \in Nat /\ (k + 1) * m = k * m + m
      BY <3>1, <3>3
    <3>5. (k + 1) * m <= (s \div m) * m
      BY <3>1, <3>2, <3>3
    <3>6. (s \div m) * m = m * (s \div m)
      BY <3>1, <3>2
    <3>7. k * m < s
      BY <3>1, <3>2, <3>4, <3>5, <3>6
    <3> QED
      BY <3>1, <3>4, <3>7 DEF s, m
  <2>2. PICK block \in blocks : Covers(block, x)
    BY <1>2, <2>1 DEF Tiled
  <2>3. \A other \in blocks : Covers(other, x) => other = block
    BY <1>2, <2>1, <2>2 DEF Tiled
  <2> HIDE DEF blocks
  <2>4. there = {block}
    BY <2>2, <2>3
  <2> HIDE DEF there
  <2>5. Cardinality(there) = 1
    BY <2>4, FS_Singleton
  <2> QED
    BY <2>5 DEF there
<1>5. \A block \in blocks : /\ block[1] % SizeOf(block[2]) = 0
                            /\ block[1] + SizeOf(block[2]) <= SizeOf(bucket_limit)
  BY <1>2 DEF Laid
<1> QED
  BY <1>2, <1>4, <1>5 DEF Tiling

(* The free blocks, the allocations and the block in the hands of the      *)
(* running call tile the tree: no memory is handed out twice or lost.      *)
THEOREM BlocksTile == Spec => []Tiling
BY TilingHolds, HeapInvariant, PTL

(* Every byte the heap or its client may write lies below the break.       *)
THEOREM BreakCovers == Spec => []Reserved
<1>1. HeapInv => Reserved
  BY DEF HeapInv, BreakInv
<1> QED
  BY <1>1, HeapInvariant, PTL

(* After the tree has grown above a used root, malloc finds a block.       *)
THEOREM GrowingYields == Spec => []GrowYieldsBlock
<1>1. HeapInv => GrowYieldsBlock
  <2>1. SUFFICES ASSUME HeapInv, run.pc = "grow", run.bucket > bucket_limit
                 PROVE  buckets[run.bucket] # <<>>
    BY DEF GrowYieldsBlock
  <2>2. bucket_limit \in Int
    BY <2>1 DEF HeapInv, TypeOK, Buckets
  <2> QED
    BY <2>1, <2>2 DEF HeapInv, SearchInv
<1> QED
  BY <1>1, HeapInvariant, PTL

(* malloc gives up only where no block can be found or made.               *)
THEOREM NullIsExhausted == Spec => []NullOnlyWhenExhausted
<1>1. HeapInv => NullOnlyWhenExhausted
  BY DEF HeapInv
<1> QED
  BY <1>1, HeapInvariant, PTL

(* The invariant speaks of buddies by pointer, the property by node.       *)
LEMMA CoalescedHolds ==
  ASSUME HeapInv
  PROVE  Coalesced
<1>1. CASE ~ base_ptr
  <2>1. FreeBlocks = {}
    BY <1>1, FirstLists DEF HeapInv, FreeBlocks, FreeOf
  <2> QED
    BY <2>1 DEF Coalesced
<1>2. CASE base_ptr
  <2>1. SUFFICES ASSUME NEW block \in FreeBlocks, block[2] > bucket_limit
                 PROVE  LET node == node_for_ptr(block[1], block[2])
                        IN  <<ptr_for_node(Sibling(node), block[2]), block[2]>>
                              \notin FreeBlocks
    BY DEF Coalesced
  <2> DEFINE p == block[1]
             c == block[2]
  <2>2. /\ bucket_limit \in Buckets
        /\ Laid(FreeBlocks \cup UsedBlocks \cup HeldBlocks, SizeOf(bucket_limit))
        /\ Merged(FreeBlocks, bucket_limit)
    BY <1>2, HeapFacts DEF Tree
  <2>3. block = <<p, c>>
    BY <2>2 DEF Laid
  <2>4. p \in Nodes(c) /\ c \in Buckets /\ c > 0
    <3>1. <<p, c>> \in FreeBlocks \cup UsedBlocks \cup HeldBlocks
      BY <2>1, <2>3
    <3>2. p \in Nodes(c) /\ c \in Buckets
      BY <2>2, <3>1, LaidBlock
    <3> QED
      BY <2>1, <2>2, <3>2, Sizes DEF Buckets
  <2> HIDE DEF p, c
  <2>5. /\ Sibling(node_for_ptr(p, c)) = node_for_ptr(Buddy(p, c), c)
        /\ Buddy(p, c) \in Nodes(c)
    BY <2>4, UpperNode
  <2>6. ptr_for_node(Sibling(node_for_ptr(p, c)), c) = Buddy(p, c)
    BY <2>4, <2>5, NodeOfPtr
  <2>7. <<Buddy(p, c), c>> \notin FreeBlocks
    BY <2>1, <2>2 DEF Merged, p, c
  <2> QED
    BY <2>6, <2>7 DEF p, c
<1> QED
  BY <1>1, <1>2

(* Two free buddies never coexist outside of a running free.               *)
THEOREM BuddiesMerge == Spec => []Coalesced
BY CoalescedHolds, HeapInvariant, PTL

(* Every number of a node belongs to one bucket.                           *)
LEMMA NodeBucket ==
  ASSUME NEW node \in SplitNodes
  PROVE  \E b \in 0 .. BUCKET_COUNT - 2 : node \in 2 ^ b - 1 .. 2 ^ (b + 1) - 2
<1> DEFINE T == {m \in Nat : m \in Buckets /\ 2 ^ m > node + 1}
<1>1. BUCKET_COUNT - 1 \in T /\ node \in Nat
  <2>1. BUCKET_COUNT - 1 \in Buckets /\ BUCKET_COUNT - 1 \in Nat
    BY Sizes DEF Buckets
  <2>2. 2 ^ (BUCKET_COUNT - 1) \in Nat
    BY <2>1, Sizes
  <2> QED
    BY <2>1, <2>2 DEF SplitNodes
<1>2. PICK m \in T : \A k \in T : m <= k
  <2>1. T \in SUBSET Nat /\ T # {}
    BY <1>1
  <2> QED
    BY <2>1, LeastNatural
<1>3. m \in Buckets /\ m \in Nat /\ 2 ^ m > node + 1
  BY <1>2
<1>4. m # 0
  <2>1. node \in Nat /\ ~ (1 > node + 1)
    BY <1>1
  <2>2. 2 ^ 0 = 1
    BY Sizes
  <2> QED
    BY <1>3, <2>1, <2>2
<1>5. m - 1 \in Nat /\ m - 1 \in Buckets /\ m - 1 \in 0 .. BUCKET_COUNT - 2 /\ (m - 1) + 1 = m
  BY <1>3, <1>4, Sizes DEF Buckets
<1>6. m - 1 \notin T
  BY <1>2, <1>3
<1>7. ~ (2 ^ (m - 1) > node + 1)
  BY <1>5, <1>6
<1> HIDE DEF T
<1>8. 2 ^ (m - 1) \in Nat /\ 2 ^ m \in Nat
  BY <1>3, <1>5, Sizes
<1>9. node \in 2 ^ (m - 1) - 1 .. 2 ^ m - 2
  BY <1>1, <1>3, <1>7, <1>8
<1>10. node \in 2 ^ (m - 1) - 1 .. 2 ^ ((m - 1) + 1) - 2
  BY <1>5, <1>9
<1> QED
  BY <1>5, <1>10

(* The invariant speaks of bits by pointer, the property by node.          *)
LEMMA SplitBitsHold ==
  ASSUME HeapInv
  PROVE  SplitBits
<1>1. SUFFICES ASSUME base_ptr PROVE SplitBits
  BY DEF SplitBits
<1>2. BitsAgree(FreeBlocks, bucket_limit, node_is_split)
  BY <1>1, HeapFacts DEF Tree
<1>3. ASSUME NEW node \in 0 .. 2 ^ (BUCKET_COUNT - 1) - 2
      PROVE  \E bucket \in 0 .. BUCKET_COUNT - 2 :
               /\ node \in 2 ^ bucket - 1 .. 2 ^ (bucket + 1) - 2
               /\ node \in node_is_split <=>
                    /\ bucket >= bucket_limit - 1
                    /\ Differ(FreeBlocks, SizeOf(bucket_limit),
                              ptr_for_node(node, bucket), bucket)
  <2>1. node \in SplitNodes
    BY DEF SplitNodes
  <2>2. PICK b \in 0 .. BUCKET_COUNT - 2 : node \in 2 ^ b - 1 .. 2 ^ (b + 1) - 2
    BY <2>1, NodeBucket
  <2>3. b \in Buckets /\ b + 1 \in Buckets
    BY Sizes DEF Buckets
  <2>4. 2 ^ (b + 1) = 2 * 2 ^ b
    BY <2>3, Sizes
  <2>5. node \in 2 ^ b - 1 .. 2 * 2 ^ b - 2
    BY <2>2, <2>4
  <2>6. /\ ptr_for_node(node, b) \in Nodes(b)
        /\ node_for_ptr(ptr_for_node(node, b), b) = node
    BY <2>3, <2>5, PtrOfNode
  <2>7. node \in node_is_split <=>
          /\ b >= bucket_limit - 1
          /\ Differ(FreeBlocks, SizeOf(bucket_limit), ptr_for_node(node, b), b)
    BY <1>2, <2>6 DEF BitsAgree
  <2> QED
    BY <2>2, <2>7
<1> QED
  BY <1>3 DEF SplitBits, Differ, Unused

(* The bits of the tree are the exclusive-or of what the lists say of the  *)
(* two children.                                                           *)
THEOREM BitsMatchLists == Spec => []SplitBits
BY SplitBitsHold, HeapInvariant, PTL

-----------------------------------------------------------------------------
\* The heap as an allocator

\* No caller asks for so much that the sum with the header wraps.
NoWrap == \A request \in Requests : request + HEADER_SIZE < 2 * MAX_ALLOC

\* The sizes in the headers, and the one being served, are sizes asked for.
RequestInv ==
  /\ \A p \in DOMAIN header : header[p] \in Requests
  /\ run.pc \in {"search", "grow", "split"} => run.request \in Requests

(* The size that a call is serving does not change until it returns.       *)
LEMMA RequestStep ==
  ASSUME TypeOK, RequestInv, [Next]_vars
  PROVE  RequestInv'
<1> DEFINE Serves(r) == r.pc \in {"search", "grow", "split"} => r.request \in Requests
<1>1. Serves(run) /\ \A p \in DOMAIN header : header[p] \in Requests
  BY DEF RequestInv
<1>2. \A request, result : Done(request, result).pc = "idle"
  BY DEF Done
<1>3. run = [pc |-> run.pc, request |-> run.request, bucket |-> run.bucket,
             original |-> run.original, ptr |-> run.ptr]
  BY DEF TypeOK
<1>4. CASE \E request \in Requests : malloc_too_large(request) \/ malloc(request)
  <2>1. PICK request \in Requests : malloc_too_large(request) \/ malloc(request)
    BY <1>4
  <2>2. header' = header
    BY <2>1 DEF malloc_too_large, malloc
  <2>3. Serves(run')
    BY <1>2, <2>1 DEF malloc_too_large, malloc
  <2> QED
    BY <1>1, <2>2, <2>3 DEF RequestInv
<1>5. CASE \E block \in DOMAIN header : free(block + HEADER_SIZE)
  <2>1. PICK block \in DOMAIN header : free(block + HEADER_SIZE)
    BY <1>5
  <2>2. \E b : header' = [p \in DOMAIN header \ {b} |-> header[p]]
    BY <2>1 DEF free
  <2>3. \A p \in DOMAIN header' : header'[p] \in Requests
    BY <1>1, <2>2
  <2>4. run'.pc = "coalesce"
    BY <2>1 DEF free
  <2> QED
    BY <2>3, <2>4 DEF RequestInv
<1>6. CASE malloc_return
  <2>1. /\ run.request \in Requests
        /\ header' = [p \in DOMAIN header \cup {run.ptr} |->
                        IF p = run.ptr THEN run.request ELSE header[p]]
    BY <1>1, <1>6 DEF malloc_return
  <2>2. \A p \in DOMAIN header' : header'[p] \in Requests
    BY <1>1, <2>1
  <2>3. run'.pc = "idle"
    BY <1>2, <1>6 DEF malloc_return
  <2> QED
    BY <2>2, <2>3 DEF RequestInv
<1>7. CASE lower_bucket_limit
  <2>1. header' = header /\ run' = run
    BY <1>7 DEF lower_bucket_limit
  <2> QED
    BY <2>1 DEF RequestInv
<1>8. CASE search_next
  <2>1. header' = header /\ run.request \in Requests
    BY <1>1, <1>8 DEF search_next
  <2>2. run' \in {Done(run.request, NULL), [run EXCEPT !.bucket = @ - 1],
                  [run EXCEPT !.pc = "grow"]}
    BY <1>8 DEF search_next, NotFound
  <2>3. Serves(run')
    BY <1>2, <1>3, <2>1, <2>2
  <2> QED
    BY <1>1, <2>1, <2>3 DEF RequestInv
<1>9. CASE take_block
  <2>1. header' = header /\ run.request \in Requests
    BY <1>1, <1>9 DEF take_block
  <2>2. \E ptr : run' = [run EXCEPT !.pc = "split", !.ptr = ptr]
    BY <1>9 DEF take_block
  <2>3. run'.request = run.request
    BY <1>3, <2>2
  <2> QED
    BY <1>1, <2>1, <2>3 DEF RequestInv
<1>10. CASE split_block
  <2>1. header' = header /\ run.request \in Requests /\ run' = [run EXCEPT !.bucket = @ + 1]
    BY <1>1, <1>10 DEF split_block
  <2>2. run'.request = run.request
    BY <1>3, <2>1
  <2> QED
    BY <1>1, <2>1, <2>2 DEF RequestInv
<1>11. CASE merge_with_buddy
  <2>1. /\ header' = header /\ run.pc = "coalesce"
        /\ \E ptr : run' = [run EXCEPT !.bucket = @ - 1, !.ptr = ptr]
    BY <1>11 DEF merge_with_buddy
  <2>2. run'.pc = "coalesce"
    BY <1>3, <2>1
  <2> QED
    BY <1>1, <2>1, <2>2 DEF RequestInv
<1>12. CASE free_return
  <2>1. header' = header /\ run'.pc = "idle"
    BY <1>2, <1>12 DEF free_return
  <2> QED
    BY <1>1, <2>1 DEF RequestInv
<1>13. CASE UNCHANGED vars
  BY <1>13 DEF vars, RequestInv
<1> QED
  BY <1>4, <1>5, <1>6, <1>7, <1>8, <1>9, <1>10, <1>11, <1>12, <1>13 DEF Next, Continue

(* What malloc writes in front of an allocation is the size asked for.     *)
THEOREM RequestInvariant == Spec => []RequestInv
<1>1. Init => RequestInv
  BY DEF Init, RequestInv, Done
<1>2. TypeOK /\ RequestInv /\ [Next]_vars => RequestInv'
  BY RequestStep
<1> QED
  BY <1>1, <1>2, HeapTypes, PTL DEF Spec

\* The live allocations, as the refinement maps them
Live(sizes) ==
  [p \in {q + HEADER_SIZE : q \in DOMAIN sizes} |-> sizes[p - HEADER_SIZE]]

(* Different blocks of the tree lie one behind the other.                  *)
LEMMA BlocksApart ==
  ASSUME NEW blocks, NEW limit \in Buckets,
         Laid(blocks, SizeOf(limit)), Tiled(blocks, SizeOf(limit)),
         NEW p, NEW b, NEW q, NEW c,
         <<p, b>> \in blocks, <<q, c>> \in blocks, <<p, b>> # <<q, c>>
  PROVE  p + SizeOf(b) <= q \/ q + SizeOf(c) <= p
<1>1. p \in Nat /\ q \in Nat /\ SizeOf(b) \in Nat /\ SizeOf(c) \in Nat
  <2>1. b \in Buckets /\ c \in Buckets /\ p \in Nat /\ q \in Nat
    BY LaidBlock
  <2> QED
    BY <2>1, Sizes
<1>2. Covers(<<p, b>>, p) /\ Covers(<<q, c>>, q)
  BY LaidBlock
<1>3. ~ Covers(<<q, c>>, p) /\ ~ Covers(<<p, b>>, q)
  BY <1>1, <1>2 DEF Tiled
<1> QED
  BY <1>1, <1>3 DEF Covers

(* A request that does not wrap is served from a block with room for it    *)
(* and for the header.                                                     *)
LEMMA Room ==
  ASSUME NoWrap, NEW request \in Requests
  PROVE  request \in Nat /\ WithHeader(request) = request + HEADER_SIZE
<1>1. /\ HEADER_SIZE \in Int /\ HEADER_SIZE >= 1 /\ request \in SIZE_T
      /\ MAX_ALLOC \in Nat
  <2>1. MIN_ALLOC \in Int /\ MAX_ALLOC \in Nat
    BY Sizes DEF Buckets
  <2> QED
    BY <2>1, HeapAssumption
<1>2. request \in Nat
  BY <1>1 DEF SIZE_T
<1>3. request + HEADER_SIZE \in 0 .. 2 * MAX_ALLOC - 1 /\ 2 * MAX_ALLOC \in Nat \ {0}
  BY <1>1, <1>2 DEF NoWrap
<1>4. \A m \in Nat \ {0} : \A x \in 0 .. m - 1 : x % m = x
  OBVIOUS
<1> QED
  BY <1>2, <1>3, <1>4 DEF WithHeader

(* The refinement lists an allocation at the address malloc returned.      *)
LEMMA LiveSizes ==
  ASSUME NEW sizes, DOMAIN sizes \subseteq Int
  PROVE  /\ DOMAIN Live(sizes) = {q + HEADER_SIZE : q \in DOMAIN sizes}
         /\ \A q \in DOMAIN sizes : Live(sizes)[q + HEADER_SIZE] = sizes[q]
<1>1. HEADER_SIZE \in Int
  BY HeapAssumption
<1>2. ASSUME NEW q \in DOMAIN sizes
      PROVE  (q + HEADER_SIZE) - HEADER_SIZE = q
  BY <1>1
<1>3. DOMAIN Live(sizes) = {q + HEADER_SIZE : q \in DOMAIN sizes}
  BY DEF Live
<1>4. ASSUME NEW q \in DOMAIN sizes
      PROVE  Live(sizes)[q + HEADER_SIZE] = sizes[q]
  <2> DEFINE r == q + HEADER_SIZE
  <2>1. r \in {p + HEADER_SIZE : p \in DOMAIN sizes} /\ r - HEADER_SIZE = q
    BY <1>2
  <2> HIDE DEF r
  <2>2. Live(sizes)[r] = sizes[r - HEADER_SIZE]
    BY <2>1 DEF Live
  <2> QED
    BY <2>1, <2>2 DEF r
<1> QED
  BY <1>3, <1>4

(* A live allocation lies inside of its block.                             *)
LEMMA UsedRoom ==
  ASSUME NoWrap, HeapInv, RequestInv, NEW q \in DOMAIN header
  PROVE  \E c \in Buckets : /\ <<q, c>> \in UsedBlocks
                            /\ q + HEADER_SIZE + header[q] <= q + SizeOf(c)
<1> DEFINE c == bucket_for_request(WithHeader(header[q]))
<1>1. /\ header[q] \in Nat /\ WithHeader(header[q]) = header[q] + HEADER_SIZE
      /\ HEADER_SIZE \in Int
  BY Room, HeapAssumption DEF RequestInv
<1>2. <<q, c>> \in UsedBlocks
  BY DEF UsedBlocks
<1>3. WithHeader(header[q]) <= SizeOf(c)
  BY DEF HeapInv, HeaderInv
<1>4. base_ptr
  BY SetUp
<1>5. c \in Buckets /\ q \in Nat
  <2>1. /\ bucket_limit \in Buckets
        /\ Laid(FreeOf(buckets) \cup UsedBlocks \cup HeldBlocks, SizeOf(bucket_limit))
    BY <1>4, HeapFacts DEF Tree
  <2>2. <<q, c>> \in FreeOf(buckets) \cup UsedBlocks \cup HeldBlocks
    BY <1>2
  <2> HIDE DEF c
  <2> QED
    BY <2>1, <2>2, LaidBlock
<1> HIDE DEF c
<1>6. SizeOf(c) \in Nat
  BY <1>5, Sizes
<1>7. q + HEADER_SIZE + header[q] <= q + SizeOf(c)
  BY <1>1, <1>3, <1>5, <1>6
<1> QED
  BY <1>2, <1>5, <1>7

(* malloc hands out memory that no live allocation has a byte of.          *)
LEMMA ReturnAllocates ==
  ASSUME NoWrap, HeapInv, RequestInv, malloc_return, NEW size \in Requests, size = run.request
  PROVE  Allocator!Malloc(size)
<1> DEFINE b == run.bucket
           p == run.ptr
           h == HEADER_SIZE
           top == SizeOf(bucket_limit)
           blocks == FreeOf(buckets) \cup UsedBlocks \cup HeldBlocks
<1>1. /\ run.pc = "split" /\ b = run.original
      /\ header' = [q \in DOMAIN header \cup {p} |-> IF q = p THEN size ELSE header[q]]
  BY DEF malloc_return
<1>2. base_ptr
  BY <1>1, SetUp
<1>3. /\ bucket_limit \in Buckets /\ Laid(blocks, top) /\ Tiled(blocks, top)
      /\ HeldBlocks \cap UsedBlocks = {}
  BY <1>2, HeapFacts DEF Tree
<1>4. HeldBlocks = {<<p, b>>}
  BY <1>1 DEF HeldBlocks
<1>5. <<p, b>> \in blocks /\ UsedBlocks \subseteq blocks /\ <<p, b>> \notin UsedBlocks
  BY <1>3, <1>4
<1>6. size \in Nat /\ WithHeader(size) = size + h /\ h \in Int /\ h >= 1
  <2>1. MIN_ALLOC \in Int
    BY Sizes DEF Buckets
  <2> QED
    BY <2>1, Room, HeapAssumption
<1>7. p \in Nat /\ b \in Buckets /\ p + SizeOf(b) <= top
  <2> HIDE DEF p, b, blocks, top
  <2>1. Laid(blocks, SizeOf(bucket_limit))
    BY <1>3 DEF top
  <2> QED
    BY <1>3, <1>5, <2>1, LaidBlock DEF top
<1>8. /\ SizeOf(b) \in Nat /\ top \in Nat /\ top <= MAX_ALLOC /\ MAX_ALLOC \in Nat
  <2>1. 0 \in Buckets /\ 0 <= bucket_limit
    BY <1>3, Sizes DEF Buckets
  <2> QED
    BY <1>3, <1>7, <2>1, Sizes, LaterSizes
<1>9. size + h <= SizeOf(b)
  <2>1. /\ WithHeader(size) <= MAX_ALLOC
        /\ b = bucket_for_request(WithHeader(size))
    BY <1>1 DEF HeapInv, SearchInv
  <2>2. WithHeader(size) \in Nat
    BY <1>6
  <2> HIDE DEF b
  <2>3. WithHeader(size) <= SizeOf(b)
    BY <2>1, <2>2, BucketForRequest
  <2> QED
    BY <1>6, <2>3
<1>10. DOMAIN header \subseteq Nat
  <2>1. MAX_ALLOC - MIN_ALLOC \in Int
    BY Sizes DEF Buckets
  <2> QED
    BY <2>1 DEF HeapInv, TypeOK
<1>11. ASSUME NEW q \in DOMAIN header
       PROVE  /\ q # p /\ q \in Nat /\ header[q] \in Nat
              /\ p + SizeOf(b) <= q \/ q + h + header[q] <= p
  <2>1. PICK c \in Buckets : /\ <<q, c>> \in UsedBlocks
                             /\ q + h + header[q] <= q + SizeOf(c)
    BY UsedRoom
  <2>2. <<p, b>> # <<q, c>> /\ <<q, c>> \in blocks
    BY <1>5, <2>1
  <2>3. p + SizeOf(b) <= q \/ q + SizeOf(c) <= p
    <3> HIDE DEF p, b, blocks, top
    <3>1. Laid(blocks, SizeOf(bucket_limit)) /\ Tiled(blocks, SizeOf(bucket_limit))
      BY <1>3 DEF top
    <3> QED
      BY <1>3, <1>5, <2>2, <3>1, BlocksApart
  <2>4. SizeOf(c) \in Nat \ {0} /\ SizeOf(b) \in Nat \ {0}
    BY <1>7, <2>1, Sizes
  <2>5. header[q] \in Nat /\ q \in Nat
    BY <1>10, Room DEF RequestInv
  <2> HIDE DEF p, b, h
  <2> QED
    BY <1>6, <1>7, <2>1, <2>3, <2>4, <2>5
<1> HIDE DEF p, b, top, h, blocks
<1>12. p + h \in 0 .. MAX_ALLOC - size
  BY <1>6, <1>7, <1>8, <1>9
<1>13. /\ DOMAIN Live(header) = {q + h : q \in DOMAIN header}
       /\ \A q \in DOMAIN header : Live(header)[q + h] = header[q]
  <2>1. DOMAIN header \subseteq Int
    BY <1>10
  <2> QED
    BY <2>1, LiveSizes DEF h
<1>14. p + h \notin DOMAIN Live(header)
  BY <1>6, <1>7, <1>11, <1>13
<1>15. ASSUME NEW r \in DOMAIN Live(header)
       PROVE  p + h + size <= r \/ r + Live(header)[r] <= p + h
  <2>1. PICK q \in DOMAIN header : r = q + h /\ Live(header)[r] = header[q]
    BY <1>13
  <2>2. /\ q \in Nat /\ header[q] \in Nat
        /\ p + SizeOf(b) <= q \/ q + h + header[q] <= p
    BY <1>11
  <2> QED
    BY <1>6, <1>7, <1>8, <1>9, <2>1, <2>2
<1>16. Live(header') = [r \in DOMAIN Live(header) \cup {p + h} |->
                          IF r = p + h THEN size ELSE Live(header)[r]]
  <2>1. DOMAIN header' = DOMAIN header \cup {p}
    BY <1>1 DEF p
  <2>2. {q + h : q \in DOMAIN header'} = DOMAIN Live(header) \cup {p + h}
    BY <1>13, <2>1
  <2>3. ASSUME NEW r \in DOMAIN Live(header) \cup {p + h}
        PROVE  header'[r - h] = IF r = p + h THEN size ELSE Live(header)[r]
    <3>1. CASE r = p + h
      <4>1. r - h = p
        BY <1>6, <1>7, <3>1
      <4> QED
        BY <1>1, <3>1, <4>1 DEF p
    <3>2. CASE r # p + h
      <4>1. PICK q \in DOMAIN header : r = q + h /\ Live(header)[r] = header[q]
        BY <1>13, <3>2
      <4>2. r - h = q /\ q # p
        BY <1>6, <1>11, <4>1
      <4>3. header'[q] = header[q]
        BY <1>1, <4>2 DEF p
      <4> QED
        BY <3>2, <4>1, <4>2, <4>3
    <3> QED
      BY <3>1, <3>2
  <2> QED
    BY <2>2, <2>3 DEF Live, h
<1> QED
  BY <1>12, <1>14, <1>15, <1>16 DEF Allocator!Malloc, Allocator!Apart, Live, p, h

(* free ends a live allocation, and no other one.                          *)
LEMMA FreeEnds ==
  ASSUME HeapInv, NEW block \in DOMAIN header, free(block + HEADER_SIZE)
  PROVE  Allocator!Next
<1> DEFINE h == HEADER_SIZE
<1>1. h \in Int /\ DOMAIN header \subseteq Int
  BY HeapAssumption DEF HeapInv, TypeOK
<1>2. (block + h) - h = block
  BY <1>1
<1>3. header' = [p \in DOMAIN header \ {block} |-> header[p]]
  <2> DEFINE ptr == block + h
  <2>1. ptr - h = block /\ free(ptr)
    BY <1>2
  <2> HIDE DEF ptr
  <2>2. header' = [p \in DOMAIN header \ {ptr - h} |-> header[p]]
    BY <2>1 DEF free
  <2> QED
    BY <2>1, <2>2
<1>4. /\ DOMAIN Live(header) = {q + h : q \in DOMAIN header}
      /\ \A q \in DOMAIN header : Live(header)[q + h] = header[q]
  BY <1>1, LiveSizes
<1> HIDE DEF h
<1>5. Live(header') = [r \in DOMAIN Live(header) \ {block + h} |-> Live(header)[r]]
  <2>1. DOMAIN header' = DOMAIN header \ {block}
    BY <1>3
  <2>2. ASSUME NEW q \in DOMAIN header, q + h = block + h
        PROVE  q = block
    <3>1. q \in Int /\ block \in Int
      BY <1>1
    <3> QED
      BY <1>1, <2>2, <3>1
  <2>3. {q + h : q \in DOMAIN header'} = DOMAIN Live(header) \ {block + h}
    BY <1>4, <2>1, <2>2
  <2>4. ASSUME NEW r \in DOMAIN Live(header) \ {block + h}
        PROVE  header'[r - h] = Live(header)[r]
    <3>1. PICK q \in DOMAIN header : r = q + h /\ Live(header)[r] = header[q]
      BY <1>4
    <3>2. r - h = q /\ q # block
      BY <1>1, <3>1
    <3> QED
      BY <1>3, <3>1, <3>2
  <2> QED
    BY <2>3, <2>4 DEF Live, h
<1>6. block + h \in DOMAIN Live(header)
  BY <1>4
<1>7. \E p \in DOMAIN Live(header) :
        Live(header') = [r \in DOMAIN Live(header) \ {p} |-> Live(header)[r]]
  BY <1>5, <1>6
<1> QED
  BY <1>7 DEF Allocator!Next, Allocator!Free, Live

(* The return of malloc and the begin of free are the steps of the         *)
(* allocator; every other step is internal.                                *)
LEMMA HeapStepRefines ==
  ASSUME NoWrap, HeapInv, RequestInv, [Next]_vars
  PROVE  [Allocator!Next]_(Live(header))
<1>1. CASE \E block \in DOMAIN header : free(block + HEADER_SIZE)
  BY <1>1, FreeEnds
<1>2. CASE malloc_return
  <2>1. PICK size \in Requests : size = run.request
    BY <1>2 DEF malloc_return, RequestInv
  <2>2. Allocator!Malloc(size)
    BY <1>2, <2>1, ReturnAllocates
  <2> QED
    BY <2>2 DEF Allocator!Next
<1>3. CASE header' = header
  BY <1>3 DEF Live
<1>4. CASE \E request \in Requests : malloc_too_large(request) \/ malloc(request)
  BY <1>3, <1>4 DEF malloc_too_large, malloc
<1>5. CASE \/ lower_bucket_limit \/ search_next \/ take_block \/ split_block
           \/ merge_with_buddy \/ free_return
  <2>1. header' = header
    BY <1>5 DEF lower_bucket_limit, search_next, take_block, split_block,
                merge_with_buddy, free_return
  <2> QED
    BY <1>3, <2>1
<1>6. CASE UNCHANGED vars
  BY <1>3, <1>6 DEF vars
<1> QED
  BY <1>1, <1>2, <1>4, <1>5, <1>6 DEF Next, Continue

(* Where no sum with the header wraps, the heap is an allocator: malloc    *)
(* gives out memory that belongs to no live allocation, with room for the  *)
(* request, and free ends a live allocation.                               *)
THEOREM HeapRefinement ==
  ASSUME NoWrap
  PROVE  Spec => ImplementsAllocator
<1>1. Init => Allocator!Init
  BY DEF Init, Allocator!Init
<1>2. HeapInv /\ RequestInv /\ [Next]_vars => [Allocator!Next]_(Live(header))
  BY HeapStepRefines
<1> QED
  BY <1>1, <1>2, HeapInvariant, RequestInvariant, PTL
     DEF Spec, ImplementsAllocator, Allocator!Spec, Live
=============================================================================
