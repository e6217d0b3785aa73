----------------------------- MODULE BuddyHeap -----------------------------
(***************************************************************************)
(* The kernel heap (heap_buddy_system_evanw.c): a buddy allocator whose    *)
(* tree starts with one smallest block and doubles when it is too small.   *)
(* malloc and free run alone, but their loops are modelled step by step:   *)
(* run holds the local variables of the running call.                      *)
(*                                                                         *)
(* Addresses are offsets from base_ptr.  A circular list is the sequence   *)
(* of its entries; list_push appends and list_pop takes the last one.  brk *)
(* (paging.c) never fails, so the branches for a failing update_max_ptr    *)
(* are unreachable and left out.                                           *)
(***************************************************************************)
EXTENDS Integers, SequencesExt

CONSTANTS
  MIN_ALLOC_LOG2, MAX_ALLOC_LOG2,  \* log2 of the smallest and largest block
  HEADER_SIZE,                     \* bytes in front of an allocation
  LIST_SIZE,                       \* sizeof(list_t)
  Requests                         \* the sizes that callers ask for

BUCKET_COUNT == MAX_ALLOC_LOG2 - MIN_ALLOC_LOG2 + 1
Buckets == 0 .. BUCKET_COUNT - 1
MAX_ALLOC == 2 ^ MAX_ALLOC_LOG2
MIN_ALLOC == 2 ^ MIN_ALLOC_LOG2
SIZE_T == 0 .. 2 * MAX_ALLOC - 1  \* 32 bits for the MAX_ALLOC_LOG2 = 31 of the code

ASSUME HeapAssumption ==
  /\ MIN_ALLOC_LOG2 \in Nat /\ MAX_ALLOC_LOG2 \in Nat
  /\ MIN_ALLOC_LOG2 < MAX_ALLOC_LOG2
  /\ MAX_ALLOC_LOG2 <= 31          \* a size_t of 32 bits
  /\ HEADER_SIZE \in 1 .. MIN_ALLOC /\ LIST_SIZE \in 1 .. MIN_ALLOC
  /\ Requests \subseteq SIZE_T

VARIABLES
  base_ptr,       \* FALSE while base_ptr is NULL
  buckets,        \* the free list of every bucket
  bucket_limit,   \* the bucket of the root of the tree
  node_is_split,  \* the nodes whose bit is set
  max_ptr,        \* the break: memory below it is usable
  header,         \* the sizes written in front of the live allocations
  run             \* the running call, or the result of the last one

tree == <<buckets, bucket_limit, node_is_split>>
vars == <<base_ptr, buckets, bucket_limit, node_is_split, max_ptr, header, run>>

NULL == -1

-----------------------------------------------------------------------------
\* Nodes, pointers and sizes

SizeOf(bucket) == 2 ^ (MAX_ALLOC_LOG2 - bucket)

ptr_for_node(index, bucket) == (index - 2 ^ bucket + 1) * SizeOf(bucket)
node_for_ptr(ptr, bucket) == ptr \div SizeOf(bucket) + 2 ^ bucket - 1

Parent(index) == (index - 1) \div 2
Sibling(index) == IF index % 2 = 1 THEN index + 1 ELSE index - 1

parent_is_split(bits, index) == Parent(index) \in bits

flip_parent_is_split(bits, index) ==
  IF Parent(index) \in bits
  THEN bits \ {Parent(index)} ELSE bits \cup {Parent(index)}

\* request + HEADER_SIZE in size_t
WithHeader(request) == (request + HEADER_SIZE) % (2 * MAX_ALLOC)

bucket_for_request(request) == Max({b \in Buckets : SizeOf(b) >= request})

update_max_ptr(new_value) == IF new_value > max_ptr THEN new_value ELSE max_ptr

list_push(lists, bucket, ptr) == [lists EXCEPT ![bucket] = Append(@, ptr)]
list_remove(lists, ptr) == [b \in Buckets |-> RemoveFirst(lists[b], ptr)]

Done(request, result) ==
  [pc |-> "idle", request |-> request, bucket |-> 0, original |-> 0, ptr |-> result]

-----------------------------------------------------------------------------
\* lower_bucket_limit: one iteration, for the bucket the call wants as the root

Wanted == IF run.pc = "grow" THEN run.bucket - 1 ELSE run.bucket

Root == node_for_ptr(0, bucket_limit)

\* (mutant) the free root stays on its list
KeptRoot == buckets

RemovedRoot == list_remove(buckets, 0)

\* The whole tree is free: the doubled block replaces it.
lower_unused ==
  /\ ~ parent_is_split(node_is_split, Root)
  /\ buckets' = [RemovedRoot EXCEPT ![bucket_limit - 1] = <<0>>]
  /\ bucket_limit' = bucket_limit - 1
  /\ UNCHANGED <<node_is_split, max_ptr>>

RightChild == ptr_for_node(Root + 1, bucket_limit)

\* (mutant) the right child is not put on its list
LostRightChild == buckets

PushedRightChild == list_push(buckets, bucket_limit, RightChild)

\* (mutant) the flag of the grandparent is not set
UnflippedRootParent == node_is_split

FlippedRootParent ==
  IF Parent(Root) = 0 THEN node_is_split
  ELSE flip_parent_is_split(node_is_split, Parent(Root))

\* The tree becomes the left child of a new root, its buddy is free.
lower_used ==
  /\ parent_is_split(node_is_split, Root)
  /\ max_ptr' = update_max_ptr(RightChild + LIST_SIZE)
  /\ buckets' = [PushedRightChild EXCEPT ![bucket_limit - 1] = <<>>]
  /\ bucket_limit' = bucket_limit - 1
  /\ node_is_split' = FlippedRootParent

lower_bucket_limit ==
  /\ run.pc \in {"search", "grow"}
  /\ Wanted < bucket_limit
  /\ lower_unused \/ lower_used
  /\ UNCHANGED <<base_ptr, header, run>>

-----------------------------------------------------------------------------
\* malloc

malloc_too_large(request) ==
  /\ run.pc = "idle"
  /\ WithHeader(request) > MAX_ALLOC
  /\ run' = Done(request, NULL)
  /\ UNCHANGED <<base_ptr, tree, max_ptr, header>>

\* The first call sets the tree up with a single smallest block.
malloc(request) ==
  LET bucket == bucket_for_request(WithHeader(request)) IN
  /\ run.pc = "idle"
  /\ WithHeader(request) <= MAX_ALLOC
  /\ IF base_ptr THEN UNCHANGED <<base_ptr, tree, max_ptr>>
     ELSE /\ base_ptr' = TRUE
          /\ bucket_limit' = BUCKET_COUNT - 1
          /\ max_ptr' = update_max_ptr(LIST_SIZE)
          /\ buckets' = [buckets EXCEPT ![BUCKET_COUNT - 1] = <<0>>]
          /\ UNCHANGED node_is_split
  /\ run' = [pc |-> "search", request |-> request, bucket |-> bucket,
             original |-> bucket, ptr |-> NULL]
  /\ UNCHANGED header

\* (mutant) gives up when the root is used instead of growing the tree
NotFoundGivesUp ==
  IF run.bucket = bucket_limit THEN Done(run.request, NULL)
  ELSE [run EXCEPT !.bucket = @ - 1]

\* (mutant) the test for the largest bucket is missing
NotFoundBeyond ==
  IF run.bucket # bucket_limit THEN [run EXCEPT !.bucket = @ - 1]
  ELSE [run EXCEPT !.pc = "grow"]

\* (mutant) bucket-- forgotten
NotFoundStays ==
  IF run.bucket = 0 THEN Done(run.request, NULL)
  ELSE IF run.bucket # bucket_limit THEN run
  ELSE [run EXCEPT !.pc = "grow"]

\* No block in this bucket: give up, try the next larger one, or grow the tree.
NotFound ==
  IF run.bucket = 0 THEN Done(run.request, NULL)
  ELSE IF run.bucket # bucket_limit THEN [run EXCEPT !.bucket = @ - 1]
  ELSE [run EXCEPT !.pc = "grow"]

search_next ==
  /\ run.pc = "search"
  /\ run.bucket >= bucket_limit
  /\ buckets[run.bucket] = <<>>
  /\ run' = NotFound
  /\ UNCHANGED <<base_ptr, tree, max_ptr, header>>

\* (mutant) no room is made for the list entry in the right half
BytesOfRequest == SizeOf(run.original)

BytesNeeded ==
  IF run.bucket < run.original
  THEN SizeOf(run.bucket) \div 2 + LIST_SIZE ELSE SizeOf(run.bucket)

\* list_pop found a block, of the size asked for or larger.
take_block ==
  LET ptr  == Last(buckets[run.bucket])
      node == node_for_ptr(ptr, run.bucket)
  IN  /\ \/ run.pc = "search" /\ run.bucket >= bucket_limit
         \/ run.pc = "grow" /\ run.bucket - 1 >= bucket_limit
      /\ buckets[run.bucket] # <<>>
      /\ buckets' = list_remove(buckets, ptr)
      /\ max_ptr' = update_max_ptr(ptr + BytesNeeded)
      /\ node_is_split' = IF node = 0 THEN node_is_split
                          ELSE flip_parent_is_split(node_is_split, node)
      /\ run' = [run EXCEPT !.pc = "split", !.ptr = ptr]
      /\ UNCHANGED <<base_ptr, bucket_limit, header>>

\* (mutant) the half that is kept is put on the free list
KeptHalf(left) == left

FreeHalf(left) == left + 1

\* Keep the left half, free the right half.
split_block ==
  LET left == 2 * node_for_ptr(run.ptr, run.bucket) + 1 IN
  /\ run.pc = "split"
  /\ run.bucket < run.original
  /\ node_is_split' = flip_parent_is_split(node_is_split, left)
  /\ buckets' = list_push(buckets, run.bucket + 1,
                          ptr_for_node(FreeHalf(left), run.bucket + 1))
  /\ run' = [run EXCEPT !.bucket = @ + 1]
  /\ UNCHANGED <<base_ptr, bucket_limit, max_ptr, header>>

malloc_return ==
  /\ run.pc = "split"
  /\ run.bucket = run.original
  /\ header' = [p \in DOMAIN header \cup {run.ptr} |->
                  IF p = run.ptr THEN run.request ELSE header[p]]
  /\ run' = Done(run.request, run.ptr + HEADER_SIZE)
  /\ UNCHANGED <<base_ptr, tree, max_ptr>>

-----------------------------------------------------------------------------
\* free; a call with NULL returns at once and is a stuttering step.

free(ptr) ==
  LET block  == ptr - HEADER_SIZE
      bucket == bucket_for_request(WithHeader(header[block]))
  IN  /\ run.pc = "idle"
      /\ block \in DOMAIN header
      /\ run' = [pc |-> "coalesce", request |-> 0, bucket |-> bucket,
                 original |-> bucket, ptr |-> block]
      /\ header' = [p \in DOMAIN header \ {block} |-> header[p]]
      /\ UNCHANGED <<base_ptr, tree, max_ptr>>

Node == node_for_ptr(run.ptr, run.bucket)

\* (mutant) the block is released without looking at its buddy
MergesNever == FALSE

\* The buddy of the block is free too: parent's bit is off once flipped.
MergesWithBuddy ==
  /\ Node # 0
  /\ ~ parent_is_split(flip_parent_is_split(node_is_split, Node), Node)
  /\ run.bucket # bucket_limit

merge_with_buddy ==
  /\ run.pc = "coalesce"
  /\ MergesWithBuddy
  /\ node_is_split' = flip_parent_is_split(node_is_split, Node)
  /\ buckets' = list_remove(buckets, ptr_for_node(Sibling(Node), run.bucket))
  /\ run' = [run EXCEPT !.bucket = @ - 1,
                        !.ptr = ptr_for_node(Parent(Node), run.bucket - 1)]
  /\ UNCHANGED <<base_ptr, bucket_limit, max_ptr, header>>

free_return ==
  /\ run.pc = "coalesce"
  /\ ~ MergesWithBuddy
  /\ node_is_split' = IF Node = 0 THEN node_is_split
                      ELSE flip_parent_is_split(node_is_split, Node)
  /\ buckets' = list_push(buckets, run.bucket, run.ptr)
  /\ run' = Done(0, NULL)
  /\ UNCHANGED <<base_ptr, bucket_limit, max_ptr, header>>

-----------------------------------------------------------------------------
Init ==
  /\ base_ptr = FALSE
  /\ buckets = [b \in Buckets |-> <<>>]
  /\ bucket_limit = 0
  /\ node_is_split = {}
  /\ max_ptr = 0
  /\ header = [p \in {} |-> 0]
  /\ run = Done(0, NULL)

\* The steps of a running call.
Continue ==
  \/ lower_bucket_limit
  \/ search_next
  \/ take_block
  \/ split_block
  \/ malloc_return
  \/ merge_with_buddy
  \/ free_return

Next ==
  \/ \E request \in Requests : malloc_too_large(request) \/ malloc(request)
  \/ \E block \in DOMAIN header : free(block + HEADER_SIZE)
  \/ Continue

\* A call that has begun goes on until it returns.
Spec == Init /\ [][Next]_vars /\ WF_vars(Continue)

-----------------------------------------------------------------------------
\* Blocks as <<ptr, bucket>>

FreeBlocks ==
  UNION {{<<p, b>> : p \in ToSet(buckets[b])} : b \in Buckets}
UsedBlocks ==
  {<<p, bucket_for_request(WithHeader(header[p]))>> : p \in DOMAIN header}
\* The block the running call is cutting down or giving back.
HeldBlocks ==
  IF run.pc \in {"split", "coalesce"} THEN {<<run.ptr, run.bucket>>} ELSE {}

Covers(block, ptr) == block[1] <= ptr /\ ptr < block[1] + SizeOf(block[2])

(* The values stay in range: in particular every index into node_is_split  *)
(* and buckets is inside the arrays, and no list of a bucket below         *)
(* bucket_limit, which list_init has not reached yet, is used.             *)
TypeOK ==
  /\ base_ptr \in BOOLEAN
  /\ buckets \in [Buckets -> Seq(0 .. MAX_ALLOC - MIN_ALLOC)]
  /\ bucket_limit \in Buckets
  /\ \A b \in 0 .. bucket_limit - 1 : buckets[b] = <<>>
  /\ node_is_split \subseteq 0 .. 2 ^ (BUCKET_COUNT - 1) - 2
  /\ max_ptr \in 0 .. MAX_ALLOC
  /\ DOMAIN header \subseteq 0 .. MAX_ALLOC - MIN_ALLOC
  /\ header \in [DOMAIN header -> SIZE_T]
  /\ run \in [pc : {"idle", "search", "grow", "split", "coalesce"},
               request : SIZE_T, bucket : Buckets, original : Buckets,
               ptr : {NULL} \cup 0 .. MAX_ALLOC]

(* At every moment the free blocks, the allocated blocks and the block in  *)
(* the hands of the running call tile the tree: they never overlap or      *)
(* coincide, so no allocation is handed out twice and no list entry is     *)
(* written into one, and no memory leaks out of the tree.                  *)
Tiling ==
  base_ptr =>
    LET blocks == FreeBlocks \cup UsedBlocks \cup HeldBlocks IN
    /\ \A b \in Buckets : IsInjective(buckets[b])
    /\ FreeBlocks \cap UsedBlocks = {}
    /\ HeldBlocks \cap (FreeBlocks \cup UsedBlocks) = {}
    /\ \A block \in blocks :
         /\ block[1] % SizeOf(block[2]) = 0
         /\ block[1] + SizeOf(block[2]) <= SizeOf(bucket_limit)
    /\ \A k \in 0 .. SizeOf(bucket_limit) \div MIN_ALLOC - 1 :
         Cardinality({block \in blocks : Covers(block, k * MIN_ALLOC)}) = 1

(* "that bit is the exclusive-or of the UNUSED flags of both children":    *)
(* for every node of the tree, and for the parent of its root, whose other *)
(* child counts as unused; the bits further up are off.                    *)
SplitBits ==
  base_ptr =>
    LET \* the node at ptr is free as a whole
        UnusedNode(ptr, bucket) ==
          \/ ptr >= SizeOf(bucket_limit)
          \/ \E block \in FreeBlocks : Covers(block, ptr) /\ block[2] <= bucket
        Xor(ptr, bucket) ==
          UnusedNode(ptr, bucket + 1)
            # UnusedNode(ptr + SizeOf(bucket + 1), bucket + 1)
    IN  \A node \in 0 .. 2 ^ (BUCKET_COUNT - 1) - 2 :
          \E bucket \in 0 .. BUCKET_COUNT - 2 :
            /\ node \in 2 ^ bucket - 1 .. 2 ^ (bucket + 1) - 2
            /\ LET ptr == ptr_for_node(node, bucket) IN
               node \in node_is_split <=>
                 /\ bucket >= bucket_limit - 1
                 /\ Xor(ptr, bucket)

(* Two free buddies never coexist outside a running free: memory that can  *)
(* be merged is merged, so once everything is freed the heap is one block. *)
Coalesced ==
  \A block \in FreeBlocks :
    block[2] > bucket_limit =>
      LET node == node_for_ptr(block[1], block[2])
      IN  <<ptr_for_node(Sibling(node), block[2]), block[2]>> \notin FreeBlocks

(* Every byte the allocator or its client may write lies below the break:  *)
(* list entries of free blocks and whole allocated blocks.                 *)
Reserved ==
  /\ \A block \in FreeBlocks : block[1] + LIST_SIZE <= max_ptr
  /\ \A block \in UsedBlocks : block[1] + SizeOf(block[2]) <= max_ptr

(* After growing the tree above a used root, the list that was empty holds *)
(* the new right child: malloc never goes on with a NULL block.            *)
GrowYieldsBlock ==
  run.pc = "grow" /\ run.bucket > bucket_limit => buckets[run.bucket] # <<>>

(* malloc returns NULL only for a request beyond MAX_ALLOC, or when the    *)
(* tree has its full size and holds no free block that is large enough.    *)
NullOnlyWhenExhausted ==
  run.pc = "idle" /\ run.request > 0 /\ run.ptr = NULL =>
    \/ WithHeader(run.request) > MAX_ALLOC
    \/ /\ bucket_limit = 0
       /\ \A b \in 0 .. bucket_for_request(WithHeader(run.request)) :
            buckets[b] = <<>>

(* Every call of malloc and free returns.                                  *)
Returns == run.pc # "idle" ~> run.pc = "idle"

(* The heap is an allocator: malloc returns NULL or memory that belongs to *)
(* no live allocation, with room for the request, and free ends a live     *)
(* allocation.                                                             *)
Allocator == INSTANCE Allocator
  WITH live <- [p \in {q + HEADER_SIZE : q \in DOMAIN header} |->
                  header[p - HEADER_SIZE]],
       Space <- MAX_ALLOC
ImplementsAllocator == Allocator!Spec
=============================================================================
