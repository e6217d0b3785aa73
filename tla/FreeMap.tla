------------------------------ MODULE FreeMap ------------------------------
(***************************************************************************)
(* The placement memory as a plain set of free bytes: no table, no slots,  *)
(* no merging.  The only trace of the table is its capacity, which bounds  *)
(* the number of separate runs of free bytes.  The effects are those that  *)
(* placement_memory.h describes; the answers are those of                  *)
(* placement_memory.c, from which the header differs for allocate.         *)
(***************************************************************************)
EXTENDS Integers, FiniteSets

CONSTANTS W, Capacity

VARIABLES free, call

vars == <<free, call>>

Addr == 0 .. W - 1
Bytes(start, size) == {b \in Addr : start <= b /\ b < start + size}

\* The first bytes of the runs of consecutive bytes of a set.
Runs(set) == {b \in set : b - 1 \notin set}
Full == Cardinality(Runs(free)) = Capacity

\* Taking the range would leave free bytes on both of its sides.
SplitsRun(start, size) ==
  /\ Bytes(start, size) \subseteq free
  /\ start - 1 \in free
  /\ start + size \in free

\* The call op(start, size) is answered with one of the codes.
Answer(op, start, size, codes) ==
  /\ call'.start = start /\ call'.size = size
  /\ call' \in [op : {op}, start : {start}, size : {size}, ret : codes]

Idle == call.op # "covering"

-----------------------------------------------------------------------------
Init == free = {} /\ call = [op |-> "clear", start |-> 0, size |-> 0, ret |-> 0]

Clear ==
  /\ Idle
  /\ free' = {}
  /\ Answer("clear", 0, 0, {0})

InsertCodes(start, size) ==
  IF Full THEN {-1}
  ELSE IF size = 0 THEN {-2}
  ELSE IF Bytes(start, size) \cap free # {} THEN {-3, -4}
  ELSE {0}

Insert(start, size) ==
  /\ Idle
  /\ Answer("insert", start, size, InsertCodes(start, size))
  /\ free' = IF call'.ret = 0 THEN free \cup Bytes(start, size) ELSE free

\* The addresses at which size bytes of a set begin.
Fits(set, size) == {a \in Addr : a + size <= W /\ Bytes(a, size) \subseteq set}

\* A failure is answered with 0 (placement_memory.c:168, 173 and 211), which the
\* tests expect too (placement_memory_test.c:102, 115 and 234).  The header
\* (placement_memory.h:49 and 99) promises a negative error code instead; and 0 is
\* also the answer to a request that gets the memory at address 0.
Allocate(size) ==
  /\ Idle
  /\ \/ /\ Answer("allocate", 0, size, {0})
        /\ size = 0 \/ Fits(free, size) = {}
        /\ UNCHANGED free
     \/ /\ size > 0
        /\ \E a \in Addr :
             /\ Answer("allocate", a, size, {a})
             /\ a \in Fits(free, size)
             /\ \A b \in Fits(free, size) : a <= b
             /\ free' = free \ Bytes(a, size)

AllocateAreaCode(start, size) ==
  IF free = {} THEN -1
  ELSE IF size = 0 THEN -2
  ELSE IF \A b \in free : b < start THEN -3
  ELSE IF SplitsRun(start, size) /\ Full THEN -4
  ELSE IF Bytes(start, size) \subseteq free THEN 0
  ELSE -5

AllocateArea(start, size) ==
  /\ Idle
  /\ Answer("allocate_area", start, size, {AllocateAreaCode(start, size)})
  /\ free' = IF call'.ret = 0 THEN free \ Bytes(start, size) ELSE free

CoverBegin(start, size) ==
  /\ Idle
  /\ Answer("covering", start, size, {0})
  /\ UNCHANGED free

CoverTake ==
  /\ call.op = "covering"
  /\ UNCHANGED call
  /\ free' \subseteq free
  /\ free \ free' \subseteq Bytes(call.start, call.size)

CoverReturn ==
  /\ call.op = "covering"
  /\ \/ /\ Bytes(call.start, call.size) \cap free = {}
        /\ Answer("cover", call.start, call.size, {0})
     \/ /\ SplitsRun(call.start, call.size) /\ Full
        /\ Answer("cover", call.start, call.size, {-1})
  /\ UNCHANGED free

\* (Naming the operation first spares TLC most arguments of the others.)
Next ==
  \/ Clear
  \/ call'.op = "insert" /\ \E start, size \in Addr : Insert(start, size)
  \/ call'.op = "allocate" /\ \E size \in Addr : Allocate(size)
  \/ call'.op = "allocate_area" /\ \E start, size \in Addr : AllocateArea(start, size)
  \/ call'.op = "covering" /\ \E start, size \in Addr : CoverBegin(start, size)
  \/ CoverTake
  \/ CoverReturn

Spec == Init /\ [][Next]_vars
=============================================================================
