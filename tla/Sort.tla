-------------------------------- MODULE Sort --------------------------------
(***************************************************************************)
(* sort.c: shuffle, bubblesort and quicksort of an array of int, called    *)
(* the way sort_test.c does: shuffle, then sort.  data[1 .. n] is the      *)
(* array and data[n + 1] the int behind it, which shuffle can reach.       *)
(* A step is one swap of shuffle or one comparison of a sort, with the     *)
(* swap that follows from it.  Indices are those of the code plus one.     *)
(***************************************************************************)
EXTENDS Integers, Sequences, FiniteSets

CONSTANTS
  Values,       \* the ints
  MaxLength,    \* the longest array
  MaxShuffle    \* the largest shuffle_count

ASSUME SortAssumption ==
  Values \subseteq Int /\ MaxLength \in Nat /\ MaxShuffle \in Nat

VARIABLES
  data,     \* the array and the int behind it
  n,        \* element_count
  pc,       \* the running function
  loop,     \* the variables of the loops of bubblesort, or the count of shuffle
  frames,   \* the calls of quicksort_internal, the innermost first
  given     \* history: the array when the sort was called

vars == <<data, n, pc, loop, frames, given>>

int_swap(d, i, j) == [d EXCEPT ![i] = d[j], ![j] = d[i]]

int_comparator(lhs, rhs) == IF lhs < rhs THEN -1 ELSE IF lhs > rhs THEN 1 ELSE 0

-----------------------------------------------------------------------------
\* The random indices.  The factor is at most 1.0, not less than 1.0, so the
\* index element_count occurs.
RandomIndices == 1 .. n + 1

shuffle_swap ==
  /\ pc = "shuffle" /\ loop.i < MaxShuffle
  /\ \E i, j \in RandomIndices : data' = int_swap(data, i, j)
  /\ loop' = [loop EXCEPT !.i = @ + 1]
  /\ UNCHANGED <<n, pc, frames, given>>

\* The outermost call: last is element_count - 1 as an int.
Frame(first, last) ==
  [first |-> first, last |-> last, ptr |-> first, split |-> first + 1, at |-> "partition"]

call_bubblesort ==
  /\ pc = "shuffle"
  /\ pc' = "bubblesort"
  /\ loop' = [n |-> n, i |-> 1]
  /\ given' = data
  /\ UNCHANGED <<data, n, frames>>

quicksort ==
  /\ pc = "shuffle"
  /\ pc' = "quicksort"
  /\ frames' = <<Frame(1, n)>>
  /\ loop' = [n |-> 0, i |-> 0]
  /\ given' = data
  /\ UNCHANGED <<data, n>>

-----------------------------------------------------------------------------
\* (mutant) the last pair of the round is left out
InRoundShort == loop.i < loop.n - 1

InRound == loop.i < loop.n

bubble_compare ==
  /\ pc = "bubblesort" /\ loop.n > 1 /\ InRound
  /\ data' = IF int_comparator(data[loop.i], data[loop.i + 1]) > 0
             THEN int_swap(data, loop.i, loop.i + 1) ELSE data
  /\ loop' = [loop EXCEPT !.i = @ + 1]
  /\ UNCHANGED <<n, pc, frames, given>>

bubble_next_round ==
  /\ pc = "bubblesort" /\ loop.n > 1 /\ ~ InRound
  /\ loop' = [n |-> loop.n - 1, i |-> 1]
  /\ UNCHANGED <<data, n, pc, frames, given>>

bubble_done ==
  /\ pc = "bubblesort" /\ loop.n <= 1
  /\ pc' = "done"
  /\ UNCHANGED <<data, n, loop, frames, given>>

-----------------------------------------------------------------------------
\* quicksort_internal.  A call partitions its range, then waits for the call
\* on the lower part and then for the one on the upper part.
Top == Head(frames)
At(place) == pc = "quicksort" /\ frames # <<>> /\ Top.at = place
IsTrivial == Top.last - Top.first < 1

\* (mutant) elements equal to the pivot go below it
IsNotAbovePivot(ptr) == int_comparator(data[ptr], data[Top.first]) <= 0

\* The pivot is the first element.
IsBelowPivot(ptr) == int_comparator(data[ptr], data[Top.first]) < 0

\* ++ptr_idx <= last
quick_compare ==
  LET ptr == Top.ptr + 1 IN
  /\ At("partition") /\ ~ IsTrivial /\ ptr <= Top.last
  /\ IF IsBelowPivot(ptr)
     THEN /\ data' = int_swap(data, ptr, Top.split)
          /\ frames' = [frames EXCEPT ![1].ptr = ptr, ![1].split = @ + 1]
     ELSE /\ frames' = [frames EXCEPT ![1].ptr = ptr]
          /\ UNCHANGED data
  /\ UNCHANGED <<n, pc, loop, given>>

PivotPlaced == int_swap(data, Top.first, Top.split - 1)

LowPart == Frame(Top.first, Top.split - 1)

quick_low ==
  /\ At("partition") /\ ~ IsTrivial /\ Top.ptr = Top.last
  /\ data' = PivotPlaced
  /\ frames' = <<LowPart>> \o [frames EXCEPT ![1].at = "low"]
  /\ UNCHANGED <<n, pc, loop, given>>

quick_high ==
  /\ At("low")
  /\ frames' = <<Frame(Top.split, Top.last)>> \o [frames EXCEPT ![1].at = "high"]
  /\ UNCHANGED <<data, n, pc, loop, given>>

quick_return ==
  /\ At("high") \/ (At("partition") /\ IsTrivial)
  /\ frames' = Tail(frames)
  /\ pc' = IF frames' = <<>> THEN "done" ELSE pc
  /\ UNCHANGED <<data, n, loop, given>>

-----------------------------------------------------------------------------
Init ==
  /\ n \in 0 .. MaxLength
  /\ data \in [1 .. n + 1 -> Values]
  /\ pc = "shuffle"
  /\ loop = [n |-> 0, i |-> 0]
  /\ frames = <<>>
  /\ given = data

Sorting ==
  \/ bubble_compare \/ bubble_next_round \/ bubble_done
  \/ quick_compare \/ quick_low \/ quick_high \/ quick_return

Next == shuffle_swap \/ call_bubblesort \/ quicksort \/ Sorting

\* A sort that was called runs until it returns.
Spec == Init /\ [][Next]_vars /\ WF_vars(Sorting)

-----------------------------------------------------------------------------
Count(d, v) == Cardinality({i \in 1 .. n : d[i] = v})

\* What sorting means, without saying how: ascending, the same ints as often
\* as before, and nothing touched behind the array.
IsSortOf(d, g) ==
  /\ \A i \in 1 .. n - 1 : d[i] <= d[i + 1]
  /\ \A v \in Values : Count(d, v) = Count(g, v)
  /\ d[n + 1] = g[n + 1]

(* Both sorts return, with the array in order and the int behind it        *)
(* untouched, for every array with and without duplicates: quicksort too,  *)
(* whose lower part holds the pivot and may be as long as the whole.       *)
SortsArray == pc \in {"bubblesort", "quicksort"} ~> pc = "done" /\ IsSortOf(data, given)

(* A lower part can be as long as the range it was taken from, but then it *)
(* ends with its largest element and the next ones shrink: quicksort nests *)
(* at most one call more than there are elements.                          *)
DepthBound == Len(frames) <= n + 1
=============================================================================
