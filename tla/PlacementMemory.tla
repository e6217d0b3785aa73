-------------------------- MODULE PlacementMemory --------------------------
(***************************************************************************)
(* The placement memory of the kernel (placement_memory.c): a table of at  *)
(* most MAX_MEMORY_AREAS_SIZE free areas from which memory is taken before *)
(* paging is enabled.  One action per exported operation; an operation     *)
(* with several outcomes is the disjunction of one action per outcome, and *)
(* the loop of allocate_area_cover, which edits the table it walks, takes  *)
(* one step per iteration.                                                 *)
(*                                                                         *)
(* The 64-bit addresses of the code are scaled to an address space of W    *)
(* addresses, with the same wrap-around.                                   *)
(***************************************************************************)
EXTENDS Integers

CONSTANTS
  MAX_MEMORY_AREAS_SIZE,  \* number of slots of free_memory_areas
  W,                      \* size of the address space, 2^64 in the code
  Past                    \* what a read of free_memory_areas[MAX] may return

Addr == 0 .. W - 1

Area == [start : Addr, size : Addr]

ASSUME PlacementAssumption ==
  /\ MAX_MEMORY_AREAS_SIZE \in Nat \ {0}
  /\ W \in Nat /\ W > 1
  /\ Past \subseteq Area

VARIABLES
  free_memory_areas,       \* the table
  free_memory_area_index,  \* number of slots in use
  scan,                    \* i of the running loop of allocate_area_cover
  call                     \* the running or last call: operation, arguments, result

table == <<free_memory_areas, free_memory_area_index>>
vars == <<free_memory_areas, free_memory_area_index, scan, call>>

Slots == 0 .. MAX_MEMORY_AREAS_SIZE - 1
Used == 0 .. free_memory_area_index - 1

Cleared == [start |-> 0, size |-> 0]

Wrap(x) == IF x < 0 THEN x + W ELSE IF x >= W THEN x - W ELSE x

\* start + size - 1 and start + size, as the unsigned arithmetic computes them
EndOf(a) == Wrap(a.start + a.size - 1)
Behind(a) == Wrap(a.start + a.size)

\* The bytes an area really consists of.
Bytes(start, size) == {b \in Addr : start <= b /\ b < start + size}

FreeBytes ==
  {b \in Addr : \E i \in Used :
     /\ free_memory_areas[i].start <= b
     /\ b < free_memory_areas[i].start + free_memory_areas[i].size}

-----------------------------------------------------------------------------
\* Predicates on areas

overlapp(lhs, rhs) ==
  \/ lhs.start <= rhs.start /\ rhs.start <= EndOf(lhs)
  \/ lhs.start <= EndOf(rhs) /\ EndOf(rhs) <= EndOf(lhs)

is_free(a) == a = Cleared

-----------------------------------------------------------------------------
\* Edits of the table.  The loops that erase slot i copy slot
\* free_memory_area_index too, which lies behind the array when it is full.

\* (mutant) the loop stops one slot early
ShiftLeftShort(i, past) ==
  [j \in Slots |->
     IF j \in i .. free_memory_area_index - 2
     THEN free_memory_areas[j + 1] ELSE free_memory_areas[j]]

ShiftLeft(i, past) ==
  [j \in Slots |->
     IF j \notin i .. free_memory_area_index - 1 THEN free_memory_areas[j]
     ELSE IF j + 1 \in Slots THEN free_memory_areas[j + 1] ELSE past]

\* Slot i is cut down to low, and high becomes the slot behind it.
SplitAt(i, low, high) ==
  [j \in Slots |->
     IF j = i THEN low
     ELSE IF j = i + 1 THEN high
     ELSE IF j \in i + 2 .. free_memory_area_index THEN free_memory_areas[j - 1]
     ELSE free_memory_areas[j]]

Store(i, area) == [free_memory_areas EXCEPT ![i] = area]

Return(op, start, size, ret) ==
  call' = [op |-> op, start |-> start, size |-> size, ret |-> ret]

Idle == call.op # "covering"

-----------------------------------------------------------------------------
clear_placement_memory_array ==
  /\ Idle
  /\ free_memory_areas' = [i \in Slots |-> Cleared]
  /\ free_memory_area_index' = 0
  /\ Return("clear", 0, 0, 0)
  /\ UNCHANGED scan

-----------------------------------------------------------------------------
\* insert_area

\* c is where the search for the first area not below start stops.
IsCorrectIndex(c, start) ==
  /\ c \in 0 .. free_memory_area_index
  /\ \A i \in 0 .. c - 1 : start > free_memory_areas[i].start
  /\ c < free_memory_area_index => start <= free_memory_areas[c].start

PredecessorCollision(c, new) ==
  c > 0 /\ overlapp(free_memory_areas[c - 1], new)

SuccessorCollision(c, new) ==
  ~ is_free(free_memory_areas[c]) /\ overlapp(free_memory_areas[c], new)

Refuse(op, start, size, code) ==
  Return(op, start, size, code) /\ UNCHANGED <<table, scan>>

insert_full(start, size) ==
  /\ free_memory_area_index = MAX_MEMORY_AREAS_SIZE
  /\ Refuse("insert", start, size, -1)

insert_empty(start, size) ==
  /\ free_memory_area_index < MAX_MEMORY_AREAS_SIZE
  /\ size = 0
  /\ Refuse("insert", start, size, -2)

insert_collides(c, start, size) ==
  LET new == [start |-> start, size |-> size] IN
  \/ /\ PredecessorCollision(c, new)
     /\ Refuse("insert", start, size, -3)
  \/ /\ ~ PredecessorCollision(c, new)
     /\ SuccessorCollision(c, new)
     /\ Refuse("insert", start, size, -4)

\* (mutant) compares with the last byte of the predecessor
JoinsLastByte(c, start) == c > 0 /\ EndOf(free_memory_areas[c - 1]) = start

\* The predecessor ends where the new area starts.
JoinsPredecessor(c, start) == c > 0 /\ Behind(free_memory_areas[c - 1]) = start

\* The predecessor enlarged by the new area.
GrownPredecessor(c, size) ==
  LET pred == free_memory_areas[c - 1]
  IN  [pred EXCEPT !.size = Wrap(pred.size + size)]

insert_merge_predecessor(c, start, size) ==
  /\ JoinsPredecessor(c, start)
  /\ free_memory_areas[c].start # Behind(GrownPredecessor(c, size))
  /\ free_memory_areas' = Store(c - 1, GrownPredecessor(c, size))
  /\ UNCHANGED free_memory_area_index

\* The enlarged predecessor meets the successor, which is erased.
insert_merge_both(c, start, size) ==
  LET grown == GrownPredecessor(c, size)
      joined == [grown EXCEPT !.size = Wrap(grown.size + free_memory_areas[c].size)]
  IN  /\ JoinsPredecessor(c, start)
      /\ free_memory_areas[c].start = Behind(grown)
      /\ \E past \in Past :
           free_memory_areas' = [ShiftLeft(c, past) EXCEPT ![c - 1] = joined]
      /\ free_memory_area_index' = free_memory_area_index - 1

insert_merge_successor(c, start, size) ==
  /\ ~ JoinsPredecessor(c, start)
  /\ free_memory_areas[c].start = Wrap(start + size)
  /\ free_memory_areas' =
       Store(c, [start |-> start, size |-> Wrap(free_memory_areas[c].size + size)])
  /\ UNCHANGED free_memory_area_index

\* No neighbour to merge with: the area is written over slot c.
insert_store(c, start, size) ==
  /\ ~ JoinsPredecessor(c, start)
  /\ free_memory_areas[c].start # Wrap(start + size)
  /\ free_memory_areas' = Store(c, [start |-> start, size |-> size])
  /\ free_memory_area_index' = free_memory_area_index + 1

insert_accepted(c, start, size) ==
  LET new == [start |-> start, size |-> size] IN
  /\ ~ PredecessorCollision(c, new)
  /\ ~ SuccessorCollision(c, new)
  /\ \/ insert_merge_predecessor(c, start, size)
     \/ insert_merge_both(c, start, size)
     \/ insert_merge_successor(c, start, size)
     \/ insert_store(c, start, size)
  /\ Return("insert", start, size, 0)
  /\ UNCHANGED scan

insert_area(start, size) ==
  /\ Idle
  /\ \/ insert_full(start, size)
     \/ insert_empty(start, size)
     \/ /\ free_memory_area_index < MAX_MEMORY_AREAS_SIZE
        /\ size > 0
        /\ \E c \in Slots :
             /\ IsCorrectIndex(c, start)
             /\ insert_collides(c, start, size) \/ insert_accepted(c, start, size)

-----------------------------------------------------------------------------
\* allocate

\* (mutant) any slot large enough
IsSomeFit(i, size) == free_memory_areas[i].size >= size

\* Slot i is the first one large enough.
IsFirstFit(i, size) ==
  /\ free_memory_areas[i].size >= size
  /\ \A j \in 0 .. i - 1 : free_memory_areas[j].size < size

allocate_fails(size) ==
  /\ \/ free_memory_area_index = 0
     \/ size = 0
     \/ \A i \in Used : free_memory_areas[i].size < size
  /\ Refuse("allocate", 0, size, 0)

\* The call records the address of the memory as its start and as its result.
allocate_from(i, size) ==
  LET area == free_memory_areas[i] IN
  /\ \/ /\ area.size > size
        /\ free_memory_areas' =
             Store(i, [start |-> Wrap(area.start + size), size |-> area.size - size])
        /\ UNCHANGED free_memory_area_index
     \/ /\ area.size = size
        /\ \E past \in Past : free_memory_areas' = ShiftLeft(i, past)
        /\ free_memory_area_index' = free_memory_area_index - 1
  /\ Return("allocate", area.start, size, area.start)
  /\ UNCHANGED scan

allocate(size) ==
  /\ Idle
  /\ \/ allocate_fails(size)
     \/ /\ size > 0
        /\ \E i \in Used : IsFirstFit(i, size) /\ allocate_from(i, size)

-----------------------------------------------------------------------------
\* allocate_area

\* Slot i is the first area that does not end below start.
IsFirstReaching(i, start) ==
  /\ start <= EndOf(free_memory_areas[i])
  /\ \A j \in 0 .. i - 1 : start > EndOf(free_memory_areas[j])

allocate_area_fails(start, size) ==
  \/ /\ free_memory_area_index = 0
     /\ Refuse("allocate_area", start, size, -1)
  \/ /\ free_memory_area_index > 0
     /\ size = 0
     /\ Refuse("allocate_area", start, size, -2)
  \/ /\ free_memory_area_index > 0
     /\ size > 0
     /\ \A i \in Used : start > EndOf(free_memory_areas[i])
     /\ Refuse("allocate_area", start, size, -3)

take_start(i, start, size) ==
  LET area == free_memory_areas[i] IN
  /\ area.start = start
  /\ EndOf(area) > Wrap(start + size - 1)
  /\ free_memory_areas' =
       Store(i, [start |-> Wrap(area.start + size), size |-> Wrap(area.size - size)])
  /\ UNCHANGED free_memory_area_index
  /\ Return("allocate_area", start, size, 0)
  /\ UNCHANGED scan

take_end(i, start, size) ==
  LET area == free_memory_areas[i] IN
  /\ area.start < start
  /\ EndOf(area) = Wrap(start + size - 1)
  /\ free_memory_areas' = Store(i, [area EXCEPT !.size = Wrap(area.size - size)])
  /\ UNCHANGED free_memory_area_index
  /\ Return("allocate_area", start, size, 0)
  /\ UNCHANGED scan

take_whole(i, start, size) ==
  LET area == free_memory_areas[i] IN
  /\ area.start = start
  /\ EndOf(area) = Wrap(start + size - 1)
  /\ \E past \in Past : free_memory_areas' = ShiftLeft(i, past)
  /\ free_memory_area_index' = free_memory_area_index - 1
  /\ Return("allocate_area", start, size, 0)
  /\ UNCHANGED scan

IsInside(i, start, size) ==
  /\ free_memory_areas[i].start < start
  /\ EndOf(free_memory_areas[i]) > Wrap(start + size - 1)

take_middle_full(i, start, size) ==
  /\ IsInside(i, start, size)
  /\ free_memory_area_index = MAX_MEMORY_AREAS_SIZE
  /\ Refuse("allocate_area", start, size, -4)

take_middle(i, start, size) ==
  LET area == free_memory_areas[i]
      low  == [area EXCEPT !.size = start - area.start]
      high == [start |-> Wrap(Wrap(start + size - 1) + 1),
               size |-> Wrap(Wrap(area.size - size) - low.size)]
  IN  /\ IsInside(i, start, size)
      /\ free_memory_area_index < MAX_MEMORY_AREAS_SIZE
      /\ free_memory_areas' = SplitAt(i, low, high)
      /\ free_memory_area_index' = free_memory_area_index + 1
      /\ Return("allocate_area", start, size, 0)
      /\ UNCHANGED scan

\* The first area reached neither contains the range nor shares an edge with it.
take_nothing(i, start, size) ==
  LET area == free_memory_areas[i]
      end  == Wrap(start + size - 1)
  IN  /\ start < area.start \/ EndOf(area) < end
      /\ Refuse("allocate_area", start, size, -5)

allocate_area(start, size) ==
  /\ Idle
  /\ \/ allocate_area_fails(start, size)
     \/ /\ size > 0
        /\ \E i \in Used :
             /\ IsFirstReaching(i, start)
             /\ \/ take_start(i, start, size)
                \/ take_end(i, start, size)
                \/ take_whole(i, start, size)
                \/ take_middle_full(i, start, size)
                \/ take_middle(i, start, size)
                \/ take_nothing(i, start, size)

-----------------------------------------------------------------------------
\* allocate_area_cover: call.start .. CoverEnd is the range to cover, scan is i.

CoverEnd == Wrap(call.start + call.size - 1)

allocate_area_cover(start, size) ==
  /\ Idle
  /\ Return("covering", start, size, 0)
  /\ scan' = 0
  /\ UNCHANGED table

Current == free_memory_areas[scan]

CoverIntersects ==
  EndOf(Current) >= call.start /\ Current.start <= CoverEnd

cover_skip ==
  /\ ~ CoverIntersects
  /\ scan' = scan + 1
  /\ UNCHANGED <<table, call>>

\* (mutant) free_memory_area_index-- forgotten
cover_delete_uncounted ==
  /\ CoverIntersects
  /\ call.start <= Current.start /\ CoverEnd >= EndOf(Current)
  /\ \E past \in Past : free_memory_areas' = ShiftLeft(scan, past)
  /\ UNCHANGED <<free_memory_area_index, scan, call>>

\* (mutant) i-- forgotten
cover_delete_skips ==
  /\ CoverIntersects
  /\ call.start <= Current.start /\ CoverEnd >= EndOf(Current)
  /\ \E past \in Past : free_memory_areas' = ShiftLeft(scan, past)
  /\ free_memory_area_index' = free_memory_area_index - 1
  /\ scan' = scan + 1
  /\ UNCHANGED call

\* Completely covered: erased, and i-- makes the loop look at slot i again.
cover_delete ==
  /\ CoverIntersects
  /\ call.start <= Current.start /\ CoverEnd >= EndOf(Current)
  /\ \E past \in Past : free_memory_areas' = ShiftLeft(scan, past)
  /\ free_memory_area_index' = free_memory_area_index - 1
  /\ UNCHANGED <<scan, call>>

cover_trim_start ==
  LET start == Wrap(CoverEnd + 1) IN
  /\ CoverIntersects
  /\ call.start <= Current.start /\ CoverEnd < EndOf(Current)
  /\ free_memory_areas' =
       Store(scan, [start |-> start, size |-> Wrap(EndOf(Current) - start + 1)])
  /\ scan' = scan + 1
  /\ UNCHANGED <<free_memory_area_index, call>>

cover_trim_end ==
  /\ CoverIntersects
  /\ call.start > Current.start /\ CoverEnd >= EndOf(Current)
  /\ free_memory_areas' =
       Store(scan, [Current EXCEPT !.size = call.start - Current.start])
  /\ scan' = scan + 1
  /\ UNCHANGED <<free_memory_area_index, call>>

CoverSplits ==
  /\ CoverIntersects
  /\ call.start > Current.start /\ CoverEnd < EndOf(Current)

cover_split_full ==
  /\ CoverSplits
  /\ free_memory_area_index = MAX_MEMORY_AREAS_SIZE
  /\ Return("cover", call.start, call.size, -1)
  /\ UNCHANGED <<table, scan>>

\* (mutant) the test for a full table forgotten
cover_split_unchecked ==
  LET low  == [Current EXCEPT !.size = call.start - Current.start]
      high == [start |-> Wrap(CoverEnd + 1), size |-> EndOf(Current) - CoverEnd]
  IN  /\ CoverSplits
      /\ free_memory_areas' = SplitAt(scan, low, high)
      /\ free_memory_area_index' = free_memory_area_index + 1
      /\ scan' = scan + 1
      /\ UNCHANGED call

cover_split ==
  LET low  == [Current EXCEPT !.size = call.start - Current.start]
      high == [start |-> Wrap(CoverEnd + 1), size |-> EndOf(Current) - CoverEnd]
  IN  /\ CoverSplits
      /\ free_memory_area_index < MAX_MEMORY_AREAS_SIZE
      /\ free_memory_areas' = SplitAt(scan, low, high)
      /\ free_memory_area_index' = free_memory_area_index + 1
      /\ scan' = scan + 1
      /\ UNCHANGED call

cover_step ==
  /\ call.op = "covering"
  /\ scan < free_memory_area_index
  /\ \/ cover_skip
     \/ cover_delete
     \/ cover_trim_start
     \/ cover_trim_end
     \/ cover_split_full
     \/ cover_split

cover_return ==
  /\ call.op = "covering"
  /\ scan >= free_memory_area_index
  /\ Return("cover", call.start, call.size, 0)
  /\ UNCHANGED <<table, scan>>

-----------------------------------------------------------------------------
Init ==
  /\ free_memory_areas = [i \in Slots |-> Cleared]
  /\ free_memory_area_index = 0
  /\ scan = 0
  /\ call = [op |-> "clear", start |-> 0, size |-> 0, ret |-> 0]

\* A client that calls the operations in any order with any argument.
Next ==
  \/ clear_placement_memory_array
  \/ \E start, size \in Addr : insert_area(start, size)
  \/ \E size \in Addr : allocate(size)
  \/ \E start, size \in Addr : allocate_area(start, size)
  \/ \E start, size \in Addr : allocate_area_cover(start, size)
  \/ cover_step
  \/ cover_return

\* Nothing interrupts the loop of allocate_area_cover.
Fairness == WF_vars(cover_step) /\ WF_vars(cover_return)

Spec == Init /\ [][Next]_vars /\ Fairness

(***************************************************************************)
(* The usage placement_memory.h prescribes: clear, then declare the free   *)
(* areas, then allocate.  insert_area assumes a sorted table but keeps it  *)
(* sorted only for an area behind all the others, or for one that touches  *)
(* a free area and overlaps none.                                          *)
(***************************************************************************)
Declaring == call.op \in {"clear", "insert"}

Declarable(start, size) ==
  /\ Declaring
  /\ start + size < W
  /\ \/ \A i \in Used : free_memory_areas[i].start < start
     \/ /\ Bytes(start, size) \cap FreeBytes = {}
        /\ start - 1 \in FreeBytes \/ start + size \in FreeBytes

InAddressSpace(start, size) == start + size <= W

UsageNext ==
  \/ clear_placement_memory_array
  \/ \E start, size \in Addr : Declarable(start, size) /\ insert_area(start, size)
  \/ \E size \in Addr : allocate(size)
  \/ \E start, size \in Addr :
       InAddressSpace(start, size) /\ allocate_area(start, size)
  \/ \E start, size \in Addr :
       InAddressSpace(start, size) /\ size > 0 /\ allocate_area_cover(start, size)
  \/ cover_step
  \/ cover_return

UsageSpec == Init /\ [][UsageNext]_vars /\ Fairness

-----------------------------------------------------------------------------
\* Properties for any client

(* The table never claims more slots than it has, never counts below zero  *)
(* (its index is unsigned), and every slot holds 64-bit values, whatever   *)
(* sequence of calls is made: no operation writes outside                  *)
(* free_memory_areas.                                                      *)
TypeOK ==
  /\ free_memory_areas \in [Slots -> Area]
  /\ free_memory_area_index \in 0 .. MAX_MEMORY_AREAS_SIZE
  /\ scan \in 0 .. MAX_MEMORY_AREAS_SIZE
  /\ call \in [op : {"clear", "insert", "allocate", "allocate_area",
                     "covering", "cover"},
               start : Addr, size : Addr, ret : Addr \cup -5 .. 0]

(* The loop of allocate_area_cover, which deletes the slot it stands on    *)
(* and inserts behind it, ends for every table and every range.            *)
CoverTerminates == call.op = "covering" ~> call.op = "cover"

-----------------------------------------------------------------------------
\* Properties of the prescribed usage

(* The free areas are non-empty, in ascending order and with a gap between *)
(* neighbours: two areas that touch have been merged.  Every operation     *)
(* assumes it ("assumption: array is sorted") and has to restore it.       *)
Separated ==
  /\ \A i \in Used :
       /\ free_memory_areas[i].size > 0
       /\ free_memory_areas[i].start + free_memory_areas[i].size < W
  /\ \A i, j \in Used :
       i < j => free_memory_areas[i].start + free_memory_areas[i].size
                  < free_memory_areas[j].start

(* While areas are being declared, the slots behind the last area are      *)
(* clear: insert_area reads slot free_memory_area_index as "the successor" *)
(* and would merge with what an erased area left there.                    *)
CleanTail ==
  Declaring =>
    \A i \in Slots \ Used : free_memory_areas[i] = Cleared

(* While allocate_area_cover runs, the areas it has passed contain no byte *)
(* of the range, although it erases and inserts slots under its loop       *)
(* index.                                                                  *)
CoverProgress ==
  call.op = "covering" =>
    /\ call.size > 0 /\ call.start + call.size <= W
    /\ scan <= free_memory_area_index
    /\ \A i \in 0 .. scan - 1 :
         \/ free_memory_areas[i].start + free_memory_areas[i].size <= call.start
         \/ call.start + call.size <= free_memory_areas[i].start

UsageInv == TypeOK /\ Separated /\ CleanTail /\ CoverProgress

(* The operations are those of a plain set of free bytes, with the answers *)
(* of the code: insert_area refuses exactly overlaps and a full table, allocate  *)
(* returns the lowest address with enough room, or 0 if there is none,     *)
(* allocate_area succeeds exactly for free ranges, and allocate_area_cover *)
(* takes the whole range unless it would have to split an area of a full   *)
(* table.                                                                  *)
FreeMap == INSTANCE FreeMap WITH free <- FreeBytes,
                                 Capacity <- MAX_MEMORY_AREAS_SIZE
ImplementsFreeMap == FreeMap!Spec
=============================================================================
