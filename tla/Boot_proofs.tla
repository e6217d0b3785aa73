----------------------------- MODULE Boot_proofs -----------------------------
(***************************************************************************)
(* Proofs about PlacementMemory and about Boot, which is built on it, for  *)
(* every number and size of everything.                                    *)
(*                                                                         *)
(* The first part is about PlacementMemory: every table size, every        *)
(* address space and every content of the memory behind the table.         *)
(*                                                                         *)
(* The second part is about Boot: a kernel that comes up has its placement *)
(* memory in available RAM, and one that gives up has a reason.  Its       *)
(* theorems are about the maps of OrdinaryMaps.  The invariant follows the *)
(* set of free bytes through main; what each operation does to it is taken *)
(* from the first part.                                                    *)
(***************************************************************************)
EXTENDS Boot, Arithmetic, FiniteSetTheorems

-----------------------------------------------------------------------------
\* PART 1: PlacementMemory

USE DEF Addr, Area, Slots, Used

-----------------------------------------------------------------------------
\* Lemmas on the arithmetic and on the edits of the table

(* Unsigned 64-bit arithmetic of placement_memory.c stays in the address   *)
(* space for one addition or one subtraction.                              *)
LEMMA WrapType ==
  ASSUME NEW x \in Int, -W <= x, x < 2 * W
  PROVE  Wrap(x) \in Addr
BY PlacementAssumption DEF Wrap

(* The end of an area is an address, also for an area of size 0, where it  *)
(* wraps.                                                                  *)
LEMMA EndType ==
  ASSUME NEW a \in Area
  PROVE  EndOf(a) \in Addr /\ Behind(a) \in Addr
<1>1. a.start \in Addr /\ a.size \in Addr
  OBVIOUS
<1>2. /\ a.start + a.size - 1 \in Int
      /\ -W <= a.start + a.size - 1 /\ a.start + a.size - 1 < 2 * W
      /\ a.start + a.size \in Int
      /\ -W <= a.start + a.size /\ a.start + a.size < 2 * W
  BY <1>1, PlacementAssumption
<1> QED
  BY <1>2, WrapType DEF EndOf, Behind

(* Erasing a slot keeps the table a table of areas.                        *)
LEMMA ShiftLeftType ==
  ASSUME TypeOK, NEW i \in Slots, NEW past \in Past
  PROVE  ShiftLeft(i, past) \in [Slots -> Area]
BY PlacementAssumption DEF TypeOK, ShiftLeft

(* So does splitting one, when a slot is left.                             *)
LEMMA SplitAtType ==
  ASSUME TypeOK, NEW i \in Used, NEW low \in Area, NEW high \in Area,
         free_memory_area_index < MAX_MEMORY_AREAS_SIZE
  PROVE  SplitAt(i, low, high) \in [Slots -> Area]
<1>1. ASSUME NEW j \in Slots, j \in i + 2 .. free_memory_area_index
      PROVE  free_memory_areas[j - 1] \in Area
  <2>1. j - 1 \in Slots
    BY <1>1, PlacementAssumption DEF TypeOK
  <2> QED
    BY <2>1 DEF TypeOK
<1> QED
  BY <1>1 DEF TypeOK, SplitAt

(* And storing an area in a slot.                                          *)
LEMMA StoreType ==
  ASSUME TypeOK, NEW i \in Slots, NEW area \in Area
  PROVE  Store(i, area) \in [Slots -> Area]
BY DEF TypeOK, Store

(* The slots in use are slots, and hold areas.                             *)
LEMMA UsedSlots ==
  ASSUME TypeOK, NEW i \in Used
  PROVE  i \in Slots /\ free_memory_areas[i] \in Area
BY PlacementAssumption DEF TypeOK

-----------------------------------------------------------------------------
\* Type correctness for any client

(* Only a full table, an empty request or a collision is answered without  *)
(* touching the table.                                                     *)
LEMMA RefuseType ==
  ASSUME TypeOK, NEW op \in {"insert", "allocate", "allocate_area"},
         NEW start \in Addr, NEW size \in Addr, NEW code \in -5 .. 0,
         Refuse(op, start, size, code)
  PROVE  TypeOK'
BY DEF TypeOK, Refuse, Return, table

(* insert_area, called with any area, writes inside the table.             *)
LEMMA InsertType ==
  ASSUME TypeOK, NEW start \in Addr, NEW size \in Addr, insert_area(start, size)
  PROVE  TypeOK'
<1>1. CASE insert_full(start, size) \/ insert_empty(start, size)
  BY <1>1, RefuseType DEF insert_full, insert_empty
<1>2. ASSUME free_memory_area_index < MAX_MEMORY_AREAS_SIZE, size > 0,
             NEW c \in Slots, IsCorrectIndex(c, start),
             insert_collides(c, start, size)
      PROVE  TypeOK'
  BY <1>2, RefuseType DEF insert_collides
<1>3. ASSUME free_memory_area_index < MAX_MEMORY_AREAS_SIZE, size > 0,
             NEW c \in Slots, IsCorrectIndex(c, start),
             insert_accepted(c, start, size)
      PROVE  TypeOK'
  <2>0. free_memory_areas[c] \in Area
    BY DEF TypeOK
  <2>1. call' \in [op : {"clear", "insert", "allocate", "allocate_area",
                         "covering", "cover"},
                   start : Addr, size : Addr, ret : Addr \cup -5 .. 0]
        /\ scan' = scan
    BY <1>3 DEF insert_accepted, Return
  <2>2. ASSUME c > 0
        PROVE  c - 1 \in Slots /\ GrownPredecessor(c, size) \in Area
    <3>1. c - 1 \in Slots /\ free_memory_areas[c - 1] \in Area
      BY <2>2, PlacementAssumption DEF TypeOK
    <3>2. Wrap(free_memory_areas[c - 1].size + size) \in Addr
      BY <3>1, WrapType, PlacementAssumption
    <3> QED
      BY <3>1, <3>2 DEF GrownPredecessor
  <2>3. free_memory_areas' \in [Slots -> Area]
    <3>1. CASE insert_merge_predecessor(c, start, size)
      BY <3>1, <2>2, StoreType DEF insert_merge_predecessor, JoinsPredecessor
    <3>2. CASE insert_merge_both(c, start, size)
      <4>1. c - 1 \in Slots /\ GrownPredecessor(c, size) \in Area
        BY <3>2, <2>2 DEF insert_merge_both, JoinsPredecessor
      <4> DEFINE grown == GrownPredecessor(c, size)
                 joined == [grown EXCEPT !.size =
                              Wrap(grown.size + free_memory_areas[c].size)]
      <4>2. Wrap(grown.size + free_memory_areas[c].size) \in Addr
        BY <4>1, <2>0, WrapType, PlacementAssumption
      <4>3. joined \in Area
        BY <4>1, <4>2
      <4>4. PICK past \in Past :
              free_memory_areas' = [ShiftLeft(c, past) EXCEPT ![c - 1] = joined]
        BY <3>2 DEF insert_merge_both
      <4>5. ShiftLeft(c, past) \in [Slots -> Area]
        BY ShiftLeftType
      <4> HIDE DEF joined
      <4> QED
        BY <4>1, <4>3, <4>4, <4>5
    <3>3. CASE insert_merge_successor(c, start, size)
      <4>1. Wrap(free_memory_areas[c].size + size) \in Addr
        BY <2>0, WrapType, PlacementAssumption
      <4> QED
        BY <3>3, <4>1, StoreType DEF insert_merge_successor
    <3>4. CASE insert_store(c, start, size)
      BY <3>4, StoreType DEF insert_store
    <3> QED
      BY <1>3, <3>1, <3>2, <3>3, <3>4 DEF insert_accepted
  <2>4. free_memory_area_index' \in 0 .. MAX_MEMORY_AREAS_SIZE
    <3>1. \/ free_memory_area_index' = free_memory_area_index
          \/ c > 0 /\ free_memory_area_index' = free_memory_area_index - 1
          \/ free_memory_area_index' = free_memory_area_index + 1
      BY <1>3
      DEF insert_accepted, insert_merge_predecessor, insert_merge_both,
          insert_merge_successor, insert_store, JoinsPredecessor
    <3>2. c <= free_memory_area_index
      BY <1>3 DEF IsCorrectIndex
    <3> QED
      BY <1>3, <3>1, <3>2, PlacementAssumption DEF TypeOK
  <2> QED
    BY <2>1, <2>3, <2>4 DEF TypeOK
<1> QED
  BY <1>1, <1>2, <1>3 DEF insert_area

(* allocate, with any size.                                                *)
LEMMA AllocateType ==
  ASSUME TypeOK, NEW size \in Addr, allocate(size)
  PROVE  TypeOK'
<1>1. CASE allocate_fails(size)
  BY <1>1, RefuseType, PlacementAssumption DEF allocate_fails
<1>2. ASSUME NEW i \in Used, size > 0, IsFirstFit(i, size), allocate_from(i, size)
      PROVE  TypeOK'
  <2> DEFINE area == free_memory_areas[i]
  <2>1. i \in Slots /\ area \in Area
    BY UsedSlots
  <2>2. scan' = scan /\ call' \in [op : {"allocate"}, start : Addr,
                                   size : Addr, ret : Addr]
    BY <1>2, <2>1 DEF allocate_from, Return
  <2>3. CASE /\ area.size > size
             /\ free_memory_areas' =
                  Store(i, [start |-> Wrap(area.start + size),
                            size |-> area.size - size])
             /\ UNCHANGED free_memory_area_index
    <3>1. Wrap(area.start + size) \in Addr
      BY <2>1, WrapType, PlacementAssumption
    <3>2. area.size - size \in Addr
      BY <2>1, <2>3, PlacementAssumption
    <3>3. free_memory_areas' \in [Slots -> Area]
      BY <2>1, <2>3, <3>1, <3>2, StoreType
    <3> QED
      BY <2>2, <2>3, <3>3 DEF TypeOK
  <2>4. CASE /\ \E past \in Past : free_memory_areas' = ShiftLeft(i, past)
             /\ free_memory_area_index' = free_memory_area_index - 1
    <3>1. free_memory_areas' \in [Slots -> Area]
      BY <2>1, <2>4, ShiftLeftType
    <3>2. free_memory_area_index' \in 0 .. MAX_MEMORY_AREAS_SIZE
      BY <2>4, PlacementAssumption DEF TypeOK
    <3> QED
      BY <2>2, <3>1, <3>2 DEF TypeOK
  <2> QED
    BY <1>2, <2>3, <2>4 DEF allocate_from
<1> QED
  BY <1>1, <1>2 DEF allocate

(* allocate_area, with any range.                                          *)
LEMMA AllocateAreaType ==
  ASSUME TypeOK, NEW start \in Addr, NEW size \in Addr, allocate_area(start, size)
  PROVE  TypeOK'
<1>1. CASE allocate_area_fails(start, size)
  BY <1>1, RefuseType DEF allocate_area_fails
<1>2. ASSUME NEW i \in Used, size > 0, IsFirstReaching(i, start),
             \/ take_start(i, start, size)
             \/ take_end(i, start, size)
             \/ take_whole(i, start, size)
             \/ take_middle_full(i, start, size)
             \/ take_middle(i, start, size)
             \/ take_nothing(i, start, size)
      PROVE  TypeOK'
  <2> DEFINE area == free_memory_areas[i]
  <2>1. i \in Slots /\ area \in Area
    BY UsedSlots
  <2>2. Wrap(area.size - size) \in Addr
    BY <2>1, WrapType, PlacementAssumption
  <2>3. CASE take_start(i, start, size)
    <3>1. Wrap(area.start + size) \in Addr
      BY <2>1, WrapType, PlacementAssumption
    <3>2. free_memory_areas' \in [Slots -> Area]
      BY <2>1, <2>2, <2>3, <3>1, StoreType DEF take_start
    <3>3. /\ UNCHANGED <<free_memory_area_index, scan>>
          /\ call' = [op |-> "allocate_area", start |-> start,
                      size |-> size, ret |-> 0]
      BY <2>3 DEF take_start, Return
    <3> QED
      BY <3>2, <3>3 DEF TypeOK
  <2>4. CASE take_end(i, start, size)
    <3>1. [area EXCEPT !.size = Wrap(area.size - size)] \in Area
      BY <2>1, <2>2
    <3>2. free_memory_areas' \in [Slots -> Area]
      BY <2>1, <2>4, <3>1, StoreType DEF take_end
    <3>3. /\ UNCHANGED <<free_memory_area_index, scan>>
          /\ call' = [op |-> "allocate_area", start |-> start,
                      size |-> size, ret |-> 0]
      BY <2>4 DEF take_end, Return
    <3> QED
      BY <3>2, <3>3 DEF TypeOK
  <2>5. CASE take_whole(i, start, size)
    <3>1. free_memory_areas' \in [Slots -> Area]
      BY <2>1, <2>5, ShiftLeftType DEF take_whole
    <3>2. free_memory_area_index' \in 0 .. MAX_MEMORY_AREAS_SIZE
      BY <2>5, PlacementAssumption DEF TypeOK, take_whole
    <3> QED
      BY <2>5, <3>1, <3>2 DEF TypeOK, take_whole, Return
  <2>6. CASE take_middle_full(i, start, size) \/ take_nothing(i, start, size)
    BY <2>6, RefuseType DEF take_middle_full, take_nothing
  <2>7. CASE take_middle(i, start, size)
    <3> DEFINE low  == [area EXCEPT !.size = start - area.start]
               high == [start |-> Wrap(Wrap(start + size - 1) + 1),
                        size |-> Wrap(Wrap(area.size - size) - low.size)]
    <3>1. area.start < start
      BY <2>7 DEF take_middle, IsInside
    <3>2. start - area.start \in Addr
      BY <2>1, <3>1, PlacementAssumption
    <3>3. low \in Area /\ low.size = start - area.start
      BY <2>1, <3>2
    <3>4. Wrap(start + size - 1) \in Addr
      BY WrapType, PlacementAssumption
    <3>5. Wrap(Wrap(start + size - 1) + 1) \in Addr
      BY <3>4, WrapType, PlacementAssumption
    <3>6. Wrap(Wrap(area.size - size) - low.size) \in Addr
      BY <2>2, <3>2, <3>3, WrapType, PlacementAssumption
    <3>7. high \in Area
      BY <3>5, <3>6
    <3>8. /\ free_memory_area_index < MAX_MEMORY_AREAS_SIZE
          /\ free_memory_areas' = SplitAt(i, low, high)
          /\ free_memory_area_index' = free_memory_area_index + 1
          /\ scan' = scan
          /\ call' = [op |-> "allocate_area", start |-> start,
                      size |-> size, ret |-> 0]
      BY <2>7 DEF take_middle, Return
    <3> HIDE DEF low, high
    <3>9. free_memory_areas' \in [Slots -> Area]
      BY <3>3, <3>7, <3>8, SplitAtType
    <3>10. /\ free_memory_area_index' \in 0 .. MAX_MEMORY_AREAS_SIZE
           /\ scan' \in 0 .. MAX_MEMORY_AREAS_SIZE
      BY <3>8, PlacementAssumption DEF TypeOK
    <3>11. call' \in [op : {"clear", "insert", "allocate", "allocate_area",
                            "covering", "cover"},
                      start : Addr, size : Addr, ret : Addr \cup -5 .. 0]
      BY <3>8
    <3> QED
      BY <3>9, <3>10, <3>11 DEF TypeOK
  <2> QED
    BY <1>2, <2>3, <2>4, <2>5, <2>6, <2>7
<1> QED
  BY <1>1, <1>2 DEF allocate_area

(* One iteration of the loop of allocate_area_cover.                       *)
LEMMA CoverType ==
  ASSUME TypeOK, cover_step
  PROVE  TypeOK'
<1> USE DEF Current
<1>1. /\ scan \in Used /\ scan \in Slots
      /\ Current \in Area
      /\ call.start \in Addr /\ call.size \in Addr
  BY UsedSlots, PlacementAssumption DEF TypeOK, cover_step
<1>2. CoverEnd \in Addr /\ EndOf(Current) \in Addr
  BY <1>1, EndType, WrapType, PlacementAssumption DEF CoverEnd
<1>3. scan + 1 \in 0 .. MAX_MEMORY_AREAS_SIZE
  BY <1>1, PlacementAssumption DEF TypeOK
<1>4. CASE cover_skip
  BY <1>3, <1>4 DEF TypeOK, cover_skip, table
<1>5. CASE cover_delete
  <2>1. free_memory_areas' \in [Slots -> Area]
    BY <1>1, <1>5, ShiftLeftType DEF cover_delete
  <2>2. free_memory_area_index' \in 0 .. MAX_MEMORY_AREAS_SIZE
    BY <1>1, <1>5, PlacementAssumption DEF TypeOK, cover_delete
  <2> QED
    BY <1>5, <2>1, <2>2 DEF TypeOK, cover_delete
<1>6. CASE cover_trim_start
  <2> DEFINE start == Wrap(CoverEnd + 1)
             trimmed == [start |-> start, size |-> Wrap(EndOf(Current) - start + 1)]
  <2>1. start \in Addr
    BY <1>2, WrapType, PlacementAssumption
  <2>2. Wrap(EndOf(Current) - start + 1) \in Addr
    <3> HIDE DEF start
    <3> QED
      BY <1>2, <2>1, WrapType, PlacementAssumption
  <2>3. trimmed \in Area
    BY <2>1, <2>2
  <2>4. free_memory_areas' \in [Slots -> Area]
    BY <1>1, <1>6, <2>3, StoreType DEF cover_trim_start
  <2> QED
    BY <1>3, <1>6, <2>4 DEF TypeOK, cover_trim_start
<1>7. ASSUME call.start > Current.start
      PROVE  [Current EXCEPT !.size = call.start - Current.start] \in Area
  BY <1>1, <1>7, PlacementAssumption
<1>8. CASE cover_trim_end
  <2>1. free_memory_areas' \in [Slots -> Area]
    BY <1>1, <1>7, <1>8, StoreType DEF cover_trim_end
  <2> QED
    BY <1>3, <1>8, <2>1 DEF TypeOK, cover_trim_end
<1>9. CASE cover_split_full
  BY <1>1, <1>9 DEF TypeOK, cover_split_full, table, Return
<1>10. CASE cover_split
  <2> DEFINE low  == [Current EXCEPT !.size = call.start - Current.start]
             high == [start |-> Wrap(CoverEnd + 1), size |-> EndOf(Current) - CoverEnd]
  <2>1. low \in Area
    BY <1>7, <1>10 DEF cover_split, CoverSplits
  <2>2. Wrap(CoverEnd + 1) \in Addr
    BY <1>2, WrapType, PlacementAssumption
  <2>3. EndOf(Current) - CoverEnd \in Addr
    BY <1>2, <1>10, PlacementAssumption DEF cover_split, CoverSplits
  <2>4. high \in Area
    BY <2>2, <2>3
  <2>5. /\ free_memory_area_index < MAX_MEMORY_AREAS_SIZE
        /\ free_memory_areas' = SplitAt(scan, low, high)
        /\ free_memory_area_index' = free_memory_area_index + 1
        /\ scan' = scan + 1
        /\ call' = call
    BY <1>10 DEF cover_split
  <2> HIDE DEF low, high
  <2>6. free_memory_areas' \in [Slots -> Area]
    BY <1>1, <2>1, <2>4, <2>5, SplitAtType
  <2> QED
    BY <1>3, <2>5, <2>6, PlacementAssumption DEF TypeOK
<1> QED
  BY <1>4, <1>5, <1>6, <1>8, <1>9, <1>10 DEF cover_step

(* A step of any client preserves the type invariant.                      *)
LEMMA NextType ==
  ASSUME TypeOK, [Next]_vars
  PROVE  TypeOK'
<1>1. CASE clear_placement_memory_array
  BY <1>1, PlacementAssumption
  DEF TypeOK, clear_placement_memory_array, Cleared, Return
<1>2. CASE \E start, size \in Addr : insert_area(start, size)
  BY <1>2, InsertType
<1>3. CASE \E size \in Addr : allocate(size)
  BY <1>3, AllocateType
<1>4. CASE \E start, size \in Addr : allocate_area(start, size)
  BY <1>4, AllocateAreaType
<1>5. CASE \E start, size \in Addr : allocate_area_cover(start, size)
  BY <1>5, PlacementAssumption DEF TypeOK, allocate_area_cover, table, Return
<1>6. CASE cover_step
  BY <1>6, CoverType
<1>7. CASE cover_return
  BY <1>7 DEF TypeOK, cover_return, table, Return
<1>8. CASE UNCHANGED vars
  BY <1>8 DEF TypeOK, vars
<1> QED
  BY <1>1, <1>2, <1>3, <1>4, <1>5, <1>6, <1>7, <1>8 DEF Next

(* Whatever its clients do, placement_memory.c keeps                       *)
(* free_memory_area_index within the table and writes only inside it.      *)
THEOREM TypeCorrect == Spec => []TypeOK
<1>1. Init => TypeOK
  BY PlacementAssumption DEF Init, TypeOK, Cleared
<1> QED
  BY <1>1, NextType, PTL DEF Spec

-----------------------------------------------------------------------------
\* The prescribed usage: the table stays sorted, gapped and clean

(* Without wrap-around the ends are the plain sums.                        *)
LEMMA ExactEnds ==
  ASSUME TypeOK, Separated, NEW i \in Used
  PROVE  /\ free_memory_areas[i] \in Area
         /\ free_memory_areas[i].start \in Addr
         /\ free_memory_areas[i].size \in Addr
         /\ free_memory_areas[i].size > 0
         /\ free_memory_areas[i].start + free_memory_areas[i].size < W
         /\ EndOf(free_memory_areas[i])
              = free_memory_areas[i].start + free_memory_areas[i].size - 1
         /\ Behind(free_memory_areas[i])
              = free_memory_areas[i].start + free_memory_areas[i].size
<1>1. /\ free_memory_areas[i] \in Area
      /\ free_memory_areas[i].start \in Addr
      /\ free_memory_areas[i].size \in Addr
  BY UsedSlots
<1>2. /\ free_memory_areas[i].size > 0
      /\ free_memory_areas[i].start + free_memory_areas[i].size < W
  BY DEF Separated
<1> QED
  BY <1>1, <1>2, PlacementAssumption DEF EndOf, Behind, Wrap

(* Making a free area smaller keeps the table sorted and gapped.           *)
LEMMA ShrinkSeparated ==
  ASSUME TypeOK, Separated, NEW i \in Used, NEW area \in Area,
         area.size > 0,
         free_memory_areas[i].start <= area.start,
         area.start + area.size
           <= free_memory_areas[i].start + free_memory_areas[i].size,
         free_memory_areas' = Store(i, area),
         free_memory_area_index' = free_memory_area_index
  PROVE  Separated'
<1>1. \A j \in Used : /\ j \in Slots
                      /\ free_memory_areas[j].start \in Addr
                      /\ free_memory_areas[j].size \in Addr
  BY ExactEnds, UsedSlots
<1>2. area.start \in Addr /\ area.size \in Addr
  OBVIOUS
<1>3. \A j \in Used :
        free_memory_areas'[j] = IF j = i THEN area ELSE free_memory_areas[j]
  BY <1>1 DEF TypeOK, Store
<1>4. free_memory_area_index \in Nat
  BY PlacementAssumption DEF TypeOK
<1> QED
  BY <1>1, <1>2, <1>3, <1>4, PlacementAssumption DEF Separated

(* So does erasing one.                                                    *)
LEMMA EraseSeparated ==
  ASSUME TypeOK, Separated, NEW i \in Used, NEW past \in Past,
         free_memory_areas' = ShiftLeft(i, past),
         free_memory_area_index' = free_memory_area_index - 1
  PROVE  Separated'
<1>1. free_memory_area_index \in 0 .. MAX_MEMORY_AREAS_SIZE
  BY DEF TypeOK
<1>2. \A j \in 0 .. free_memory_area_index - 2 :
        free_memory_areas'[j] = IF j < i THEN free_memory_areas[j]
                                ELSE free_memory_areas[j + 1]
  BY <1>1, PlacementAssumption DEF ShiftLeft
<1>3. \A j \in 0 .. free_memory_area_index - 2 : j \in Used /\ j + 1 \in Used
  BY <1>1, PlacementAssumption
<1> QED
  BY <1>1, <1>2, <1>3, PlacementAssumption DEF Separated

(* And cutting one in two, when the pieces do not touch.                   *)
LEMMA SplitSeparated ==
  ASSUME TypeOK, Separated, NEW i \in Used, NEW low \in Area, NEW high \in Area,
         free_memory_area_index < MAX_MEMORY_AREAS_SIZE,
         low.size > 0, high.size > 0,
         low.start = free_memory_areas[i].start,
         low.start + low.size < high.start,
         high.start + high.size
           = free_memory_areas[i].start + free_memory_areas[i].size,
         free_memory_areas' = SplitAt(i, low, high),
         free_memory_area_index' = free_memory_area_index + 1
  PROVE  Separated'
<1>1. free_memory_area_index \in 0 .. MAX_MEMORY_AREAS_SIZE
  BY DEF TypeOK
<1>2. \A j \in Used : /\ free_memory_areas[j].start \in Addr
                      /\ free_memory_areas[j].size \in Addr
  BY ExactEnds
<1>3. /\ low.start \in Addr /\ low.size \in Addr
      /\ high.start \in Addr /\ high.size \in Addr
  OBVIOUS
<1>4. \A j \in 0 .. free_memory_area_index :
        /\ j < i => free_memory_areas'[j] = free_memory_areas[j]
        /\ j = i => free_memory_areas'[j] = low
        /\ j = i + 1 => free_memory_areas'[j] = high
        /\ j > i + 1 => free_memory_areas'[j] = free_memory_areas[j - 1]
  BY <1>1, PlacementAssumption DEF SplitAt
<1>5. \A j \in 0 .. free_memory_area_index :
        /\ j < i => j \in Used
        /\ j > i + 1 => j - 1 \in Used /\ j - 1 > i
  BY <1>1, PlacementAssumption
<1>6. \A j \in 0 .. free_memory_area_index :
        /\ free_memory_areas'[j].size > 0
        /\ free_memory_areas'[j].start + free_memory_areas'[j].size < W
        /\ free_memory_areas'[j].start \in Addr
        /\ free_memory_areas'[j].size \in Addr
  <2> TAKE j \in 0 .. free_memory_area_index
  <2>1. j < i \/ j = i \/ j = i + 1 \/ j > i + 1
    BY <1>1, PlacementAssumption
  <2> QED
    BY <1>1, <1>2, <1>3, <1>4, <1>5, <2>1, PlacementAssumption DEF Separated
<1>7. ASSUME NEW j \in 0 .. free_memory_area_index,
             NEW k \in 0 .. free_memory_area_index, j < k
      PROVE  free_memory_areas'[j].start + free_memory_areas'[j].size
               < free_memory_areas'[k].start
  <2>1. CASE k < i
    BY <1>1, <1>4, <1>5, <1>7, <2>1, PlacementAssumption DEF Separated
  <2>2. CASE k = i \/ k = i + 1
    <3>1. CASE j < i
      BY <1>1, <1>2, <1>3, <1>4, <1>5, <1>7, <2>2, <3>1, PlacementAssumption
      DEF Separated
    <3>2. CASE j = i
      BY <1>1, <1>3, <1>4, <1>7, <2>2, <3>2, PlacementAssumption
    <3> QED
      BY <1>1, <1>7, <2>2, <3>1, <3>2, PlacementAssumption
  <2>3. CASE k > i + 1
    <3>1. CASE j < i
      BY <1>1, <1>4, <1>5, <1>7, <2>3, <3>1, PlacementAssumption DEF Separated
    <3>2. CASE j = i \/ j = i + 1
      BY <1>1, <1>2, <1>3, <1>4, <1>5, <1>7, <2>3, <3>2, PlacementAssumption
      DEF Separated
    <3>3. CASE j > i + 1
      BY <1>1, <1>4, <1>5, <1>7, <2>3, <3>3, PlacementAssumption DEF Separated
    <3> QED
      BY <1>1, <3>1, <3>2, <3>3, PlacementAssumption
  <2> QED
    BY <1>1, <2>1, <2>2, <2>3, PlacementAssumption
<1> QED
  BY <1>1, <1>6, <1>7 DEF Separated

(***************************************************************************)
(* An accepted insertion.  c is the slot found by the search; the areas    *)
(* below c end at or before the new one (strictly before when there is no  *)
(* edge in common), those from c on start at or behind its end.            *)
(***************************************************************************)
LEMMA InsertNeighbours ==
  ASSUME TypeOK, Separated, NEW start \in Addr, NEW size \in Addr, size > 0,
         Declarable(start, size),
         NEW c \in Slots, IsCorrectIndex(c, start),
         ~ PredecessorCollision(c, [start |-> start, size |-> size])
  PROVE  /\ c <= free_memory_area_index
         /\ start + size < W
         /\ \A i \in Used : i < c =>
              free_memory_areas[i].start + free_memory_areas[i].size <= start
         /\ \A i \in Used : i >= c => start + size <= free_memory_areas[i].start
<1> DEFINE S(i) == free_memory_areas[i].start
           B(i) == free_memory_areas[i].start + free_memory_areas[i].size
<1>1. /\ c <= free_memory_area_index
      /\ \A i \in 0 .. c - 1 : S(i) < start
      /\ c < free_memory_area_index => start <= S(c)
  BY DEF IsCorrectIndex
<1>2. start + size < W
  BY DEF Declarable
<1>3. free_memory_area_index \in 0 .. MAX_MEMORY_AREAS_SIZE
  BY DEF TypeOK
<1>4. ASSUME NEW i \in Used, i < c
      PROVE  B(i) <= start
  <2>1. c - 1 \in Used /\ c > 0 /\ c - 1 \in 0 .. c - 1
    BY <1>1, <1>3, <1>4, PlacementAssumption
  <2>2. /\ EndOf(free_memory_areas[c - 1]) = B(c - 1) - 1
        /\ S(c - 1) \in Addr /\ free_memory_areas[c - 1].size \in Addr
    BY <2>1, ExactEnds
  <2>3. S(c - 1) < start
    BY <1>1, <2>1
  <2>4. ~ (S(c - 1) <= start /\ start <= EndOf(free_memory_areas[c - 1]))
    BY <2>1 DEF PredecessorCollision, overlapp
  <2>5. B(c - 1) <= start
    BY <2>2, <2>3, <2>4, PlacementAssumption
  <2>6. CASE i = c - 1
    BY <2>5, <2>6
  <2>7. CASE i < c - 1
    <3>1. B(i) < S(c - 1)
      BY <2>1, <2>7 DEF Separated
    <3>2. S(i) \in Addr /\ free_memory_areas[i].size \in Addr
      BY ExactEnds
    <3> QED
      BY <2>2, <2>3, <3>1, <3>2, PlacementAssumption
  <2> QED
    BY <1>4, <2>6, <2>7, PlacementAssumption
<1>5. ASSUME NEW i \in Used, i >= c
      PROVE  start + size <= S(i)
  <2>1. c \in Used /\ c < free_memory_area_index
    BY <1>3, <1>5, PlacementAssumption
  <2>2. /\ S(c) \in Addr /\ free_memory_areas[c].size \in Addr
        /\ free_memory_areas[c].size > 0
        /\ S(i) \in Addr
    BY <2>1, ExactEnds
  <2>3. start <= S(c)
    BY <1>1, <2>1
  <2>4. Bytes(start, size) \cap FreeBytes = {}
    BY <2>1, <2>2, <2>3, PlacementAssumption DEF Declarable
  <2>5. S(c) \in FreeBytes
    BY <2>1, <2>2, PlacementAssumption DEF FreeBytes
  <2>6. S(c) \notin Bytes(start, size)
    BY <2>4, <2>5
  <2>7. start + size <= S(c)
    BY <2>2, <2>3, <2>6, PlacementAssumption DEF Bytes
  <2>8. CASE i = c
    BY <2>7, <2>8
  <2>9. CASE i > c
    <3>1. S(c) + free_memory_areas[c].size < S(i)
      BY <2>1, <2>9 DEF Separated
    <3> QED
      BY <2>2, <2>7, <3>1, PlacementAssumption
  <2> QED
    BY <1>5, <2>8, <2>9, PlacementAssumption
<1> QED
  BY <1>1, <1>2, <1>4, <1>5

(* A declarable area that shares an edge with none of its neighbours lies  *)
(* behind all the others: the store at slot c overwrites nothing.          *)
LEMMA StoreAppends ==
  ASSUME TypeOK, Separated, NEW start \in Addr, NEW size \in Addr, size > 0,
         Declarable(start, size),
         NEW c \in Slots, IsCorrectIndex(c, start),
         ~ PredecessorCollision(c, [start |-> start, size |-> size]),
         insert_store(c, start, size)
  PROVE  c = free_memory_area_index
<1> DEFINE S(i) == free_memory_areas[i].start
           B(i) == free_memory_areas[i].start + free_memory_areas[i].size
<1> SUFFICES ASSUME c # free_memory_area_index PROVE FALSE
  OBVIOUS
<1>1. /\ c <= free_memory_area_index
      /\ start + size < W
      /\ \A i \in Used : i < c => B(i) <= start
      /\ \A i \in Used : i >= c => start + size <= S(i)
  BY InsertNeighbours
<1>2. free_memory_area_index \in 0 .. MAX_MEMORY_AREAS_SIZE
  BY DEF TypeOK
<1>3. c \in Used
  BY <1>1, <1>2, PlacementAssumption
<1>4. \A i \in Used : /\ S(i) \in Addr /\ free_memory_areas[i].size \in Addr
                      /\ free_memory_areas[i].size > 0
                      /\ Behind(free_memory_areas[i]) = B(i)
  BY ExactEnds
<1>5. start - 1 \in FreeBytes \/ start + size \in FreeBytes
  <2>1. start + size <= S(c)
    BY <1>1, <1>3, PlacementAssumption
  <2>2. ~ (S(c) < start)
    BY <1>3, <1>4, <2>1, PlacementAssumption
  <2> QED
    BY <1>3, <2>2 DEF Declarable
<1>6. CASE start - 1 \in FreeBytes
  <2>1. PICK i \in Used : S(i) <= start - 1 /\ start - 1 < B(i)
    BY <1>6 DEF FreeBytes
  <2>2. i < c
    BY <1>1, <1>3, <1>4, <2>1, PlacementAssumption
  <2>3. B(i) = start
    BY <1>1, <1>4, <2>1, <2>2, PlacementAssumption
  <2>4. i = c - 1
    <3> SUFFICES ASSUME i < c - 1 PROVE FALSE
      BY <2>2, PlacementAssumption
    <3>1. c - 1 \in Used
      BY <1>2, <1>3, PlacementAssumption
    <3>2. B(i) < S(c - 1)
      BY <3>1 DEF Separated
    <3>3. B(c - 1) <= start
      BY <1>1, <3>1, PlacementAssumption
    <3> QED
      BY <1>4, <2>3, <3>1, <3>2, <3>3, PlacementAssumption
  <2>5. JoinsPredecessor(c, start)
    BY <1>4, <2>2, <2>3, <2>4, PlacementAssumption DEF JoinsPredecessor
  <2> QED
    BY <2>5 DEF insert_store
<1>7. CASE start + size \in FreeBytes
  <2>1. PICK i \in Used : S(i) <= start + size /\ start + size < B(i)
    BY <1>7 DEF FreeBytes
  <2>2. i >= c
    BY <1>1, <1>4, <2>1, PlacementAssumption
  <2>3. S(i) = start + size
    BY <1>1, <1>4, <2>1, <2>2, PlacementAssumption
  <2>4. i = c
    <3> SUFFICES ASSUME c < i PROVE FALSE
      BY <2>2, PlacementAssumption
    <3>1. B(c) < S(i)
      BY <1>3 DEF Separated
    <3>2. start + size <= S(c)
      BY <1>1, <1>3, PlacementAssumption
    <3> QED
      BY <1>3, <1>4, <2>3, <3>1, <3>2, PlacementAssumption
  <2>5. S(c) = Wrap(start + size)
    BY <1>1, <2>3, <2>4, PlacementAssumption DEF Wrap
  <2> QED
    BY <2>5 DEF insert_store
<1> QED
  BY <1>5, <1>6, <1>7

(* insert_area keeps the table sorted, gapped and clean.                   *)
LEMMA InsertUsage ==
  ASSUME TypeOK, Separated, CleanTail,
         NEW start \in Addr, NEW size \in Addr,
         Declarable(start, size), insert_area(start, size)
  PROVE  Separated' /\ CleanTail'
<1> DEFINE S(i) == free_memory_areas[i].start
           B(i) == free_memory_areas[i].start + free_memory_areas[i].size
<1>0. \A i \in Slots \ Used : free_memory_areas[i] = Cleared
  BY DEF CleanTail, Declarable
<1>1. ASSUME UNCHANGED table
      PROVE  Separated' /\ CleanTail'
  BY <1>0, <1>1 DEF Separated, CleanTail, table
<1>2. CASE insert_full(start, size) \/ insert_empty(start, size)
  BY <1>1, <1>2 DEF insert_full, insert_empty, Refuse
<1>3. ASSUME NEW c \in Slots, insert_collides(c, start, size)
      PROVE  Separated' /\ CleanTail'
  BY <1>1, <1>3 DEF insert_collides, Refuse
<1>4. ASSUME free_memory_area_index < MAX_MEMORY_AREAS_SIZE, size > 0,
             NEW c \in Slots, IsCorrectIndex(c, start),
             insert_accepted(c, start, size)
      PROVE  Separated' /\ CleanTail'
  <2>1. ~ PredecessorCollision(c, [start |-> start, size |-> size])
    BY <1>4 DEF insert_accepted
  <2>2. /\ c <= free_memory_area_index
        /\ start + size < W
        /\ \A i \in Used : i < c => B(i) <= start
        /\ \A i \in Used : i >= c => start + size <= S(i)
    BY <1>4, <2>1, InsertNeighbours
  <2>3. free_memory_area_index \in 0 .. MAX_MEMORY_AREAS_SIZE
    BY DEF TypeOK
  <2>4. \A i \in Used : /\ S(i) \in Addr /\ free_memory_areas[i].size \in Addr
                        /\ free_memory_areas[i].size > 0
                        /\ B(i) < W
                        /\ Behind(free_memory_areas[i]) = B(i)
    BY ExactEnds
  <2>5. ASSUME free_memory_areas[c].start = start + size
        PROVE  c \in Used
    <3> SUFFICES ASSUME c \notin Used PROVE FALSE
      OBVIOUS
    <3>1. free_memory_areas[c] = Cleared
      BY <1>0
    <3> QED
      BY <1>4, <2>5, <3>1, PlacementAssumption DEF Cleared
  <2>6. ASSUME JoinsPredecessor(c, start)
        PROVE  /\ c > 0 /\ c - 1 \in Used
               /\ B(c - 1) = start
               /\ GrownPredecessor(c, size)
                    = [start |-> S(c - 1), size |-> start + size - S(c - 1)]
               /\ Behind(GrownPredecessor(c, size)) = start + size
    <3>1. c > 0 /\ c - 1 \in Used
      BY <2>2, <2>3, <2>6, PlacementAssumption DEF JoinsPredecessor
    <3>2. B(c - 1) = start /\ S(c - 1) \in Addr
          /\ free_memory_areas[c - 1].size \in Addr
          /\ free_memory_areas[c - 1] \in Area
      BY <2>4, <2>6, <3>1, UsedSlots DEF JoinsPredecessor
    <3>3. free_memory_areas[c - 1].size + size = start + size - S(c - 1)
          /\ free_memory_areas[c - 1].size + size < W
      BY <2>2, <3>2, PlacementAssumption
    <3>4. Wrap(free_memory_areas[c - 1].size + size) = start + size - S(c - 1)
      BY <3>2, <3>3, PlacementAssumption DEF Wrap
    <3>5. GrownPredecessor(c, size)
            = [start |-> S(c - 1), size |-> start + size - S(c - 1)]
      BY <3>2, <3>4 DEF GrownPredecessor
    <3>6. Behind(GrownPredecessor(c, size)) = start + size
      BY <2>2, <3>2, <3>5, PlacementAssumption DEF Behind, Wrap
    <3> QED
      BY <3>1, <3>2, <3>5, <3>6
  <2>7. ASSUME ~ JoinsPredecessor(c, start), NEW i \in Used, i < c
        PROVE  B(i) < start
    <3>1. c > 0 /\ c - 1 \in Used
      BY <2>2, <2>3, <2>7, PlacementAssumption
    <3>2. B(c - 1) < start
      BY <2>2, <2>4, <2>7, <3>1, PlacementAssumption DEF JoinsPredecessor
    <3>3. CASE i = c - 1
      BY <3>2, <3>3
    <3>4. CASE i < c - 1
      <4>1. B(i) < S(c - 1)
        BY <3>1, <3>4 DEF Separated
      <4> QED
        BY <2>4, <3>1, <3>2, <4>1, PlacementAssumption
    <3> QED
      BY <2>7, <3>3, <3>4, PlacementAssumption
  <2>8. CASE insert_merge_predecessor(c, start, size)
    <3> DEFINE grown == [start |-> S(c - 1), size |-> start + size - S(c - 1)]
    <3>1. /\ c > 0 /\ c - 1 \in Used /\ c - 1 \in Slots
          /\ B(c - 1) = start
          /\ free_memory_areas[c].start # start + size
          /\ free_memory_areas' = Store(c - 1, grown)
          /\ free_memory_area_index' = free_memory_area_index
      BY <2>6, <2>8, UsedSlots DEF insert_merge_predecessor
    <3>2. \A j \in Slots : free_memory_areas'[j]
                             = IF j = c - 1 THEN grown ELSE free_memory_areas[j]
      BY <3>1 DEF TypeOK, Store
    <3>3. \A j \in Used : j >= c => start + size < S(j)
      <4> SUFFICES ASSUME NEW j \in Used, j >= c PROVE start + size < S(j)
        OBVIOUS
      <4>1. c \in Used /\ start + size < S(c)
        BY <2>2, <2>3, <2>4, <3>1, PlacementAssumption
      <4>2. CASE j = c
        BY <4>1, <4>2
      <4>3. CASE j > c
        <5>1. B(c) < S(j)
          BY <4>1, <4>3 DEF Separated
        <5> QED
          BY <2>4, <4>1, <5>1, PlacementAssumption
      <4> QED
        BY <4>2, <4>3, PlacementAssumption
    <3>4. Separated'
      <4>1. \A j \in Used : j \in Slots
        BY UsedSlots
      <4>2. grown.start = S(c - 1) /\ grown.start + grown.size = start + size
            /\ grown.size > 0
        BY <1>4, <2>4, <3>1, PlacementAssumption
      <4>3. \A j \in Used : j < c - 1 => B(j) < S(c - 1)
        BY <3>1 DEF Separated
      <4> HIDE DEF grown
      <4> QED
        BY <2>2, <2>3, <2>4, <3>1, <3>2, <3>3, <4>1, <4>2, <4>3,
           PlacementAssumption
        DEF Separated
    <3>5. CleanTail'
      BY <1>0, <2>3, <3>1, <3>2, PlacementAssumption DEF CleanTail
    <3> QED
      BY <3>4, <3>5
  <2>9. CASE insert_merge_both(c, start, size)
    <3> DEFINE joined == [start |-> S(c - 1), size |-> B(c) - S(c - 1)]
    <3>1. /\ JoinsPredecessor(c, start)
          /\ S(c) = Behind(GrownPredecessor(c, size))
      BY <2>9 DEF insert_merge_both
    <3>2. /\ c > 0 /\ c - 1 \in Used /\ c \in Used
          /\ B(c - 1) = start /\ S(c) = start + size
          /\ GrownPredecessor(c, size)
               = [start |-> S(c - 1), size |-> start + size - S(c - 1)]
      BY <2>5, <2>6, <3>1
    <3>3. /\ start + size - S(c - 1) + free_memory_areas[c].size = B(c) - S(c - 1)
          /\ B(c) - S(c - 1) \in 1 .. W - 1
      BY <1>4, <2>4, <3>2, PlacementAssumption
    <3>4. Wrap(start + size - S(c - 1) + free_memory_areas[c].size)
            = B(c) - S(c - 1)
      BY <3>3, PlacementAssumption DEF Wrap
    <3>5. [GrownPredecessor(c, size) EXCEPT !.size =
             Wrap(GrownPredecessor(c, size).size + free_memory_areas[c].size)]
            = joined
      BY <3>2, <3>4
    <3>6. PICK past \in Past :
            /\ free_memory_areas' = [ShiftLeft(c, past) EXCEPT ![c - 1] = joined]
            /\ free_memory_area_index' = free_memory_area_index - 1
      BY <2>9, <3>5 DEF insert_merge_both
    <3>7. \A j \in Slots :
            /\ j < c - 1 => free_memory_areas'[j] = free_memory_areas[j]
            /\ j = c - 1 => free_memory_areas'[j] = joined
            /\ j >= c /\ j < free_memory_area_index
                 => free_memory_areas'[j] = free_memory_areas[j + 1]
            /\ j >= free_memory_area_index
                 => free_memory_areas'[j] = free_memory_areas[j]
      <4> HIDE DEF joined
      <4> QED
        BY <1>4, <2>3, <3>2, <3>6, PlacementAssumption DEF ShiftLeft
    <3>8. /\ joined.start = S(c - 1) /\ joined.start + joined.size = B(c)
          /\ joined.size > 0
      BY <2>4, <3>2, <3>3, PlacementAssumption
    <3>9. \A j \in 0 .. free_memory_area_index - 2 :
            j \in Slots /\ j \in Used /\ j + 1 \in Used
      BY <2>3, PlacementAssumption
    <3>10. Separated'
      <4> DEFINE first(j) == IF j <= c - 1 THEN j ELSE j + 1
                 last(j) == IF j < c - 1 THEN j ELSE j + 1
      <4>1. Used' = 0 .. free_memory_area_index - 2
        BY <2>3, <3>6
      <4>2. \A i, j \in Used : i < j => B(i) < S(j)
        BY DEF Separated
      <4>3. ASSUME NEW j \in Used'
            PROVE  LET new == free_memory_areas'[j] IN
                   /\ first(j) \in Used /\ last(j) \in Used
                   /\ new.start = S(first(j)) /\ new.start + new.size = B(last(j))
                   /\ new.size > 0 /\ B(last(j)) < W
        <5> HIDE DEF joined
        <5>0. j \in 0 .. free_memory_area_index - 2
          BY <4>1
        <5>1. j \in Slots /\ j \in Used /\ j + 1 \in Used /\ j \in Nat
          BY <2>3, <3>9, <5>0
        <5>2. CASE j < c - 1
          BY <2>4, <3>7, <5>1, <5>2
        <5>3. CASE j = c - 1
          <6>1. j + 1 = c
            BY <3>2, <5>3
          <6> QED
            BY <2>4, <3>7, <3>8, <5>1, <5>3, <6>1
        <5>4. CASE j >= c
          <6>1. free_memory_areas'[j] = free_memory_areas[j + 1]
            BY <2>3, <3>7, <4>1, <5>1, <5>4
          <6> QED
            BY <2>4, <3>2, <5>1, <5>4, <6>1
        <5> QED
          BY <3>2, <5>1, <5>2, <5>3, <5>4
      <4>4. ASSUME NEW i \in Used', NEW j \in Used', i < j
            PROVE  last(i) < first(j)
        BY <2>3, <3>2, <4>1, <4>4
      <4> HIDE DEF first, last, S, B
      <4>5. \A i, j \in Used' : i < j => B(last(i)) < S(first(j))
        BY <4>2, <4>3, <4>4
      <4> QED
        BY <4>3, <4>5 DEF Separated
    <3>11. CleanTail'
      <4> SUFFICES ASSUME NEW j \in Slots, ~ (j \in 0 .. free_memory_area_index - 2)
                   PROVE  free_memory_areas'[j] = Cleared
        BY <2>3, <3>6, PlacementAssumption DEF CleanTail
      <4>1. CASE j >= free_memory_area_index
        BY <1>0, <2>3, <3>7, <4>1, PlacementAssumption
      <4>2. CASE j = free_memory_area_index - 1
        <5>1. j + 1 \in Slots \ Used
          BY <1>4, <2>3, <4>2, PlacementAssumption
        <5>2. j >= c /\ j < free_memory_area_index
          BY <2>3, <3>2, <4>2, PlacementAssumption
        <5> QED
          BY <1>0, <3>7, <5>1, <5>2
      <4> QED
        BY <2>3, <4>1, <4>2, PlacementAssumption
    <3> QED
      BY <3>10, <3>11
  <2>10. CASE insert_merge_successor(c, start, size)
    <3> DEFINE grown == [start |-> start, size |-> B(c) - start]
    <3>1. /\ ~ JoinsPredecessor(c, start)
          /\ S(c) = Wrap(start + size)
          /\ free_memory_areas' =
               Store(c, [start |-> start, size |-> Wrap(free_memory_areas[c].size + size)])
          /\ free_memory_area_index' = free_memory_area_index
      BY <2>10 DEF insert_merge_successor
    <3>2. S(c) = start + size
      BY <2>2, <3>1, PlacementAssumption DEF Wrap
    <3>3. c \in Used
      BY <2>5, <3>2
    <3>4. Wrap(free_memory_areas[c].size + size) = B(c) - start
      BY <2>4, <3>2, <3>3, PlacementAssumption DEF Wrap
    <3>5. \A j \in Slots : free_memory_areas'[j]
                             = IF j = c THEN grown ELSE free_memory_areas[j]
      BY <3>1, <3>4 DEF TypeOK, Store
    <3>6. grown.start = start /\ grown.start + grown.size = B(c) /\ grown.size > 0
      BY <1>4, <2>4, <3>2, <3>3, PlacementAssumption
    <3>7. Separated'
      <4>1. \A j \in Used : j \in Slots
        BY UsedSlots
      <4>2. \A j \in Used : j < c => B(j) < start
        BY <2>7, <3>1
      <4>3. \A j \in Used : j > c => B(c) < S(j)
        BY <3>3 DEF Separated
      <4> HIDE DEF grown
      <4> QED
        BY <2>3, <2>4, <3>1, <3>3, <3>5, <3>6, <4>1, <4>2, <4>3,
           PlacementAssumption
        DEF Separated
    <3>8. CleanTail'
      BY <1>0, <2>3, <3>1, <3>3, <3>5, PlacementAssumption DEF CleanTail
    <3> QED
      BY <3>7, <3>8
  <2>11. CASE insert_store(c, start, size)
    <3> DEFINE new == [start |-> start, size |-> size]
    <3>1. /\ ~ JoinsPredecessor(c, start)
          /\ free_memory_areas' = Store(c, new)
          /\ free_memory_area_index' = free_memory_area_index + 1
      BY <2>11 DEF insert_store
    <3>2. c = free_memory_area_index
      BY <1>4, <2>1, <2>11, StoreAppends
    <3>3. \A j \in Slots : free_memory_areas'[j]
                             = IF j = c THEN new ELSE free_memory_areas[j]
      BY <3>1 DEF TypeOK, Store
    <3>4. Separated'
      <4>1. \A j \in Used : j \in Slots /\ B(j) < start
        BY <2>3, <2>7, <3>1, <3>2, UsedSlots, PlacementAssumption
      <4>2. new.start = start /\ new.size = size
        OBVIOUS
      <4> HIDE DEF new
      <4> QED
        BY <1>4, <2>2, <2>3, <2>4, <3>1, <3>2, <3>3, <4>1, <4>2,
           PlacementAssumption
        DEF Separated
    <3>5. CleanTail'
      BY <1>0, <2>3, <3>1, <3>2, <3>3, PlacementAssumption DEF CleanTail
    <3> QED
      BY <3>4, <3>5
  <2> QED
    BY <1>4, <2>8, <2>9, <2>10, <2>11 DEF insert_accepted
<1> QED
  BY <1>2, <1>3, <1>4 DEF insert_area

(* allocate keeps the table sorted and gapped: a slot shrinks from its     *)
(* start or disappears.                                                    *)
LEMMA AllocateSeparated ==
  ASSUME TypeOK, Separated, NEW size \in Addr, allocate(size)
  PROVE  Separated'
<1>1. CASE allocate_fails(size)
  BY <1>1 DEF allocate_fails, Refuse, table, Separated
<1>2. ASSUME NEW i \in Used, size > 0, allocate_from(i, size)
      PROVE  Separated'
  <2> DEFINE area == free_memory_areas[i]
             rest == [start |-> Wrap(area.start + size), size |-> area.size - size]
  <2>1. /\ area.start \in Addr /\ area.size \in Addr
        /\ area.start + area.size < W
    BY ExactEnds
  <2>2. CASE /\ area.size > size
             /\ free_memory_areas' = Store(i, rest)
             /\ UNCHANGED free_memory_area_index
    <3>1. Wrap(area.start + size) = area.start + size
      BY <2>1, <2>2, PlacementAssumption DEF Wrap
    <3>2. rest \in Area /\ rest.size > 0
      BY <2>1, <2>2, <3>1, PlacementAssumption
    <3>3. area.start <= rest.start
          /\ rest.start + rest.size <= area.start + area.size
      BY <2>1, <3>1, PlacementAssumption
    <3> HIDE DEF rest
    <3> QED
      BY <2>2, <3>2, <3>3, ShrinkSeparated
  <2>3. CASE /\ \E past \in Past : free_memory_areas' = ShiftLeft(i, past)
             /\ free_memory_area_index' = free_memory_area_index - 1
    BY <2>3, EraseSeparated
  <2> QED
    BY <1>2, <2>2, <2>3 DEF allocate_from
<1> QED
  BY <1>1, <1>2 DEF allocate

(* So does allocate_area.                                                  *)
LEMMA AllocateAreaSeparated ==
  ASSUME TypeOK, Separated, NEW start \in Addr, NEW size \in Addr,
         InAddressSpace(start, size), allocate_area(start, size)
  PROVE  Separated'
<1>0. start + size <= W
  BY DEF InAddressSpace
<1>1. CASE allocate_area_fails(start, size)
  BY <1>1 DEF allocate_area_fails, Refuse, table, Separated
<1>2. ASSUME NEW i \in Used, size > 0,
             \/ take_start(i, start, size)
             \/ take_end(i, start, size)
             \/ take_whole(i, start, size)
             \/ take_middle_full(i, start, size)
             \/ take_middle(i, start, size)
             \/ take_nothing(i, start, size)
      PROVE  Separated'
  <2> DEFINE area == free_memory_areas[i]
  <2>1. /\ area \in Area
        /\ area.start \in Addr /\ area.size \in Addr /\ area.size > 0
        /\ area.start + area.size < W
        /\ EndOf(area) = area.start + area.size - 1
    BY ExactEnds
  <2>2. Wrap(start + size - 1) = start + size - 1
    BY <1>0, <1>2, PlacementAssumption DEF Wrap
  <2>3. CASE take_start(i, start, size)
    <3> DEFINE rest == [start |-> area.start + size, size |-> area.size - size]
    <3>1. area.start = start /\ area.size > size
      BY <2>1, <2>2, <2>3, PlacementAssumption DEF take_start
    <3>2. /\ Wrap(area.start + size) = area.start + size
          /\ Wrap(area.size - size) = area.size - size
      BY <2>1, <3>1, PlacementAssumption DEF Wrap
    <3>3. /\ free_memory_areas' = Store(i, rest)
          /\ free_memory_area_index' = free_memory_area_index
      BY <2>3, <3>2 DEF take_start
    <3>4. rest \in Area /\ rest.size > 0 /\ area.start <= rest.start
          /\ rest.start + rest.size <= area.start + area.size
      BY <2>1, <3>1, PlacementAssumption
    <3> HIDE DEF rest
    <3> QED
      BY <3>3, <3>4, ShrinkSeparated
  <2>4. CASE take_end(i, start, size)
    <3> DEFINE rest == [area EXCEPT !.size = area.size - size]
    <3>1. area.start < start /\ area.start + area.size = start + size
      BY <2>1, <2>2, <2>4, PlacementAssumption DEF take_end
    <3>2. area.size - size \in Addr /\ area.size - size > 0
      BY <2>1, <3>1, PlacementAssumption
    <3>3. Wrap(area.size - size) = area.size - size
      BY <3>2, PlacementAssumption DEF Wrap
    <3>4. /\ free_memory_areas' = Store(i, rest)
          /\ free_memory_area_index' = free_memory_area_index
      BY <2>4, <3>3 DEF take_end
    <3>5. rest \in Area /\ rest.size = area.size - size /\ rest.start = area.start
      BY <2>1, <3>2
    <3>6. rest.size > 0 /\ area.start <= rest.start
          /\ rest.start + rest.size <= area.start + area.size
      BY <2>1, <3>2, <3>5, PlacementAssumption
    <3> HIDE DEF rest
    <3> QED
      BY <3>4, <3>5, <3>6, ShrinkSeparated
  <2>5. CASE take_whole(i, start, size)
    BY <2>5, EraseSeparated DEF take_whole
  <2>6. CASE take_middle_full(i, start, size) \/ take_nothing(i, start, size)
    BY <2>6 DEF take_middle_full, take_nothing, Refuse, table, Separated
  <2>7. CASE take_middle(i, start, size)
    <3> DEFINE low  == [area EXCEPT !.size = start - area.start]
               high == [start |-> Wrap(Wrap(start + size - 1) + 1),
                        size |-> Wrap(Wrap(area.size - size) - low.size)]
    <3>1. /\ area.start < start
          /\ area.start + area.size > start + size
      BY <2>1, <2>2, <2>7, PlacementAssumption DEF take_middle, IsInside
    <3>2. /\ start - area.start \in Addr /\ start - area.start > 0
          /\ area.size - size \in Addr
          /\ area.size - size - (start - area.start) \in Addr
          /\ area.size - size - (start - area.start) > 0
          /\ start + size < W
      BY <1>2, <2>1, <3>1, PlacementAssumption
    <3>3. low \in Area /\ low.start = area.start /\ low.size = start - area.start
      BY <2>1, <3>2
    <3>4. /\ Wrap(area.size - size) = area.size - size
          /\ Wrap(area.size - size - (start - area.start))
               = area.size - size - (start - area.start)
          /\ Wrap(start + size - 1 + 1) = start + size
      BY <3>2, PlacementAssumption DEF Wrap
    <3>5. /\ high.start = start + size
          /\ high.size = area.size - size - (start - area.start)
      BY <2>2, <3>3, <3>4
    <3>6. high \in Area
      BY <3>2, <3>5, PlacementAssumption
    <3>7. /\ free_memory_area_index < MAX_MEMORY_AREAS_SIZE
          /\ free_memory_areas' = SplitAt(i, low, high)
          /\ free_memory_area_index' = free_memory_area_index + 1
      BY <2>7 DEF take_middle
    <3> HIDE DEF low, high
    <3>8. /\ low.size > 0 /\ high.size > 0
          /\ low.start + low.size < high.start
          /\ high.start + high.size = area.start + area.size
      BY <1>2, <2>1, <3>2, <3>3, <3>5, PlacementAssumption
    <3> QED
      BY <3>3, <3>6, <3>7, <3>8, SplitSeparated
  <2> QED
    BY <1>2, <2>3, <2>4, <2>5, <2>6, <2>7
<1> QED
  BY <1>1, <1>2 DEF allocate_area

(* One iteration of allocate_area_cover keeps the table sorted and gapped, *)
(* and leaves no byte of the range in the areas it has passed.             *)
LEMMA CoverUsage ==
  ASSUME TypeOK, Separated, CoverProgress, cover_step
  PROVE  Separated' /\ CoverProgress'
<1> USE DEF Current
<1> DEFINE S(i) == free_memory_areas[i].start
           B(i) == free_memory_areas[i].start + free_memory_areas[i].size
           Passed(i) == B(i) <= call.start \/ call.start + call.size <= S(i)
<1>1. /\ call.op = "covering"
      /\ scan \in Used /\ scan \in Slots
      /\ call.start \in Addr /\ call.size \in Addr
      /\ call.size > 0 /\ call.start + call.size <= W
      /\ \A i \in 0 .. scan - 1 : Passed(i)
      /\ scan \in 0 .. MAX_MEMORY_AREAS_SIZE
      /\ free_memory_area_index \in 0 .. MAX_MEMORY_AREAS_SIZE
  BY UsedSlots, PlacementAssumption DEF TypeOK, cover_step, CoverProgress
<1>2. /\ Current \in Area
      /\ S(scan) \in Addr /\ Current.size \in Addr /\ Current.size > 0
      /\ B(scan) < W
      /\ EndOf(Current) = B(scan) - 1
  BY <1>1, ExactEnds
<1>3. CoverEnd = call.start + call.size - 1
  BY <1>1, PlacementAssumption DEF CoverEnd, Wrap
<1>4. CASE cover_skip
  <2>1. Passed(scan)
    BY <1>1, <1>2, <1>3, <1>4, PlacementAssumption DEF cover_skip, CoverIntersects
  <2>2. \A i \in 0 .. scan + 1 - 1 : Passed(i)
    BY <1>1, <2>1, PlacementAssumption
  <2> QED
    BY <1>1, <1>4, <2>2, PlacementAssumption
    DEF Separated, CoverProgress, cover_skip, table
<1>5. CASE cover_delete
  <2>1. PICK past \in Past : /\ free_memory_areas' = ShiftLeft(scan, past)
                             /\ free_memory_area_index' = free_memory_area_index - 1
                             /\ UNCHANGED <<scan, call>>
    BY <1>5 DEF cover_delete
  <2>2. Separated'
    BY <1>1, <2>1, EraseSeparated
  <2>3. \A i \in 0 .. scan - 1 : free_memory_areas'[i] = free_memory_areas[i]
    BY <1>1, <2>1, PlacementAssumption DEF ShiftLeft
  <2>4. CoverProgress'
    BY <1>1, <2>1, <2>3, PlacementAssumption DEF CoverProgress
  <2> QED
    BY <2>2, <2>4
<1>6. ASSUME NEW area \in Area, free_memory_areas' = Store(scan, area),
             UNCHANGED <<free_memory_area_index, call>>, scan' = scan + 1,
             area.size > 0, S(scan) <= area.start,
             area.start + area.size <= B(scan),
             \/ area.start + area.size <= call.start
             \/ call.start + call.size <= area.start
      PROVE  Separated' /\ CoverProgress'
  <2>1. Separated'
    BY <1>1, <1>6, ShrinkSeparated
  <2>2. \A i \in 0 .. scan :
          free_memory_areas'[i] = IF i = scan THEN area ELSE free_memory_areas[i]
    BY <1>1, <1>6, PlacementAssumption DEF TypeOK, Store
  <2>3. CoverProgress'
    BY <1>1, <1>6, <2>2, PlacementAssumption DEF CoverProgress
  <2> QED
    BY <2>1, <2>3
<1>7. CASE cover_trim_start
  <2> DEFINE start == call.start + call.size
             rest == [start |-> start, size |-> B(scan) - start]
  <2>1. call.start + call.size < B(scan) /\ call.start <= S(scan)
        /\ S(scan) < call.start + call.size
    BY <1>1, <1>2, <1>3, <1>7, PlacementAssumption
    DEF cover_trim_start, CoverIntersects
  <2>2. Wrap(CoverEnd + 1) = start
    BY <1>1, <1>2, <1>3, <2>1, PlacementAssumption DEF Wrap
  <2>3. Wrap(EndOf(Current) - start + 1) = B(scan) - start
    BY <1>1, <1>2, <2>1, PlacementAssumption DEF Wrap
  <2>4. rest \in Area
    BY <1>1, <1>2, <2>1, PlacementAssumption
  <2>5. /\ free_memory_areas' = Store(scan, rest)
        /\ UNCHANGED <<free_memory_area_index, call>> /\ scan' = scan + 1
    BY <1>7, <2>2, <2>3 DEF cover_trim_start
  <2>6. /\ rest.size > 0 /\ S(scan) <= rest.start
        /\ rest.start + rest.size <= B(scan)
        /\ call.start + call.size <= rest.start
    BY <1>1, <1>2, <2>1, PlacementAssumption
  <2> HIDE DEF rest
  <2> QED
    BY <1>6, <2>4, <2>5, <2>6
<1>8. CASE cover_trim_end
  <2> DEFINE rest == [Current EXCEPT !.size = call.start - Current.start]
  <2>1. call.start > S(scan) /\ call.start < B(scan)
    BY <1>1, <1>2, <1>3, <1>8, PlacementAssumption
    DEF cover_trim_end, CoverIntersects
  <2>2. call.start - S(scan) \in Addr
    BY <1>1, <1>2, <2>1, PlacementAssumption
  <2>3. rest \in Area /\ rest.start = S(scan) /\ rest.size = call.start - S(scan)
    BY <1>2, <2>2
  <2>4. /\ free_memory_areas' = Store(scan, rest)
        /\ UNCHANGED <<free_memory_area_index, call>> /\ scan' = scan + 1
    BY <1>8 DEF cover_trim_end
  <2> HIDE DEF rest
  <2>5. /\ rest.size > 0 /\ S(scan) <= rest.start
        /\ rest.start + rest.size <= B(scan)
        /\ rest.start + rest.size <= call.start
    BY <1>1, <1>2, <2>1, <2>3, PlacementAssumption
  <2> QED
    BY <1>6, <2>3, <2>4, <2>5
<1>9. CASE cover_split_full
  BY <1>9 DEF Separated, CoverProgress, cover_split_full, table, Return
<1>10. CASE cover_split
  <2> DEFINE low  == [Current EXCEPT !.size = call.start - Current.start]
             high == [start |-> Wrap(CoverEnd + 1), size |-> EndOf(Current) - CoverEnd]
  <2>1. call.start > S(scan) /\ call.start + call.size < B(scan)
    BY <1>1, <1>2, <1>3, <1>10, PlacementAssumption DEF cover_split, CoverSplits
  <2>2. /\ call.start - S(scan) \in Addr /\ call.start - S(scan) > 0
        /\ B(scan) - (call.start + call.size) \in Addr
        /\ B(scan) - (call.start + call.size) > 0
        /\ call.start + call.size \in Addr
    BY <1>1, <1>2, <2>1, PlacementAssumption
  <2>3. low \in Area /\ low.start = S(scan) /\ low.size = call.start - S(scan)
    BY <1>2, <2>2
  <2>4. Wrap(CoverEnd + 1) = call.start + call.size
    BY <1>1, <1>3, <2>2, PlacementAssumption DEF Wrap
  <2>5. EndOf(Current) - CoverEnd = B(scan) - (call.start + call.size)
    BY <1>1, <1>2, <1>3, PlacementAssumption
  <2>6. /\ high \in Area
        /\ high.start = call.start + call.size
        /\ high.size = B(scan) - (call.start + call.size)
    BY <2>2, <2>4, <2>5
  <2>7. /\ free_memory_area_index < MAX_MEMORY_AREAS_SIZE
        /\ free_memory_areas' = SplitAt(scan, low, high)
        /\ free_memory_area_index' = free_memory_area_index + 1
        /\ scan' = scan + 1
        /\ call' = call
    BY <1>10 DEF cover_split
  <2> HIDE DEF low, high
  <2>8. /\ low.size > 0 /\ high.size > 0
        /\ low.start + low.size < high.start
        /\ low.start + low.size <= call.start
        /\ high.start + high.size = B(scan)
    BY <1>1, <1>2, <2>1, <2>2, <2>3, <2>6, PlacementAssumption
  <2>9. Separated'
    BY <1>1, <2>3, <2>6, <2>7, <2>8, SplitSeparated
  <2>10. \A i \in 0 .. scan :
           free_memory_areas'[i] = IF i = scan THEN low ELSE free_memory_areas[i]
    BY <1>1, <2>7, PlacementAssumption DEF SplitAt
  <2>11. CoverProgress'
    BY <1>1, <2>7, <2>8, <2>10, PlacementAssumption DEF CoverProgress
  <2> QED
    BY <2>9, <2>11
<1> QED
  BY <1>4, <1>5, <1>7, <1>8, <1>9, <1>10 DEF cover_step

(* A step of the prescribed usage is a step of some client.                *)
LEMMA UsageIsClient == UsageNext => Next
BY DEF UsageNext, Next

(* A step of the prescribed usage preserves the invariant.                 *)
LEMMA UsageStep ==
  ASSUME UsageInv, [UsageNext]_vars
  PROVE  UsageInv'
<1>1. TypeOK /\ Separated /\ CleanTail /\ CoverProgress
  BY DEF UsageInv
<1>2. TypeOK'
  BY <1>1, UsageIsClient, NextType
<1>3. Separated' /\ CleanTail' /\ CoverProgress'
  <2>1. CASE clear_placement_memory_array
    BY <2>1, PlacementAssumption
    DEF clear_placement_memory_array, Separated, CleanTail, CoverProgress, Return
  <2>2. ASSUME NEW start \in Addr, NEW size \in Addr,
               Declarable(start, size), insert_area(start, size)
        PROVE  Separated' /\ CleanTail' /\ CoverProgress'
    <3>1. Separated' /\ CleanTail'
      BY <1>1, <2>2, InsertUsage
    <3>2. call'.op = "insert"
      BY <2>2
      DEF insert_area, insert_full, insert_empty, insert_collides,
          insert_accepted, Refuse, Return
    <3> QED
      BY <3>1, <3>2 DEF CoverProgress
  <2>3. ASSUME NEW size \in Addr, allocate(size)
        PROVE  Separated' /\ CleanTail' /\ CoverProgress'
    <3>1. call'.op = "allocate"
      <4>1. CASE allocate_fails(size)
        BY <4>1 DEF allocate_fails, Refuse, Return
      <4>2. ASSUME NEW i \in Used, allocate_from(i, size)
            PROVE  call'.op = "allocate"
        BY <4>2 DEF allocate_from, Return
      <4> QED
        BY <2>3, <4>1, <4>2 DEF allocate
    <3> QED
      BY <1>1, <2>3, <3>1, AllocateSeparated DEF CleanTail, CoverProgress, Declaring
  <2>4. ASSUME NEW start \in Addr, NEW size \in Addr,
               InAddressSpace(start, size), allocate_area(start, size)
        PROVE  Separated' /\ CleanTail' /\ CoverProgress'
    <3>1. call'.op = "allocate_area"
      <4>1. CASE allocate_area_fails(start, size)
        BY <4>1 DEF allocate_area_fails, Refuse, Return
      <4>2. ASSUME NEW i \in Used,
                   take_start(i, start, size) \/ take_end(i, start, size)
            PROVE  call'.op = "allocate_area"
        BY <4>2 DEF take_start, take_end, Return
      <4>3. ASSUME NEW i \in Used,
                   take_whole(i, start, size) \/ take_middle(i, start, size)
            PROVE  call'.op = "allocate_area"
        BY <4>3 DEF take_whole, take_middle, Return
      <4>4. ASSUME NEW i \in Used,
                   take_middle_full(i, start, size) \/ take_nothing(i, start, size)
            PROVE  call'.op = "allocate_area"
        BY <4>4 DEF take_middle_full, take_nothing, Refuse, Return
      <4> QED
        BY <2>4, <4>1, <4>2, <4>3, <4>4 DEF allocate_area
    <3> QED
      BY <1>1, <2>4, <3>1, AllocateAreaSeparated
      DEF CleanTail, CoverProgress, Declaring
  <2>5. ASSUME NEW start \in Addr, NEW size \in Addr,
               InAddressSpace(start, size), size > 0,
               allocate_area_cover(start, size)
        PROVE  Separated' /\ CleanTail' /\ CoverProgress'
    BY <1>1, <2>5, PlacementAssumption
    DEF allocate_area_cover, table, Return, Separated, CleanTail, CoverProgress,
        Declaring, InAddressSpace, TypeOK
  <2>6. CASE cover_step
    <3>1. call'.op \in {"covering", "cover"}
      BY <2>6
      DEF cover_step, cover_skip, cover_delete, cover_trim_start, cover_trim_end,
          cover_split_full, cover_split, Return
    <3> QED
      BY <1>1, <2>6, <3>1, CoverUsage DEF CleanTail, Declaring
  <2>7. CASE cover_return
    BY <1>1, <2>7
    DEF cover_return, table, Return, Separated, CleanTail, CoverProgress, Declaring
  <2>8. CASE UNCHANGED vars
    BY <1>1, <2>8 DEF vars, Separated, CleanTail, CoverProgress, Declaring
  <2> QED
    BY <2>1, <2>2, <2>3, <2>4, <2>5, <2>6, <2>7, <2>8 DEF UsageNext
<1> QED
  BY <1>2, <1>3 DEF UsageInv

(* A client that follows the header keeps the table sorted, with non-empty *)
(* areas and a gap between neighbours, and allocate_area_cover leaves      *)
(* nothing of its range behind.                                            *)
THEOREM UsageInvariant == UsageSpec => []UsageInv
<1>1. Init => UsageInv
  BY PlacementAssumption
  DEF Init, UsageInv, TypeOK, Separated, CleanTail, CoverProgress, Cleared
<1> QED
  BY <1>1, UsageStep, PTL DEF UsageSpec

(* In particular the free areas never touch or overlap.                    *)
THEOREM UsageSeparated == UsageSpec => []Separated
BY UsageInvariant, PTL DEF UsageInv

(* The slots behind the last area used are cleared, so that SuccessorCollision *)
(* and the merges of insert_area may look at the first one of them.        *)
THEOREM UsageCleanTail == UsageSpec => []CleanTail
BY UsageInvariant, PTL DEF UsageInv

(* The slots the loop of allocate_area_cover has passed hold nothing of    *)
(* the range, in spite of the areas it erases and splits on the way.       *)
THEOREM UsageCoverProgress == UsageSpec => []CoverProgress
BY UsageInvariant, PTL DEF UsageInv

-----------------------------------------------------------------------------
\* The areas of the table and the free bytes

\* The bytes of the area in a slot.
Spans(i) == Bytes(free_memory_areas[i].start, free_memory_areas[i].size)

(* Each run of consecutive free bytes is one area: it begins where the     *)
(* area does.                                                              *)
LEMMA RunStarts ==
  ASSUME TypeOK, Separated
  PROVE  FreeMap!Runs(FreeBytes) = {free_memory_areas[i].start : i \in Used}
<1> DEFINE S(i) == free_memory_areas[i].start
           B(i) == free_memory_areas[i].start + free_memory_areas[i].size
<1>1. \A i \in Used : /\ S(i) \in Addr /\ free_memory_areas[i].size \in Addr
                      /\ free_memory_areas[i].size > 0 /\ B(i) < W
  BY ExactEnds
<1>2. \A i, j \in Used : i < j => B(i) < S(j)
  BY DEF Separated
<1>3. ASSUME NEW i \in Used
      PROVE  S(i) \in FreeMap!Runs(FreeBytes)
  <2>1. S(i) \in FreeBytes
    BY <1>1, PlacementAssumption DEF FreeBytes
  <2>2. S(i) - 1 \notin FreeBytes
    <3> SUFFICES ASSUME NEW j \in Used, S(j) <= S(i) - 1, S(i) - 1 < B(j)
                 PROVE  FALSE
      BY DEF FreeBytes
    <3>1. i \in Int /\ j \in Int
      BY PlacementAssumption DEF TypeOK
    <3>2. i < j \/ i = j \/ j < i
      BY <3>1
    <3> QED
      BY <1>1, <1>2, <3>2, PlacementAssumption
  <2> QED
    BY <2>1, <2>2 DEF FreeMap!Runs
<1>4. ASSUME NEW b \in FreeMap!Runs(FreeBytes)
      PROVE  \E i \in Used : b = S(i)
  <2>1. b \in FreeBytes /\ b - 1 \notin FreeBytes
    BY DEF FreeMap!Runs
  <2>2. PICK i \in Used : S(i) <= b /\ b < B(i) /\ b \in Addr
    BY <2>1 DEF FreeBytes
  <2>3. CASE S(i) < b
    <3>1. b - 1 \in Addr /\ S(i) <= b - 1 /\ b - 1 < B(i)
      BY <1>1, <2>2, <2>3, PlacementAssumption
    <3> QED
      BY <2>1, <2>2, <3>1 DEF FreeBytes
  <2> QED
    BY <1>1, <2>2, <2>3, PlacementAssumption
<1> QED
  BY <1>3, <1>4

(* FreeMap counts with the Cardinality of FiniteSets.                      *)
LEMMA FreeMapCardinality == \A S : FreeMap!Cardinality(S) = Cardinality(S)
BY DEF FreeMap!Cardinality, Cardinality

(* So the specification finds its capacity used up exactly when the table  *)
(* is full.                                                                *)
LEMMA RunCount ==
  ASSUME TypeOK, Separated
  PROVE  FreeMap!Full <=> free_memory_area_index = MAX_MEMORY_AREAS_SIZE
<1> DEFINE starts == [i \in 0 .. free_memory_area_index - 1 |-> free_memory_areas[i].start]
           runs == FreeMap!Runs(FreeBytes)
<1>1. \A i \in Used : /\ free_memory_areas[i].start \in Addr
                      /\ free_memory_areas[i].size \in Addr
                      /\ free_memory_areas[i].size > 0
  BY ExactEnds
<1>2. runs = {free_memory_areas[i].start : i \in Used}
  BY RunStarts
<1>3. free_memory_area_index \in Nat
  BY PlacementAssumption DEF TypeOK
<1>4. starts \in Bijection(0 .. free_memory_area_index - 1, runs)
  <2>1. \A i, j \in Used : i # j => free_memory_areas[i].start # free_memory_areas[j].start
    BY <1>1, <1>3, PlacementAssumption DEF Separated
  <2>2. starts \in Surjection(0 .. free_memory_area_index - 1, runs)
    BY <1>2 DEF Surjection
  <2>3. starts \in Injection(0 .. free_memory_area_index - 1, runs)
    BY <1>2, <2>1 DEF Injection, IsInjective
  <2> QED
    BY <2>2, <2>3 DEF Bijection
<1>5. /\ IsFiniteSet(0 .. free_memory_area_index - 1)
      /\ Cardinality(0 .. free_memory_area_index - 1) = free_memory_area_index
  BY <1>3, FS_Interval
<1>6. Cardinality(runs) = free_memory_area_index
  BY <1>4, <1>5, FS_Bijection DEF ExistsBijection
<1> QED
  BY <1>6, FreeMapCardinality DEF FreeMap!Full

(* The areas of a sorted, gapped table have no byte in common.             *)
LEMMA AreasApart ==
  ASSUME TypeOK, Separated, NEW i \in Used, NEW j \in Used,
         NEW b \in Spans(i), b \in Spans(j)
  PROVE  i = j
<1>1. /\ i \in Int /\ j \in Int /\ b \in Addr
      /\ free_memory_areas[i].start \in Addr /\ free_memory_areas[i].size \in Addr
      /\ free_memory_areas[j].start \in Addr /\ free_memory_areas[j].size \in Addr
  BY ExactEnds, PlacementAssumption DEF TypeOK, Spans, Bytes
<1>2. /\ i < j => free_memory_areas[i].start + free_memory_areas[i].size
                    < free_memory_areas[j].start
      /\ j < i => free_memory_areas[j].start + free_memory_areas[j].size
                    < free_memory_areas[i].start
  BY DEF Separated
<1> QED
  BY <1>1, <1>2, PlacementAssumption DEF Spans, Bytes

(* The free bytes are those of the areas.                                  *)
LEMMA FreeSpans ==
  \A b : b \in FreeBytes <=> \E i \in Used : b \in Spans(i)
BY DEF FreeBytes, Spans, Bytes

(* A range of free bytes lies in a single area: areas that touch have been *)
(* merged.                                                                 *)
LEMMA InOneArea ==
  ASSUME TypeOK, Separated, NEW start \in Addr, NEW size \in Addr, size > 0,
         start + size <= W, Bytes(start, size) \subseteq FreeBytes
  PROVE  \E i \in Used :
           /\ free_memory_areas[i].start <= start
           /\ start + size <= free_memory_areas[i].start + free_memory_areas[i].size
<1> DEFINE S(i) == free_memory_areas[i].start
           B(i) == free_memory_areas[i].start + free_memory_areas[i].size
<1>1. \A i \in Used : /\ S(i) \in Addr /\ free_memory_areas[i].size \in Addr
                      /\ free_memory_areas[i].size > 0 /\ B(i) < W
  BY ExactEnds
<1>2. \A i, j \in Used : i < j => B(i) < S(j)
  BY DEF Separated
<1>3. start \in FreeBytes
  BY PlacementAssumption DEF Bytes
<1>4. PICK i \in Used : S(i) <= start /\ start < B(i)
  BY <1>3 DEF FreeBytes
<1>5. start + size <= B(i)
  <2> SUFFICES ASSUME B(i) < start + size PROVE FALSE
    BY <1>1, PlacementAssumption
  <2>1. B(i) \in FreeBytes
    BY <1>1, <1>4, PlacementAssumption DEF Bytes
  <2>2. PICK j \in Used : S(j) <= B(i) /\ B(i) < B(j)
    BY <2>1 DEF FreeBytes
  <2>3. i \in Int /\ j \in Int
    BY PlacementAssumption DEF TypeOK
  <2>4. i < j \/ i = j \/ j < i
    BY <2>3
  <2> QED
    BY <1>1, <1>2, <2>2, <2>4, PlacementAssumption
<1> QED
  BY <1>4, <1>5

-----------------------------------------------------------------------------
\* What the edits of the table do to the free bytes

(* Storing another area in a slot exchanges the bytes of the two areas.    *)
LEMMA StoreBytes ==
  ASSUME TypeOK, Separated, NEW i \in Used, NEW area \in Area,
         free_memory_areas' = Store(i, area),
         free_memory_area_index' = free_memory_area_index
  PROVE  FreeBytes' = (FreeBytes \ Spans(i)) \cup Bytes(area.start, area.size)
<1>1. \A j \in Used :
        free_memory_areas'[j] = IF j = i THEN area ELSE free_memory_areas[j]
  BY UsedSlots DEF TypeOK, Store
<1>2. \A b : b \in FreeBytes' <=>
        \/ b \in Bytes(area.start, area.size)
        \/ \E j \in Used : j # i /\ b \in Spans(j)
  BY <1>1 DEF FreeBytes, Spans, Bytes
<1>3. \A b : (\E j \in Used : j # i /\ b \in Spans(j)) <=> b \in FreeBytes \ Spans(i)
  BY FreeSpans, AreasApart
<1> QED
  BY <1>2, <1>3

(* Erasing a slot takes away the bytes of its area.                        *)
LEMMA EraseBytes ==
  ASSUME TypeOK, Separated, NEW i \in Used, NEW past \in Past,
         free_memory_areas' = ShiftLeft(i, past),
         free_memory_area_index' = free_memory_area_index - 1
  PROVE  FreeBytes' = FreeBytes \ Spans(i)
<1>1. free_memory_area_index \in 0 .. MAX_MEMORY_AREAS_SIZE
  BY DEF TypeOK
<1>2. \A j \in 0 .. free_memory_area_index - 2 :
        free_memory_areas'[j] = IF j < i THEN free_memory_areas[j]
                                ELSE free_memory_areas[j + 1]
  BY <1>1, PlacementAssumption DEF ShiftLeft
<1>3. free_memory_area_index' - 1 = free_memory_area_index - 2
  BY <1>1, PlacementAssumption
<1>4. ASSUME NEW b \in FreeBytes'
      PROVE  b \in FreeBytes \ Spans(i)
  <2>1. PICK j \in 0 .. free_memory_area_index - 2 :
          b \in Bytes(free_memory_areas'[j].start, free_memory_areas'[j].size)
    BY <1>3 DEF FreeBytes, Bytes
  <2>2. PICK k \in Used : k # i /\ free_memory_areas'[j] = free_memory_areas[k]
    <3>1. CASE j < i
      BY <1>1, <1>2, <3>1, PlacementAssumption
    <3>2. CASE ~ (j < i)
      <4>1. j + 1 \in Used /\ j + 1 # i
        BY <1>1, <3>2, PlacementAssumption
      <4> QED
        BY <1>2, <3>2, <4>1
    <3> QED
      BY <3>1, <3>2
  <2>3. b \in Spans(k)
    BY <2>1, <2>2 DEF Spans
  <2> QED
    BY <2>2, <2>3, FreeSpans, AreasApart
<1>5. ASSUME NEW b \in FreeBytes \ Spans(i)
      PROVE  b \in FreeBytes'
  <2>1. PICK k \in Used : b \in Spans(k) /\ k # i
    BY FreeSpans
  <2>2. PICK j \in 0 .. free_memory_area_index - 2 :
          free_memory_areas'[j] = free_memory_areas[k]
    <3>1. CASE k < i
      <4>1. k \in 0 .. free_memory_area_index - 2
        BY <1>1, <3>1, PlacementAssumption
      <4> QED
        BY <1>2, <3>1, <4>1
    <3>2. CASE k > i
      <4>1. k - 1 \in 0 .. free_memory_area_index - 2 /\ ~ (k - 1 < i) /\ k - 1 + 1 = k
        BY <1>1, <3>2, PlacementAssumption
      <4>2. free_memory_areas'[k - 1] = free_memory_areas[k]
        BY <1>2, <4>1
      <4> QED
        BY <4>1, <4>2
    <3> QED
      BY <1>1, <2>1, <3>1, <3>2, PlacementAssumption
  <2> QED
    BY <1>3, <2>1, <2>2 DEF FreeBytes, Spans, Bytes
<1> QED
  BY <1>4, <1>5

(* Splitting a slot exchanges the bytes of its area for those of the two.  *)
LEMMA SplitBytes ==
  ASSUME TypeOK, Separated, NEW i \in Used, NEW low \in Area, NEW high \in Area,
         free_memory_area_index < MAX_MEMORY_AREAS_SIZE,
         free_memory_areas' = SplitAt(i, low, high),
         free_memory_area_index' = free_memory_area_index + 1
  PROVE  FreeBytes' = (FreeBytes \ Spans(i))
                        \cup Bytes(low.start, low.size) \cup Bytes(high.start, high.size)
<1>1. free_memory_area_index \in 0 .. MAX_MEMORY_AREAS_SIZE
  BY DEF TypeOK
<1>2. /\ free_memory_areas'[i] = low
      /\ free_memory_areas'[i + 1] = high
      /\ \A j \in 0 .. free_memory_area_index :
           /\ j < i => free_memory_areas'[j] = free_memory_areas[j]
           /\ j > i + 1 => free_memory_areas'[j] = free_memory_areas[j - 1]
  BY <1>1, PlacementAssumption DEF SplitAt
<1>3. free_memory_area_index' - 1 = free_memory_area_index
  BY <1>1, PlacementAssumption
<1>4. ASSUME NEW b \in FreeBytes'
      PROVE  b \in (FreeBytes \ Spans(i))
                     \cup Bytes(low.start, low.size) \cup Bytes(high.start, high.size)
  <2>1. PICK j \in 0 .. free_memory_area_index :
          b \in Bytes(free_memory_areas'[j].start, free_memory_areas'[j].size)
    BY <1>3 DEF FreeBytes, Bytes
  <2>2. CASE j \in {i, i + 1}
    BY <1>2, <2>1, <2>2
  <2>3. CASE j \notin {i, i + 1}
    <3>1. PICK k \in Used : k # i /\ free_memory_areas'[j] = free_memory_areas[k]
      <4>1. CASE j < i
        BY <1>1, <1>2, <4>1, PlacementAssumption
      <4>2. CASE j > i + 1
        <5>1. j - 1 \in Used /\ j - 1 # i
          BY <1>1, <4>2, PlacementAssumption
        <5> QED
          BY <1>2, <4>2, <5>1
      <4> QED
        BY <1>1, <2>3, <4>1, <4>2, PlacementAssumption
    <3>2. b \in Spans(k)
      BY <2>1, <3>1 DEF Spans
    <3> QED
      BY <3>1, <3>2, FreeSpans, AreasApart
  <2> QED
    BY <2>2, <2>3
<1>5. ASSUME NEW b, \/ b \in FreeBytes \ Spans(i)
                    \/ b \in Bytes(low.start, low.size)
                    \/ b \in Bytes(high.start, high.size)
      PROVE  b \in FreeBytes'
  <2>1. CASE b \in FreeBytes \ Spans(i)
    <3>1. PICK k \in Used : b \in Spans(k) /\ k # i
      BY <2>1, FreeSpans
    <3>2. PICK j \in 0 .. free_memory_area_index :
            free_memory_areas'[j] = free_memory_areas[k]
      <4>1. CASE k < i
        <5>1. k \in 0 .. free_memory_area_index
          BY <1>1, PlacementAssumption
        <5> QED
          BY <1>2, <4>1, <5>1
      <4>2. CASE k > i
        <5>1. k + 1 \in 0 .. free_memory_area_index /\ k + 1 > i + 1 /\ k + 1 - 1 = k
          BY <1>1, <4>2, PlacementAssumption
        <5>2. free_memory_areas'[k + 1] = free_memory_areas[k]
          BY <1>2, <5>1
        <5> QED
          BY <5>1, <5>2
      <4> QED
        BY <1>1, <3>1, <4>1, <4>2, PlacementAssumption
    <3> QED
      BY <1>3, <3>1, <3>2 DEF FreeBytes, Spans, Bytes
  <2>2. CASE b \in Bytes(low.start, low.size) \/ b \in Bytes(high.start, high.size)
    <3>1. i \in 0 .. free_memory_area_index' - 1 /\ i + 1 \in 0 .. free_memory_area_index' - 1
      BY <1>1, <1>3, PlacementAssumption
    <3> QED
      BY <1>2, <2>2, <3>1 DEF FreeBytes, Bytes
  <2> QED
    BY <1>5, <2>1, <2>2
<1> QED
  BY <1>4, <1>5

-----------------------------------------------------------------------------
\* Every operation, as an operation on the set of free bytes

(* insert_area adds the area if it answers 0, and answers as prescribed    *)
(* otherwise.                                                              *)
LEMMA InsertBytes ==
  ASSUME TypeOK, Separated, CleanTail,
         NEW start \in Addr, NEW size \in Addr,
         Declarable(start, size), insert_area(start, size)
  PROVE  \/ /\ free_memory_area_index = MAX_MEMORY_AREAS_SIZE
            /\ Return("insert", start, size, -1) /\ FreeBytes' = FreeBytes
         \/ /\ free_memory_area_index < MAX_MEMORY_AREAS_SIZE /\ size = 0
            /\ Return("insert", start, size, -2) /\ FreeBytes' = FreeBytes
         \/ /\ free_memory_area_index < MAX_MEMORY_AREAS_SIZE /\ size > 0
            /\ Bytes(start, size) \cap FreeBytes # {}
            /\ \E code \in {-3, -4} : Return("insert", start, size, code)
            /\ FreeBytes' = FreeBytes
         \/ /\ free_memory_area_index < MAX_MEMORY_AREAS_SIZE /\ size > 0
            /\ Bytes(start, size) \cap FreeBytes = {}
            /\ Return("insert", start, size, 0)
            /\ FreeBytes' = FreeBytes \cup Bytes(start, size)
<1> DEFINE S(i) == free_memory_areas[i].start
           B(i) == free_memory_areas[i].start + free_memory_areas[i].size
<1>0. \A i \in Slots \ Used : free_memory_areas[i] = Cleared
  BY DEF CleanTail, Declarable
<1>1. UNCHANGED table => FreeBytes' = FreeBytes
  BY DEF table, FreeBytes
<1>2. start + size < W
  BY DEF Declarable
<1>3. \A i \in Used : /\ S(i) \in Addr /\ free_memory_areas[i].size \in Addr
                      /\ free_memory_areas[i].size > 0
                      /\ B(i) < W
                      /\ free_memory_areas[i] \in Area
                      /\ EndOf(free_memory_areas[i]) = B(i) - 1
                      /\ Behind(free_memory_areas[i]) = B(i)
  BY ExactEnds
<1>4. free_memory_area_index \in 0 .. MAX_MEMORY_AREAS_SIZE
  BY DEF TypeOK
<1>5. CASE insert_full(start, size)
  BY <1>1, <1>5 DEF insert_full, Refuse
<1>6. CASE insert_empty(start, size)
  BY <1>1, <1>6 DEF insert_empty, Refuse
<1>7. ASSUME size > 0, NEW c \in Slots, IsCorrectIndex(c, start),
             insert_collides(c, start, size)
      PROVE  /\ Bytes(start, size) \cap FreeBytes # {}
             /\ \E code \in {-3, -4} : Return("insert", start, size, code)
             /\ FreeBytes' = FreeBytes
  <2> DEFINE new == [start |-> start, size |-> size]
  <2>1. EndOf(new) = start + size - 1
    BY <1>2, <1>7, PlacementAssumption DEF EndOf, Wrap
  <2>2. ASSUME NEW i \in Used, overlapp(free_memory_areas[i], new)
        PROVE  Bytes(start, size) \cap FreeBytes # {}
    <3>1. \/ S(i) <= start /\ start <= B(i) - 1
          \/ S(i) <= start + size - 1 /\ start + size - 1 <= B(i) - 1
      BY <1>3, <2>1, <2>2 DEF overlapp
    <3>2. PICK b \in Addr : S(i) <= b /\ b < B(i) /\ start <= b /\ b < start + size
      <4>1. CASE S(i) <= start /\ start <= B(i) - 1
        BY <1>3, <1>7, <4>1, PlacementAssumption
      <4>2. CASE S(i) <= start + size - 1 /\ start + size - 1 <= B(i) - 1
        <5>1. start + size - 1 \in Addr
          BY <1>2, <1>7, PlacementAssumption
        <5> QED
          BY <1>3, <1>7, <4>2, <5>1, PlacementAssumption
      <4> QED
        BY <3>1, <4>1, <4>2
    <3>3. b \in Bytes(start, size) /\ b \in FreeBytes
      BY <3>2 DEF Bytes, FreeBytes
    <3> QED
      BY <3>3
  <2>3. CASE PredecessorCollision(c, new)
    <3>1. c > 0 /\ overlapp(free_memory_areas[c - 1], new)
      BY <2>3 DEF PredecessorCollision
    <3>2. c - 1 \in Used
      BY <1>4, <1>7, <3>1, PlacementAssumption DEF IsCorrectIndex
    <3> QED
      BY <1>1, <1>7, <2>2, <2>3, <3>1, <3>2 DEF insert_collides, Refuse
  <2>4. CASE SuccessorCollision(c, new) /\ ~ PredecessorCollision(c, new)
    <3>1. ~ is_free(free_memory_areas[c]) /\ overlapp(free_memory_areas[c], new)
      BY <2>4 DEF SuccessorCollision
    <3>2. c \in Used
      BY <1>0, <3>1 DEF is_free
    <3> QED
      BY <1>1, <1>7, <2>2, <2>4, <3>1, <3>2 DEF insert_collides, Refuse
  <2> QED
    BY <1>7, <2>3, <2>4 DEF insert_collides
<1>8. ASSUME free_memory_area_index < MAX_MEMORY_AREAS_SIZE, size > 0,
             NEW c \in Slots, IsCorrectIndex(c, start),
             insert_accepted(c, start, size)
      PROVE  /\ Bytes(start, size) \cap FreeBytes = {}
             /\ Return("insert", start, size, 0)
             /\ FreeBytes' = FreeBytes \cup Bytes(start, size)
  <2>1. ~ PredecessorCollision(c, [start |-> start, size |-> size])
    BY <1>8 DEF insert_accepted
  <2>2. /\ c <= free_memory_area_index
        /\ \A i \in Used : i < c => B(i) <= start
        /\ \A i \in Used : i >= c => start + size <= S(i)
    BY <1>8, <2>1, InsertNeighbours
  <2>3. Bytes(start, size) \cap FreeBytes = {}
    <3> SUFFICES ASSUME NEW b \in Bytes(start, size), NEW i \in Used,
                        S(i) <= b, b < B(i)
                 PROVE  FALSE
      BY DEF FreeBytes
    <3>1. b \in Addr /\ start <= b /\ b < start + size
      BY DEF Bytes
    <3>2. i < c \/ i >= c
      BY <1>4, PlacementAssumption
    <3> QED
      BY <1>3, <2>2, <3>1, <3>2, PlacementAssumption
  <2>4. ASSUME free_memory_areas[c].start = start + size
        PROVE  c \in Used
    BY <1>0, <1>8, <2>4, PlacementAssumption DEF Cleared
  <2>5. ASSUME JoinsPredecessor(c, start)
        PROVE  /\ c - 1 \in Used /\ B(c - 1) = start
               /\ GrownPredecessor(c, size)
                    = [start |-> S(c - 1), size |-> start + size - S(c - 1)]
               /\ GrownPredecessor(c, size) \in Area
               /\ Behind(GrownPredecessor(c, size)) = start + size
    <3>1. c > 0 /\ c - 1 \in Used
      BY <1>4, <2>2, <2>5, PlacementAssumption DEF JoinsPredecessor
    <3>2. B(c - 1) = start /\ S(c - 1) \in Addr
          /\ free_memory_areas[c - 1].size \in Addr
          /\ free_memory_areas[c - 1].size > 0
          /\ free_memory_areas[c - 1] \in Area
      BY <1>3, <2>5, <3>1 DEF JoinsPredecessor
    <3>3. /\ free_memory_areas[c - 1].size + size = start + size - S(c - 1)
          /\ start + size - S(c - 1) \in Addr
      BY <1>2, <3>2, PlacementAssumption
    <3>4. Wrap(free_memory_areas[c - 1].size + size) = start + size - S(c - 1)
      BY <3>2, <3>3, PlacementAssumption DEF Wrap
    <3>5. GrownPredecessor(c, size)
            = [start |-> S(c - 1), size |-> start + size - S(c - 1)]
      BY <3>2, <3>4 DEF GrownPredecessor
    <3>6. Behind(GrownPredecessor(c, size)) = start + size
      BY <1>2, <3>2, <3>5, PlacementAssumption DEF Behind, Wrap
    <3> QED
      BY <3>1, <3>2, <3>3, <3>5, <3>6
  <2>6. CASE insert_merge_predecessor(c, start, size)
    <3> DEFINE grown == [start |-> S(c - 1), size |-> start + size - S(c - 1)]
    <3>1. /\ c - 1 \in Used /\ B(c - 1) = start /\ grown \in Area
          /\ free_memory_areas' = Store(c - 1, grown)
          /\ free_memory_area_index' = free_memory_area_index
      BY <2>5, <2>6 DEF insert_merge_predecessor
    <3>2. FreeBytes' = (FreeBytes \ Spans(c - 1))
                         \cup Bytes(S(c - 1), start + size - S(c - 1))
      BY <3>1, StoreBytes
    <3>3. Bytes(S(c - 1), start + size - S(c - 1)) = Spans(c - 1) \cup Bytes(start, size)
      BY <1>3, <3>1, PlacementAssumption DEF Bytes, Spans
    <3>4. Spans(c - 1) \subseteq FreeBytes
      BY <3>1, FreeSpans
    <3> QED
      BY <2>3, <3>2, <3>3, <3>4, <1>8, <2>6 DEF insert_accepted
  <2>7. CASE insert_merge_both(c, start, size)
    <3> DEFINE joined == [start |-> S(c - 1), size |-> B(c) - S(c - 1)]
    <3>1. /\ JoinsPredecessor(c, start)
          /\ S(c) = Behind(GrownPredecessor(c, size))
      BY <2>7 DEF insert_merge_both
    <3>2. /\ c - 1 \in Used /\ c \in Used
          /\ B(c - 1) = start /\ S(c) = start + size
          /\ GrownPredecessor(c, size)
               = [start |-> S(c - 1), size |-> start + size - S(c - 1)]
      BY <2>4, <2>5, <3>1
    <3>3. /\ start + size - S(c - 1) + free_memory_areas[c].size = B(c) - S(c - 1)
          /\ B(c) - S(c - 1) \in 1 .. W - 1
      BY <1>3, <1>8, <3>2, PlacementAssumption
    <3>4. Wrap(start + size - S(c - 1) + free_memory_areas[c].size)
            = B(c) - S(c - 1)
      BY <3>3, PlacementAssumption DEF Wrap
    <3>5. [GrownPredecessor(c, size) EXCEPT !.size =
             Wrap(GrownPredecessor(c, size).size + free_memory_areas[c].size)]
            = joined
      BY <3>2, <3>4
    <3>6. PICK past \in Past :
            /\ free_memory_areas' = [ShiftLeft(c, past) EXCEPT ![c - 1] = joined]
            /\ free_memory_area_index' = free_memory_area_index - 1
      BY <2>7, <3>5 DEF insert_merge_both
    <3>7. \A j \in 0 .. free_memory_area_index - 2 :
            /\ j < c - 1 => free_memory_areas'[j] = free_memory_areas[j]
            /\ j = c - 1 => free_memory_areas'[j] = joined
            /\ j >= c => free_memory_areas'[j] = free_memory_areas[j + 1]
      <4> HIDE DEF joined
      <4>1. \A j \in 0 .. free_memory_area_index - 2 : j \in Slots
        BY <1>4, PlacementAssumption
      <4>2. \A j \in Slots : free_memory_areas'[j]
                                = IF j = c - 1 THEN joined ELSE ShiftLeft(c, past)[j]
        BY <3>6 DEF ShiftLeft
      <4>3. \A j \in 0 .. free_memory_area_index - 2 :
              ShiftLeft(c, past)[j] = IF j < c THEN free_memory_areas[j]
                                      ELSE free_memory_areas[j + 1]
        BY <1>4, <4>1, PlacementAssumption DEF ShiftLeft
      <4>4. c \in Int
        BY PlacementAssumption
      <4> QED
        BY <4>1, <4>2, <4>3, <4>4
    <3>8. Bytes(joined.start, joined.size)
            = Spans(c - 1) \cup Bytes(start, size) \cup Spans(c)
      BY <1>3, <3>2, PlacementAssumption DEF Bytes, Spans
    <3>9. free_memory_area_index' - 1 = free_memory_area_index - 2
      BY <1>4, <3>6, PlacementAssumption
    <3>10. c - 1 \in 0 .. free_memory_area_index - 2
      BY <1>4, <3>2, PlacementAssumption
    <3>11. ASSUME NEW b \in FreeBytes'
           PROVE  b \in FreeBytes \cup Bytes(start, size)
      <4>1. PICK j \in 0 .. free_memory_area_index - 2 :
              b \in Bytes(free_memory_areas'[j].start, free_memory_areas'[j].size)
        BY <3>9 DEF FreeBytes, Bytes
      <4>2. CASE j < c - 1
        <5>1. j \in Used /\ free_memory_areas'[j] = free_memory_areas[j]
          BY <1>4, <3>7, <4>2, PlacementAssumption
        <5> QED
          BY <4>1, <5>1, FreeSpans DEF Spans
      <4>3. CASE j = c - 1
        BY <3>2, <3>7, <3>8, <4>1, <4>3, FreeSpans
      <4>4. CASE j >= c
        <5>1. j + 1 \in Used /\ free_memory_areas'[j] = free_memory_areas[j + 1]
          BY <1>4, <3>7, <4>4, PlacementAssumption
        <5> QED
          BY <4>1, <5>1, FreeSpans DEF Spans
      <4> QED
        BY <1>4, <3>2, <4>2, <4>3, <4>4, PlacementAssumption
    <3>12. ASSUME NEW b \in FreeBytes \cup Bytes(start, size)
           PROVE  b \in FreeBytes'
      <4>1. ASSUME NEW j \in 0 .. free_memory_area_index - 2,
                   b \in Bytes(free_memory_areas'[j].start, free_memory_areas'[j].size)
            PROVE  b \in FreeBytes'
        BY <3>9, <4>1 DEF FreeBytes, Bytes
      <4>2. CASE b \in Spans(c - 1) \cup Bytes(start, size) \cup Spans(c)
        BY <3>7, <3>8, <3>10, <4>1, <4>2
      <4>3. ASSUME NEW k \in Used, k # c, k # c - 1, b \in Spans(k)
            PROVE  b \in FreeBytes'
        <5>1. CASE k < c - 1
          <6>1. k \in 0 .. free_memory_area_index - 2
            BY <1>4, <3>2, <5>1, PlacementAssumption
          <6> QED
            BY <3>7, <4>1, <4>3, <5>1, <6>1 DEF Spans
        <5>2. CASE k > c
          <6>1. k - 1 \in 0 .. free_memory_area_index - 2 /\ k - 1 >= c /\ k - 1 + 1 = k
            BY <1>4, <3>2, <5>2, PlacementAssumption
          <6>2. free_memory_areas'[k - 1] = free_memory_areas[k]
            BY <3>7, <6>1
          <6> QED
            BY <4>1, <4>3, <6>1, <6>2 DEF Spans
        <5> QED
          BY <1>4, <3>2, <4>3, <5>1, <5>2, PlacementAssumption
      <4>4. CASE b \in FreeBytes
        <5>1. PICK k \in Used : b \in Spans(k)
          BY <4>4, FreeSpans
        <5> QED
          BY <4>2, <4>3, <5>1
      <4> QED
        BY <3>12, <4>2, <4>4
    <3> QED
      BY <1>8, <2>3, <3>11, <3>12 DEF insert_accepted
  <2>8. CASE insert_merge_successor(c, start, size)
    <3> DEFINE grown == [start |-> start, size |-> B(c) - start]
    <3>1. /\ S(c) = Wrap(start + size)
          /\ free_memory_areas' =
               Store(c, [start |-> start, size |-> Wrap(free_memory_areas[c].size + size)])
          /\ free_memory_area_index' = free_memory_area_index
      BY <2>8 DEF insert_merge_successor
    <3>2. S(c) = start + size
      BY <1>2, <3>1, PlacementAssumption DEF Wrap
    <3>3. c \in Used
      BY <2>4, <3>2
    <3>4. Wrap(free_memory_areas[c].size + size) = B(c) - start /\ grown \in Area
      BY <1>3, <3>2, <3>3, PlacementAssumption DEF Wrap
    <3>5. FreeBytes' = (FreeBytes \ Spans(c)) \cup Bytes(start, B(c) - start)
      BY <3>1, <3>3, <3>4, StoreBytes
    <3>6. Bytes(start, B(c) - start) = Bytes(start, size) \cup Spans(c)
      BY <1>3, <3>2, <3>3, PlacementAssumption DEF Bytes, Spans
    <3>7. Spans(c) \subseteq FreeBytes
      BY <3>3, FreeSpans
    <3> QED
      BY <1>8, <2>3, <3>5, <3>6, <3>7 DEF insert_accepted
  <2>9. CASE insert_store(c, start, size)
    <3> DEFINE new == [start |-> start, size |-> size]
    <3>1. /\ free_memory_areas' = Store(c, new)
          /\ free_memory_area_index' = free_memory_area_index + 1
      BY <2>9 DEF insert_store
    <3>2. c = free_memory_area_index
      BY <1>8, <2>1, <2>9, StoreAppends
    <3>3. free_memory_area_index' - 1 = free_memory_area_index
      BY <1>4, <3>1, PlacementAssumption
    <3>4. /\ free_memory_areas'[c] = new
          /\ \A j \in Used : free_memory_areas'[j] = free_memory_areas[j]
      BY <1>4, <3>1, <3>2, UsedSlots, PlacementAssumption DEF TypeOK, Store
    <3>5. \A j : j \in 0 .. free_memory_area_index' - 1 <=> j \in Used \/ j = c
      BY <1>4, <3>2, <3>3, PlacementAssumption
    <3>6. \A b : b \in FreeBytes' <=>
            \E j \in 0 .. free_memory_area_index' - 1 :
              b \in Bytes(free_memory_areas'[j].start, free_memory_areas'[j].size)
      BY DEF FreeBytes, Bytes
    <3>7. \A b : b \in FreeBytes' <=> b \in FreeBytes \/ b \in Bytes(start, size)
      BY <3>4, <3>5, <3>6, FreeSpans DEF Spans
    <3> QED
      BY <1>8, <2>3, <3>7 DEF insert_accepted
  <2> QED
    BY <1>8, <2>6, <2>7, <2>8, <2>9 DEF insert_accepted
<1> QED
  BY <1>5, <1>6, <1>7, <1>8 DEF insert_area, insert_full, insert_empty

(* Cutting the bytes of a range off the start or the end of an area.       *)
LEMMA CutBytes ==
  ASSUME TypeOK, Separated, NEW i \in Used, NEW area \in Area,
         free_memory_areas' = Store(i, area),
         free_memory_area_index' = free_memory_area_index,
         NEW start \in Addr, NEW size \in Addr,
         \/ /\ start = free_memory_areas[i].start
            /\ area.start = start + size
            /\ area.start + area.size
                 = free_memory_areas[i].start + free_memory_areas[i].size
         \/ /\ start + size = free_memory_areas[i].start + free_memory_areas[i].size
            /\ area.start = free_memory_areas[i].start
            /\ area.start + area.size = start
  PROVE  /\ FreeBytes' = FreeBytes \ Bytes(start, size)
         /\ Bytes(start, size) \subseteq FreeBytes
<1>1. FreeBytes' = (FreeBytes \ Spans(i)) \cup Bytes(area.start, area.size)
  BY StoreBytes
<1>2. Spans(i) \subseteq FreeBytes
  BY FreeSpans
<1>3. /\ area.start \in Addr /\ area.size \in Addr
      /\ free_memory_areas[i].start \in Addr /\ free_memory_areas[i].size \in Addr
  BY ExactEnds
<1>4. /\ Spans(i) = Bytes(area.start, area.size) \cup Bytes(start, size)
      /\ Bytes(area.start, area.size) \cap Bytes(start, size) = {}
  BY <1>3, PlacementAssumption DEF Spans, Bytes
<1> QED
  BY <1>1, <1>2, <1>4

(* allocate takes the range with the lowest address, if there is any.      *)
LEMMA AllocateBytes ==
  ASSUME TypeOK, Separated, NEW size \in Addr, allocate(size)
  PROVE  \/ /\ size = 0 \/ \A a \in Addr : a + size <= W => ~ Bytes(a, size) \subseteq FreeBytes
            /\ Return("allocate", 0, size, 0) /\ FreeBytes' = FreeBytes
         \/ /\ size > 0
            /\ \E a \in Addr :
                 /\ Return("allocate", a, size, a)
                 /\ a + size <= W /\ Bytes(a, size) \subseteq FreeBytes
                 /\ \A b \in Addr : b + size <= W /\ Bytes(b, size) \subseteq FreeBytes => a <= b
                 /\ FreeBytes' = FreeBytes \ Bytes(a, size)
<1> DEFINE S(i) == free_memory_areas[i].start
           B(i) == free_memory_areas[i].start + free_memory_areas[i].size
<1>1. \A i \in Used : /\ S(i) \in Addr /\ free_memory_areas[i].size \in Addr
                      /\ free_memory_areas[i].size > 0
                      /\ B(i) < W
  BY ExactEnds
<1>2. ASSUME size > 0, NEW b \in Addr, b + size <= W, Bytes(b, size) \subseteq FreeBytes
      PROVE  \E i \in Used : S(i) <= b /\ free_memory_areas[i].size >= size
  <2>1. PICK i \in Used : S(i) <= b /\ b + size <= B(i)
    BY <1>2, InOneArea
  <2>2. free_memory_areas[i].size >= size
    BY <1>1, <2>1, PlacementAssumption
  <2> QED
    BY <2>1, <2>2
<1>3. CASE allocate_fails(size)
  <2>1. FreeBytes' = FreeBytes /\ Return("allocate", 0, size, 0)
    BY <1>3 DEF allocate_fails, Refuse, table, FreeBytes
  <2>2. CASE size = 0
    BY <2>1, <2>2
  <2>3. CASE size > 0
    <3>1. ~ \E i \in Used : free_memory_areas[i].size >= size
      <4>1. free_memory_area_index = 0 => Used = {}
        OBVIOUS
      <4>2. \A i \in Used : free_memory_areas[i].size < size
        BY <1>3, <2>3, <4>1 DEF allocate_fails
      <4> QED
        BY <1>1, <4>2, PlacementAssumption
    <3>2. \A a \in Addr : a + size <= W => ~ Bytes(a, size) \subseteq FreeBytes
      BY <1>2, <2>3, <3>1
    <3> QED
      BY <2>1, <3>2
  <2> QED
    BY <2>2, <2>3, PlacementAssumption
<1>4. ASSUME NEW i \in Used, size > 0, IsFirstFit(i, size), allocate_from(i, size)
      PROVE  \E a \in Addr :
               /\ Return("allocate", a, size, a)
               /\ a + size <= W /\ Bytes(a, size) \subseteq FreeBytes
               /\ \A b \in Addr : b + size <= W /\ Bytes(b, size) \subseteq FreeBytes => a <= b
               /\ FreeBytes' = FreeBytes \ Bytes(a, size)
  <2>1. /\ S(i) \in Addr /\ free_memory_areas[i].size \in Addr
        /\ free_memory_areas[i].size >= size /\ B(i) < W
    BY <1>1, <1>4 DEF IsFirstFit
  <2>2. S(i) + size <= W /\ Return("allocate", S(i), size, S(i))
    BY <1>4, <2>1, PlacementAssumption DEF allocate_from
  <2>3. ASSUME NEW b \in Addr, b + size <= W, Bytes(b, size) \subseteq FreeBytes
        PROVE  S(i) <= b
    <3>1. PICK j \in Used : S(j) <= b /\ free_memory_areas[j].size >= size
      BY <1>2, <1>4, <2>3
    <3>2. ~ (free_memory_areas[j].size < size)
      BY <1>1, <3>1, PlacementAssumption
    <3>3. j \notin 0 .. i - 1
      BY <1>4, <3>2 DEF IsFirstFit
    <3>4. j = i \/ i < j
      BY <3>3, PlacementAssumption DEF TypeOK
    <3>5. i < j => B(i) < S(j)
      BY DEF Separated
    <3> QED
      BY <1>1, <2>1, <3>1, <3>4, <3>5, PlacementAssumption
  <2>4. FreeBytes' = FreeBytes \ Bytes(S(i), size) /\ Bytes(S(i), size) \subseteq FreeBytes
    <3>1. CASE /\ free_memory_areas[i].size > size
               /\ free_memory_areas' =
                    Store(i, [start |-> Wrap(S(i) + size),
                              size |-> free_memory_areas[i].size - size])
               /\ UNCHANGED free_memory_area_index
      <4> DEFINE rest == [start |-> S(i) + size, size |-> free_memory_areas[i].size - size]
      <4>1. Wrap(S(i) + size) = S(i) + size
        BY <2>1, <3>1, PlacementAssumption DEF Wrap
      <4>2. rest \in Area /\ rest.start = S(i) + size /\ rest.start + rest.size = B(i)
        BY <2>1, <3>1, PlacementAssumption
      <4>3. free_memory_areas' = Store(i, rest) /\ free_memory_area_index' = free_memory_area_index
        BY <3>1, <4>1
      <4> HIDE DEF rest
      <4> QED
        BY <2>1, <4>2, <4>3, CutBytes
    <3>2. CASE /\ free_memory_areas[i].size = size
               /\ \E past \in Past : free_memory_areas' = ShiftLeft(i, past)
               /\ free_memory_area_index' = free_memory_area_index - 1
      <4>1. Spans(i) = Bytes(S(i), size)
        BY <3>2 DEF Spans
      <4> QED
        BY <3>2, <4>1, EraseBytes, FreeSpans
    <3> QED
      BY <1>4, <3>1, <3>2 DEF allocate_from
  <2> QED
    BY <2>1, <2>2, <2>3, <2>4
<1> QED
  BY <1>3, <1>4 DEF allocate

(* allocate_area takes the range exactly if all of it is free and, where   *)
(* free bytes remain on both sides of it, the table has a slot left.       *)
LEMMA AllocateAreaBytes ==
  ASSUME TypeOK, Separated, NEW start \in Addr, NEW size \in Addr,
         InAddressSpace(start, size), allocate_area(start, size)
  PROVE  \/ /\ FreeBytes = {}
            /\ Return("allocate_area", start, size, -1) /\ FreeBytes' = FreeBytes
         \/ /\ FreeBytes # {} /\ size = 0
            /\ Return("allocate_area", start, size, -2) /\ FreeBytes' = FreeBytes
         \/ /\ FreeBytes # {} /\ size > 0 /\ \A b \in FreeBytes : b < start
            /\ Return("allocate_area", start, size, -3) /\ FreeBytes' = FreeBytes
         \/ /\ FreeBytes # {} /\ size > 0 /\ ~ \A b \in FreeBytes : b < start
            /\ \/ /\ Bytes(start, size) \subseteq FreeBytes
                  /\ start - 1 \in FreeBytes /\ start + size \in FreeBytes
                  /\ free_memory_area_index = MAX_MEMORY_AREAS_SIZE
                  /\ Return("allocate_area", start, size, -4) /\ FreeBytes' = FreeBytes
               \/ /\ Bytes(start, size) \subseteq FreeBytes
                  /\ \/ start - 1 \notin FreeBytes
                     \/ start + size \notin FreeBytes
                     \/ free_memory_area_index < MAX_MEMORY_AREAS_SIZE
                  /\ Return("allocate_area", start, size, 0)
                  /\ FreeBytes' = FreeBytes \ Bytes(start, size)
               \/ /\ ~ Bytes(start, size) \subseteq FreeBytes
                  /\ Return("allocate_area", start, size, -5) /\ FreeBytes' = FreeBytes
<1> DEFINE S(i) == free_memory_areas[i].start
           B(i) == free_memory_areas[i].start + free_memory_areas[i].size
<1>0. start + size <= W
  BY DEF InAddressSpace
<1>1. \A i \in Used : /\ S(i) \in Addr /\ free_memory_areas[i].size \in Addr
                      /\ free_memory_areas[i].size > 0 /\ B(i) < W
                      /\ free_memory_areas[i] \in Area
                      /\ EndOf(free_memory_areas[i]) = B(i) - 1
  BY ExactEnds
<1>2. \A i, j \in Used : i < j => B(i) < S(j)
  BY DEF Separated
<1>3. UNCHANGED table => FreeBytes' = FreeBytes
  BY DEF table, FreeBytes
<1>4. \A i \in Used : S(i) \in FreeBytes /\ B(i) - 1 \in FreeBytes
  <2> SUFFICES ASSUME NEW i \in Used PROVE S(i) \in FreeBytes /\ B(i) - 1 \in FreeBytes
    OBVIOUS
  <2>1. S(i) \in Spans(i) /\ B(i) - 1 \in Spans(i)
    BY <1>1, PlacementAssumption DEF Spans, Bytes
  <2> QED
    BY <2>1, FreeSpans
<1>5. CASE allocate_area_fails(start, size)
  <2>1. FreeBytes' = FreeBytes
    BY <1>3, <1>5 DEF allocate_area_fails, Refuse
  <2>2. CASE free_memory_area_index = 0
    <3>1. FreeBytes = {}
      BY <2>2 DEF FreeBytes
    <3> QED
      BY <1>5, <2>1, <2>2, <3>1 DEF allocate_area_fails, Refuse
  <2>3. CASE free_memory_area_index > 0
    <3>1. FreeBytes # {}
      <4>1. 0 \in Used
        BY <2>3, PlacementAssumption DEF TypeOK
      <4> QED
        BY <1>4, <4>1
    <3>2. CASE size = 0
      BY <1>5, <2>1, <2>3, <3>1, <3>2 DEF allocate_area_fails, Refuse
    <3>3. CASE size > 0
      <4>1. /\ \A i \in Used : start > EndOf(free_memory_areas[i])
            /\ Return("allocate_area", start, size, -3)
        BY <1>5, <2>3, <3>3 DEF allocate_area_fails, Refuse
      <4>2. ASSUME NEW b \in FreeBytes
            PROVE  b < start
        <5>1. PICK i \in Used : S(i) <= b /\ b < B(i) /\ b \in Addr
          BY DEF FreeBytes
        <5>2. start > B(i) - 1
          BY <1>1, <4>1
        <5> QED
          BY <1>1, <5>1, <5>2, PlacementAssumption
      <4> QED
        BY <2>1, <3>1, <3>3, <4>1, <4>2
    <3> QED
      BY <3>2, <3>3, PlacementAssumption
  <2> QED
    BY <2>2, <2>3, PlacementAssumption DEF TypeOK
<1>6. ASSUME NEW i \in Used, size > 0, IsFirstReaching(i, start),
             \/ take_start(i, start, size)
             \/ take_end(i, start, size)
             \/ take_whole(i, start, size)
             \/ take_middle_full(i, start, size)
             \/ take_middle(i, start, size)
             \/ take_nothing(i, start, size)
      PROVE  /\ FreeBytes # {} /\ ~ \A b \in FreeBytes : b < start
             /\ \/ /\ Bytes(start, size) \subseteq FreeBytes
                   /\ start - 1 \in FreeBytes /\ start + size \in FreeBytes
                   /\ free_memory_area_index = MAX_MEMORY_AREAS_SIZE
                   /\ Return("allocate_area", start, size, -4) /\ FreeBytes' = FreeBytes
                \/ /\ Bytes(start, size) \subseteq FreeBytes
                   /\ \/ start - 1 \notin FreeBytes
                      \/ start + size \notin FreeBytes
                      \/ free_memory_area_index < MAX_MEMORY_AREAS_SIZE
                   /\ Return("allocate_area", start, size, 0)
                   /\ FreeBytes' = FreeBytes \ Bytes(start, size)
                \/ /\ ~ Bytes(start, size) \subseteq FreeBytes
                   /\ Return("allocate_area", start, size, -5) /\ FreeBytes' = FreeBytes
  <2> DEFINE area == free_memory_areas[i]
  <2>1. /\ area \in Area /\ S(i) \in Addr /\ area.size \in Addr /\ area.size > 0
        /\ B(i) < W /\ EndOf(area) = B(i) - 1
        /\ start <= B(i) - 1
    BY <1>1, <1>6 DEF IsFirstReaching
  <2>2. Wrap(start + size - 1) = start + size - 1
    BY <1>0, <1>6, PlacementAssumption DEF Wrap
  <2>3. FreeBytes # {} /\ ~ \A b \in FreeBytes : b < start
    BY <1>4, <2>1, PlacementAssumption
  <2>4. ASSUME NEW j \in Used, S(j) - 1 \in FreeBytes
        PROVE  FALSE
    <3>1. S(j) \in FreeMap!Runs(FreeBytes)
      BY RunStarts
    <3> QED
      BY <2>4, <3>1 DEF FreeMap!Runs
  <2>5. B(i) \notin FreeBytes
    <3> SUFFICES ASSUME NEW j \in Used, S(j) <= B(i), B(i) < B(j) PROVE FALSE
      BY DEF FreeBytes
    <3>1. i < j \/ i = j \/ j < i
      BY PlacementAssumption DEF TypeOK
    <3> QED
      BY <1>1, <1>2, <3>1, PlacementAssumption
  <2>6. CASE take_start(i, start, size)
    <3> DEFINE rest == [start |-> S(i) + size, size |-> area.size - size]
    <3>1. S(i) = start /\ area.size > size
      BY <2>1, <2>2, <2>6, PlacementAssumption DEF take_start
    <3>2. /\ Wrap(S(i) + size) = S(i) + size
          /\ Wrap(area.size - size) = area.size - size
      BY <2>1, <3>1, PlacementAssumption DEF Wrap
    <3>3. /\ free_memory_areas' = Store(i, rest)
          /\ free_memory_area_index' = free_memory_area_index
          /\ Return("allocate_area", start, size, 0)
      BY <2>6, <3>2 DEF take_start
    <3>4. rest \in Area /\ rest.start = start + size /\ rest.start + rest.size = B(i)
      BY <2>1, <3>1, PlacementAssumption
    <3> HIDE DEF rest
    <3>5. FreeBytes' = FreeBytes \ Bytes(start, size) /\ Bytes(start, size) \subseteq FreeBytes
      BY <3>1, <3>3, <3>4, CutBytes
    <3>6. start - 1 \notin FreeBytes
      BY <2>4, <3>1
    <3> QED
      BY <2>3, <3>3, <3>5, <3>6
  <2>7. CASE take_end(i, start, size)
    <3> DEFINE rest == [area EXCEPT !.size = area.size - size]
    <3>1. S(i) < start /\ B(i) = start + size
      BY <2>1, <2>2, <2>7, PlacementAssumption DEF take_end
    <3>2. area.size - size \in Addr
      BY <2>1, <3>1, PlacementAssumption
    <3>3. Wrap(area.size - size) = area.size - size
      BY <3>2, PlacementAssumption DEF Wrap
    <3>4. /\ free_memory_areas' = Store(i, rest)
          /\ free_memory_area_index' = free_memory_area_index
          /\ Return("allocate_area", start, size, 0)
      BY <2>7, <3>3 DEF take_end
    <3>5. rest \in Area /\ rest.size = area.size - size /\ rest.start = S(i)
      BY <2>1, <3>2
    <3>6. rest.start + rest.size = start
      BY <2>1, <3>1, <3>5, PlacementAssumption
    <3> HIDE DEF rest
    <3>7. FreeBytes' = FreeBytes \ Bytes(start, size) /\ Bytes(start, size) \subseteq FreeBytes
      BY <3>1, <3>4, <3>5, <3>6, CutBytes
    <3> QED
      BY <2>3, <2>5, <3>1, <3>4, <3>7
  <2>8. CASE take_whole(i, start, size)
    <3>1. S(i) = start /\ B(i) = start + size
      BY <2>1, <2>2, <2>8, PlacementAssumption DEF take_whole
    <3>2. area.size = size
      BY <2>1, <3>1, PlacementAssumption
    <3>3. Spans(i) = Bytes(start, size)
      BY <3>1, <3>2 DEF Spans
    <3>4. FreeBytes' = FreeBytes \ Spans(i) /\ Spans(i) \subseteq FreeBytes
      BY <2>8, EraseBytes, FreeSpans DEF take_whole
    <3> QED
      BY <2>3, <2>5, <2>8, <3>1, <3>3, <3>4 DEF take_whole
  <2>9. ASSUME IsInside(i, start, size)
        PROVE  /\ S(i) < start /\ start + size < B(i)
               /\ Bytes(start, size) \subseteq Spans(i)
               /\ start - 1 \in FreeBytes /\ start + size \in FreeBytes
    <3>1. S(i) < start /\ start + size < B(i)
      BY <2>1, <2>2, <2>9, PlacementAssumption DEF IsInside
    <3>2. Bytes(start, size) \subseteq Spans(i)
      BY <2>1, <3>1, PlacementAssumption DEF Bytes, Spans
    <3>3. start - 1 \in Spans(i) /\ start + size \in Spans(i)
      BY <2>1, <3>1, PlacementAssumption DEF Bytes, Spans
    <3> QED
      BY <3>1, <3>2, <3>3, FreeSpans
  <2>10. CASE take_middle_full(i, start, size)
    <3>1. FreeBytes' = FreeBytes
      BY <1>3, <2>10 DEF take_middle_full, Refuse
    <3>2. Bytes(start, size) \subseteq FreeBytes
      BY <2>9, <2>10, FreeSpans DEF take_middle_full
    <3> QED
      BY <2>3, <2>9, <2>10, <3>1, <3>2 DEF take_middle_full, Refuse
  <2>11. CASE take_middle(i, start, size)
    <3> DEFINE low  == [area EXCEPT !.size = start - area.start]
               high == [start |-> Wrap(Wrap(start + size - 1) + 1),
                        size |-> Wrap(Wrap(area.size - size) - low.size)]
    <3>1. S(i) < start /\ start + size < B(i) /\ Bytes(start, size) \subseteq Spans(i)
      BY <2>9, <2>11 DEF take_middle
    <3>2. /\ start - area.start \in Addr /\ start - area.start > 0
          /\ area.size - size \in Addr
          /\ area.size - size - (start - area.start) \in Addr
          /\ start + size < W
      BY <1>6, <2>1, <3>1, PlacementAssumption
    <3>3. low \in Area /\ low.start = area.start /\ low.size = start - area.start
      BY <2>1, <3>2
    <3>4. /\ Wrap(area.size - size) = area.size - size
          /\ Wrap(area.size - size - (start - area.start))
               = area.size - size - (start - area.start)
          /\ Wrap(start + size - 1 + 1) = start + size
      BY <3>2, PlacementAssumption DEF Wrap
    <3>5. /\ high.start = start + size
          /\ high.size = area.size - size - (start - area.start)
      BY <2>2, <3>3, <3>4
    <3>6. high \in Area
      BY <3>2, <3>5, PlacementAssumption
    <3>7. /\ free_memory_area_index < MAX_MEMORY_AREAS_SIZE
          /\ free_memory_areas' = SplitAt(i, low, high)
          /\ free_memory_area_index' = free_memory_area_index + 1
          /\ Return("allocate_area", start, size, 0)
      BY <2>11 DEF take_middle
    <3> HIDE DEF low, high
    <3>8. FreeBytes' = (FreeBytes \ Spans(i))
                         \cup Bytes(low.start, low.size) \cup Bytes(high.start, high.size)
      BY <3>3, <3>6, <3>7, SplitBytes
    <3>9. Bytes(low.start, low.size) \cup Bytes(high.start, high.size)
            = Spans(i) \ Bytes(start, size)
      BY <2>1, <3>1, <3>2, <3>3, <3>5, PlacementAssumption DEF Bytes, Spans
    <3>10. Spans(i) \subseteq FreeBytes
      BY FreeSpans
    <3> QED
      BY <2>3, <3>1, <3>7, <3>8, <3>9, <3>10
  <2>12. CASE take_nothing(i, start, size)
    <3>1. FreeBytes' = FreeBytes /\ Return("allocate_area", start, size, -5)
      BY <1>3, <2>12 DEF take_nothing, Refuse
    <3>2. start < S(i) \/ B(i) - 1 < start + size - 1
      BY <2>1, <2>2, <2>12 DEF take_nothing
    <3>3. ASSUME Bytes(start, size) \subseteq FreeBytes
          PROVE  FALSE
      <4>1. PICK j \in Used : S(j) <= start /\ start + size <= B(j)
        BY <1>0, <1>6, <3>3, InOneArea
      <4>2. ~ (start > EndOf(free_memory_areas[j]))
        BY <1>1, <1>6, <4>1, PlacementAssumption
      <4>3. j \notin 0 .. i - 1
        BY <1>6, <4>2 DEF IsFirstReaching
      <4>4. j = i \/ i < j
        BY <4>3, PlacementAssumption DEF TypeOK
      <4>5. i < j => B(i) < S(j)
        BY <1>2
      <4> QED
        BY <1>1, <1>6, <2>1, <3>2, <4>1, <4>4, <4>5, PlacementAssumption
    <3> QED
      BY <2>3, <3>1, <3>3
  <2> QED
    BY <1>6, <2>6, <2>7, <2>8, <2>10, <2>11, <2>12
<1> QED
  BY <1>5, <1>6 DEF allocate_area

(* An iteration of allocate_area_cover only takes bytes of the range away, *)
(* or gives up because the table has no slot for the rest of an area.      *)
LEMMA CoverBytes ==
  ASSUME TypeOK, Separated, CoverProgress, cover_step
  PROVE  \/ /\ UNCHANGED call
            /\ FreeBytes' \subseteq FreeBytes
            /\ FreeBytes \ FreeBytes' \subseteq Bytes(call.start, call.size)
         \/ /\ Bytes(call.start, call.size) \subseteq FreeBytes
            /\ call.start - 1 \in FreeBytes /\ call.start + call.size \in FreeBytes
            /\ free_memory_area_index = MAX_MEMORY_AREAS_SIZE
            /\ Return("cover", call.start, call.size, -1)
            /\ FreeBytes' = FreeBytes
<1> USE DEF Current
<1> DEFINE S(i) == free_memory_areas[i].start
           B(i) == free_memory_areas[i].start + free_memory_areas[i].size
<1>1. /\ scan \in Used /\ scan \in Slots
      /\ call.start \in Addr /\ call.size \in Addr
      /\ call.size > 0 /\ call.start + call.size <= W
  BY UsedSlots, PlacementAssumption DEF TypeOK, cover_step, CoverProgress
<1>2. /\ Current \in Area
      /\ S(scan) \in Addr /\ Current.size \in Addr /\ Current.size > 0
      /\ B(scan) < W
      /\ EndOf(Current) = B(scan) - 1
  BY <1>1, ExactEnds
<1>3. CoverEnd = call.start + call.size - 1
  BY <1>1, PlacementAssumption DEF CoverEnd, Wrap
<1>4. UNCHANGED table => FreeBytes' = FreeBytes
  BY DEF table, FreeBytes
<1>5. Spans(scan) \subseteq FreeBytes
  BY <1>1, FreeSpans
<1>6. CASE cover_skip
  BY <1>4, <1>6 DEF cover_skip
<1>7. CASE cover_delete
  <2>1. FreeBytes' = FreeBytes \ Spans(scan)
    BY <1>1, <1>7, EraseBytes DEF cover_delete
  <2>2. Spans(scan) \subseteq Bytes(call.start, call.size)
    BY <1>1, <1>2, <1>3, <1>7, PlacementAssumption DEF cover_delete, Spans, Bytes
  <2> QED
    BY <1>7, <2>1, <2>2 DEF cover_delete
<1>8. ASSUME NEW area \in Area, free_memory_areas' = Store(scan, area),
             UNCHANGED <<free_memory_area_index, call>>,
             \A b \in Addr : area.start <= b /\ b < area.start + area.size
                               => S(scan) <= b /\ b < B(scan),
             \A b \in Addr : S(scan) <= b /\ b < B(scan)
                               => \/ area.start <= b /\ b < area.start + area.size
                                  \/ call.start <= b /\ b < call.start + call.size
      PROVE  /\ UNCHANGED call
             /\ FreeBytes' \subseteq FreeBytes
             /\ FreeBytes \ FreeBytes' \subseteq Bytes(call.start, call.size)
  <2>1. FreeBytes' = (FreeBytes \ Spans(scan)) \cup Bytes(area.start, area.size)
    BY <1>1, <1>8, StoreBytes
  <2>2. Bytes(area.start, area.size) \subseteq Spans(scan)
    BY <1>8 DEF Spans, Bytes
  <2>3. Spans(scan) \subseteq Bytes(area.start, area.size) \cup Bytes(call.start, call.size)
    BY <1>8 DEF Spans, Bytes
  <2> QED
    BY <1>5, <1>8, <2>1, <2>2, <2>3
<1>9. CASE cover_trim_start
  <2> DEFINE start == call.start + call.size
             rest == [start |-> start, size |-> B(scan) - start]
  <2>1. call.start + call.size < B(scan) /\ call.start <= S(scan)
        /\ S(scan) < call.start + call.size
    BY <1>1, <1>2, <1>3, <1>9, PlacementAssumption
    DEF cover_trim_start, CoverIntersects
  <2>2. Wrap(CoverEnd + 1) = start
    BY <1>1, <1>2, <1>3, <2>1, PlacementAssumption DEF Wrap
  <2>3. Wrap(EndOf(Current) - start + 1) = B(scan) - start
    BY <1>1, <1>2, <2>1, PlacementAssumption DEF Wrap
  <2>4. rest \in Area /\ rest.start = start /\ rest.start + rest.size = B(scan)
    BY <1>1, <1>2, <2>1, PlacementAssumption
  <2>5. /\ free_memory_areas' = Store(scan, rest)
        /\ UNCHANGED <<free_memory_area_index, call>>
    BY <1>9, <2>2, <2>3 DEF cover_trim_start
  <2> HIDE DEF rest
  <2>6. \A b \in Addr : rest.start <= b /\ b < rest.start + rest.size
                          => S(scan) <= b /\ b < B(scan)
    BY <1>1, <1>2, <2>1, <2>4, PlacementAssumption
  <2>7. \A b \in Addr : S(scan) <= b /\ b < B(scan)
                          => \/ rest.start <= b /\ b < rest.start + rest.size
                             \/ call.start <= b /\ b < call.start + call.size
    BY <1>1, <1>2, <2>1, <2>4, PlacementAssumption
  <2> QED
    BY <1>8, <2>4, <2>5, <2>6, <2>7
<1>10. CASE cover_trim_end
  <2> DEFINE rest == [Current EXCEPT !.size = call.start - Current.start]
  <2>1. call.start > S(scan) /\ call.start < B(scan) /\ B(scan) <= call.start + call.size
    BY <1>1, <1>2, <1>3, <1>10, PlacementAssumption
    DEF cover_trim_end, CoverIntersects
  <2>2. call.start - S(scan) \in Addr
    BY <1>1, <1>2, <2>1, PlacementAssumption
  <2>3. rest \in Area /\ rest.start = S(scan) /\ rest.size = call.start - S(scan)
    BY <1>2, <2>2
  <2>4. rest.start + rest.size = call.start
    BY <1>1, <1>2, <2>3, PlacementAssumption
  <2>5. /\ free_memory_areas' = Store(scan, rest)
        /\ UNCHANGED <<free_memory_area_index, call>>
    BY <1>10 DEF cover_trim_end
  <2> HIDE DEF rest
  <2>6. \A b \in Addr : rest.start <= b /\ b < rest.start + rest.size
                          => S(scan) <= b /\ b < B(scan)
    BY <1>1, <1>2, <2>1, <2>3, <2>4, PlacementAssumption
  <2>7. \A b \in Addr : S(scan) <= b /\ b < B(scan)
                          => \/ rest.start <= b /\ b < rest.start + rest.size
                             \/ call.start <= b /\ b < call.start + call.size
    BY <1>1, <1>2, <2>1, <2>3, <2>4, PlacementAssumption
  <2> QED
    BY <1>8, <2>3, <2>5, <2>6, <2>7
<1>11. ASSUME CoverSplits
       PROVE  /\ S(scan) < call.start /\ call.start + call.size < B(scan)
              /\ Bytes(call.start, call.size) \subseteq Spans(scan)
              /\ call.start - 1 \in Spans(scan) /\ call.start + call.size \in Spans(scan)
  <2>1. S(scan) < call.start /\ call.start + call.size < B(scan)
    BY <1>1, <1>2, <1>3, <1>11, PlacementAssumption DEF CoverSplits
  <2> QED
    BY <1>1, <1>2, <2>1, PlacementAssumption DEF Spans, Bytes
<1>12. CASE cover_split_full
  BY <1>4, <1>5, <1>11, <1>12 DEF cover_split_full, FreeBytes
<1>13. CASE cover_split
  <2> DEFINE low  == [Current EXCEPT !.size = call.start - Current.start]
             high == [start |-> Wrap(CoverEnd + 1), size |-> EndOf(Current) - CoverEnd]
  <2>1. call.start > S(scan) /\ call.start + call.size < B(scan)
    BY <1>11, <1>13 DEF cover_split
  <2>2. /\ call.start - S(scan) \in Addr
        /\ B(scan) - (call.start + call.size) \in Addr
        /\ call.start + call.size \in Addr
    BY <1>1, <1>2, <2>1, PlacementAssumption
  <2>3. low \in Area /\ low.start = S(scan) /\ low.size = call.start - S(scan)
    BY <1>2, <2>2
  <2>4. Wrap(CoverEnd + 1) = call.start + call.size
    BY <1>1, <1>3, <2>2, PlacementAssumption DEF Wrap
  <2>5. EndOf(Current) - CoverEnd = B(scan) - (call.start + call.size)
    BY <1>1, <1>2, <1>3, PlacementAssumption
  <2>6. /\ high \in Area
        /\ high.start = call.start + call.size
        /\ high.size = B(scan) - (call.start + call.size)
    BY <2>2, <2>4, <2>5
  <2>7. /\ free_memory_area_index < MAX_MEMORY_AREAS_SIZE
        /\ free_memory_areas' = SplitAt(scan, low, high)
        /\ free_memory_area_index' = free_memory_area_index + 1
        /\ call' = call
    BY <1>13 DEF cover_split
  <2> HIDE DEF low, high
  <2>8. FreeBytes' = (FreeBytes \ Spans(scan))
                       \cup Bytes(low.start, low.size) \cup Bytes(high.start, high.size)
    BY <1>1, <2>3, <2>6, <2>7, SplitBytes
  <2>9. Bytes(low.start, low.size) \cup Bytes(high.start, high.size)
          = Spans(scan) \ Bytes(call.start, call.size)
    BY <1>1, <1>2, <2>1, <2>2, <2>3, <2>6, PlacementAssumption DEF Bytes, Spans
  <2> QED
    BY <1>5, <2>7, <2>8, <2>9
<1> QED
  BY <1>6, <1>7, <1>9, <1>10, <1>12, <1>13 DEF cover_step

-----------------------------------------------------------------------------
\* The refinement

(* When the loop has passed all areas, no byte of the range is free.       *)
LEMMA CoverReturnBytes ==
  ASSUME TypeOK, Separated, CoverProgress, cover_return
  PROVE  Bytes(call.start, call.size) \cap FreeBytes = {} /\ FreeBytes' = FreeBytes
<1>1. Bytes(call.start, call.size) \cap FreeBytes = {}
  <2> SUFFICES ASSUME NEW b \in Bytes(call.start, call.size), NEW i \in Used,
                      free_memory_areas[i].start <= b,
                      b < free_memory_areas[i].start + free_memory_areas[i].size
               PROVE  FALSE
    BY DEF FreeBytes
  <2>1. i \in 0 .. scan - 1
    BY PlacementAssumption DEF cover_return, TypeOK
  <2>2. \/ free_memory_areas[i].start + free_memory_areas[i].size <= call.start
        \/ call.start + call.size <= free_memory_areas[i].start
    BY <2>1 DEF CoverProgress, cover_return
  <2>3. /\ free_memory_areas[i].start \in Addr /\ free_memory_areas[i].size \in Addr
        /\ call.start \in Addr /\ call.size \in Addr
    BY ExactEnds DEF TypeOK
  <2>4. b \in Addr /\ call.start <= b /\ b < call.start + call.size
    BY DEF Bytes
  <2> QED
    BY <2>2, <2>3, <2>4, PlacementAssumption
<1>2. FreeBytes' = FreeBytes
  BY DEF cover_return, table, FreeBytes
<1> QED
  BY <1>1, <1>2

(* The two modules mean the same by a range, and by a running call.        *)
LEMMA SameBytes ==
  /\ \A start, size : FreeMap!Bytes(start, size) = Bytes(start, size)
  /\ FreeMap!Idle <=> Idle
BY DEF FreeMap!Bytes, FreeMap!Addr, Bytes, FreeMap!Idle, Idle

(* A returned call is an answer.                                           *)
LEMMA ReturnAnswers ==
  ASSUME NEW op, NEW start, NEW size, NEW codes, NEW code \in codes,
         Return(op, start, size, code)
  PROVE  /\ FreeMap!Answer(op, start, size, codes)
         /\ call'.op = op /\ call'.ret = code
BY DEF Return, FreeMap!Answer

(* Every step of the table under the prescribed usage is a step of the set *)
(* of free bytes.                                                          *)
LEMMA StepRefines ==
  ASSUME UsageInv, [UsageNext]_vars
  PROVE  [FreeMap!Next]_FreeMap!vars
<1>0. TypeOK /\ Separated /\ CleanTail /\ CoverProgress
  BY DEF UsageInv
<1>1. /\ free_memory_area_index \in 0 .. MAX_MEMORY_AREAS_SIZE
      /\ FreeMap!Full <=> free_memory_area_index = MAX_MEMORY_AREAS_SIZE
  BY <1>0, RunCount DEF TypeOK
<1>2. CASE clear_placement_memory_array
  <2>1. FreeBytes' = {}
    BY <1>2 DEF clear_placement_memory_array, FreeBytes
  <2>2. FreeMap!Clear
    BY <1>2, <2>1, ReturnAnswers, SameBytes DEF clear_placement_memory_array, FreeMap!Clear
  <2> QED
    BY <2>2 DEF FreeMap!Next
<1>3. ASSUME NEW start \in Addr, NEW size \in Addr,
             Declarable(start, size), insert_area(start, size)
      PROVE  FreeMap!Next
  <2>1. Idle
    BY <1>3 DEF insert_area
  <2>2. /\ call'.op = "insert"
        /\ FreeMap!Answer("insert", start, size, FreeMap!InsertCodes(start, size))
        /\ FreeBytes' = IF call'.ret = 0 THEN FreeBytes \cup Bytes(start, size) ELSE FreeBytes
    <3>1. CASE /\ free_memory_area_index = MAX_MEMORY_AREAS_SIZE
               /\ Return("insert", start, size, -1) /\ FreeBytes' = FreeBytes
      <4>1. FreeMap!InsertCodes(start, size) = {-1}
        BY <1>1, <3>1 DEF FreeMap!InsertCodes
      <4> QED
        BY <3>1, <4>1, ReturnAnswers
    <3>2. CASE /\ free_memory_area_index < MAX_MEMORY_AREAS_SIZE /\ size = 0
               /\ Return("insert", start, size, -2) /\ FreeBytes' = FreeBytes
      <4>1. FreeMap!InsertCodes(start, size) = {-2}
        BY <1>1, <3>2 DEF FreeMap!InsertCodes
      <4>2. FreeMap!Answer("insert", start, size, {-2}) /\ call'.op = "insert" /\ call'.ret = -2
        BY <3>2, ReturnAnswers
      <4> QED
        BY <3>2, <4>1, <4>2
    <3>3. CASE /\ free_memory_area_index < MAX_MEMORY_AREAS_SIZE /\ size > 0
               /\ Bytes(start, size) \cap FreeBytes # {}
               /\ \E code \in {-3, -4} : Return("insert", start, size, code)
               /\ FreeBytes' = FreeBytes
      <4>1. FreeMap!InsertCodes(start, size) = {-3, -4}
        BY <1>1, <3>3, SameBytes DEF FreeMap!InsertCodes
      <4>2. PICK code \in {-3, -4} : Return("insert", start, size, code)
        BY <3>3
      <4>3. /\ FreeMap!Answer("insert", start, size, {-3, -4})
            /\ call'.op = "insert" /\ call'.ret = code
        BY <4>2, ReturnAnswers
      <4>4. call'.ret # 0
        BY <4>3
      <4> QED
        BY <3>3, <4>1, <4>3, <4>4
    <3>4. CASE /\ free_memory_area_index < MAX_MEMORY_AREAS_SIZE /\ size > 0
               /\ Bytes(start, size) \cap FreeBytes = {}
               /\ Return("insert", start, size, 0)
               /\ FreeBytes' = FreeBytes \cup Bytes(start, size)
      <4>1. FreeMap!InsertCodes(start, size) = {0}
        BY <1>1, <3>4, SameBytes DEF FreeMap!InsertCodes
      <4> QED
        BY <3>4, <4>1, ReturnAnswers
    <3> QED
      BY <1>0, <1>3, <3>1, <3>2, <3>3, <3>4, InsertBytes
  <2>3. FreeMap!Insert(start, size)
    BY <2>1, <2>2, SameBytes DEF FreeMap!Insert
  <2> QED
    BY <2>2, <2>3 DEF FreeMap!Next, FreeMap!Addr
<1>4. ASSUME NEW size \in Addr, allocate(size)
      PROVE  FreeMap!Next
  <2>1. Idle
    BY <1>4 DEF allocate
  <2>2. FreeMap!Fits(FreeBytes, size)
          = {a \in Addr : a + size <= W /\ Bytes(a, size) \subseteq FreeBytes}
    BY SameBytes DEF FreeMap!Fits, FreeMap!Addr
  <2>3. CASE /\ size = 0 \/ \A a \in Addr : a + size <= W => ~ Bytes(a, size) \subseteq FreeBytes
             /\ Return("allocate", 0, size, 0) /\ FreeBytes' = FreeBytes
    <3>1. FreeMap!Answer("allocate", 0, size, {0}) /\ call'.op = "allocate"
      BY <2>3, ReturnAnswers
    <3>2. FreeMap!Allocate(size)
      BY <2>1, <2>2, <2>3, <3>1, SameBytes DEF FreeMap!Allocate
    <3> QED
      BY <3>1, <3>2 DEF FreeMap!Next, FreeMap!Addr
  <2>4. ASSUME size > 0, NEW a \in Addr,
               Return("allocate", a, size, a),
               a + size <= W, Bytes(a, size) \subseteq FreeBytes,
               \A b \in Addr : b + size <= W /\ Bytes(b, size) \subseteq FreeBytes => a <= b,
               FreeBytes' = FreeBytes \ Bytes(a, size)
        PROVE  FreeMap!Next
    <3>1. FreeMap!Answer("allocate", a, size, {a}) /\ call'.op = "allocate"
      BY <2>4, ReturnAnswers
    <3>2. FreeMap!Allocate(size)
      BY <2>1, <2>2, <2>4, <3>1, SameBytes DEF FreeMap!Allocate, FreeMap!Addr
    <3> QED
      BY <3>1, <3>2 DEF FreeMap!Next, FreeMap!Addr
  <2> QED
    BY <1>0, <1>4, <2>3, <2>4, AllocateBytes
<1>5. ASSUME NEW start \in Addr, NEW size \in Addr,
             InAddressSpace(start, size), allocate_area(start, size)
      PROVE  FreeMap!Next
  <2> DEFINE code == FreeMap!AllocateAreaCode(start, size)
  <2>1. Idle
    BY <1>5 DEF allocate_area
  <2>2. /\ Return("allocate_area", start, size, code)
        /\ FreeBytes' = IF code = 0 THEN FreeBytes \ Bytes(start, size) ELSE FreeBytes
    <3>1. CASE /\ FreeBytes = {}
               /\ Return("allocate_area", start, size, -1) /\ FreeBytes' = FreeBytes
      BY <3>1 DEF FreeMap!AllocateAreaCode
    <3>2. CASE /\ FreeBytes # {} /\ size = 0
               /\ Return("allocate_area", start, size, -2) /\ FreeBytes' = FreeBytes
      BY <3>2 DEF FreeMap!AllocateAreaCode
    <3>3. CASE /\ FreeBytes # {} /\ size > 0 /\ \A b \in FreeBytes : b < start
               /\ Return("allocate_area", start, size, -3) /\ FreeBytes' = FreeBytes
      BY <3>3 DEF FreeMap!AllocateAreaCode
    <3>4. ASSUME FreeBytes # {}, size > 0, ~ \A b \in FreeBytes : b < start
          PROVE  code = IF FreeMap!SplitsRun(start, size) /\ FreeMap!Full THEN -4
                        ELSE IF Bytes(start, size) \subseteq FreeBytes THEN 0
                        ELSE -5
      BY <3>4, SameBytes DEF FreeMap!AllocateAreaCode
    <3>5. FreeMap!SplitsRun(start, size) <=>
            /\ Bytes(start, size) \subseteq FreeBytes
            /\ start - 1 \in FreeBytes /\ start + size \in FreeBytes
      BY SameBytes DEF FreeMap!SplitsRun
    <3>6. ~ (free_memory_area_index < MAX_MEMORY_AREAS_SIZE /\ FreeMap!Full)
      BY <1>1, PlacementAssumption
    <3> HIDE DEF code
    <3> QED
      BY <1>0, <1>1, <1>5, <3>1, <3>2, <3>3, <3>4, <3>5, <3>6, AllocateAreaBytes
  <2> HIDE DEF code
  <2>3. FreeMap!Answer("allocate_area", start, size, {code})
        /\ call'.op = "allocate_area" /\ call'.ret = code
    BY <2>2, ReturnAnswers
  <2>4. FreeMap!AllocateArea(start, size)
    BY <2>1, <2>2, <2>3, SameBytes DEF FreeMap!AllocateArea, code
  <2> QED
    BY <2>3, <2>4 DEF FreeMap!Next, FreeMap!Addr
<1>6. ASSUME NEW start \in Addr, NEW size \in Addr, allocate_area_cover(start, size)
      PROVE  FreeMap!Next
  <2>1. Idle /\ FreeBytes' = FreeBytes /\ Return("covering", start, size, 0)
    BY <1>6 DEF allocate_area_cover, table, FreeBytes
  <2>2. FreeMap!Answer("covering", start, size, {0}) /\ call'.op = "covering"
    BY <2>1, ReturnAnswers
  <2>3. FreeMap!CoverBegin(start, size)
    BY <2>1, <2>2, SameBytes DEF FreeMap!CoverBegin
  <2> QED
    BY <2>2, <2>3 DEF FreeMap!Next, FreeMap!Addr
<1>7. CASE cover_step
  <2>1. call.op = "covering"
    BY <1>7 DEF cover_step
  <2>2. CASE /\ UNCHANGED call
             /\ FreeBytes' \subseteq FreeBytes
             /\ FreeBytes \ FreeBytes' \subseteq Bytes(call.start, call.size)
    BY <2>1, <2>2, SameBytes DEF FreeMap!CoverTake, FreeMap!Next
  <2>3. CASE /\ Bytes(call.start, call.size) \subseteq FreeBytes
             /\ call.start - 1 \in FreeBytes /\ call.start + call.size \in FreeBytes
             /\ free_memory_area_index = MAX_MEMORY_AREAS_SIZE
             /\ Return("cover", call.start, call.size, -1)
             /\ FreeBytes' = FreeBytes
    <3>1. FreeMap!Answer("cover", call.start, call.size, {-1})
      BY <2>3, ReturnAnswers
    <3>2. FreeMap!CoverReturn
      BY <1>1, <2>1, <2>3, <3>1, SameBytes DEF FreeMap!CoverReturn, FreeMap!SplitsRun
    <3> QED
      BY <3>2 DEF FreeMap!Next
  <2> QED
    BY <1>0, <1>7, <2>2, <2>3, CoverBytes
<1>8. CASE cover_return
  <2>1. /\ call.op = "covering" /\ FreeBytes' = FreeBytes
        /\ Return("cover", call.start, call.size, 0)
    BY <1>8 DEF cover_return, table, FreeBytes
  <2>2. Bytes(call.start, call.size) \cap FreeBytes = {}
    BY <1>0, <1>8, CoverReturnBytes
  <2>3. FreeMap!Answer("cover", call.start, call.size, {0})
    BY <2>1, ReturnAnswers
  <2>4. FreeMap!CoverReturn
    BY <2>1, <2>2, <2>3, SameBytes DEF FreeMap!CoverReturn
  <2> QED
    BY <2>4 DEF FreeMap!Next
<1>9. CASE UNCHANGED vars
  BY <1>9 DEF vars, FreeMap!vars, FreeBytes
<1> QED
  BY <1>2, <1>3, <1>4, <1>5, <1>6, <1>7, <1>8, <1>9 DEF UsageNext

(* Under the prescribed usage the table of areas behaves, results          *)
(* included, as a set of free bytes.                                       *)
THEOREM UsageRefinement == UsageSpec => ImplementsFreeMap
<1>1. Init => FreeMap!Init
  BY DEF Init, FreeMap!Init, FreeBytes
<1> QED
  BY <1>1, UsageInvariant, StepRefines, PTL DEF UsageSpec, ImplementsFreeMap, FreeMap!Spec

-----------------------------------------------------------------------------
\* PART 2: Boot

HIDE DEF Area, Slots, Used
USE DEF At

-----------------------------------------------------------------------------
\* The invariant

Places == {"begin", "mmap", "elf", "mods", "cover", "covering", "allocate",
           "frames", "up", "halted"}

PlacesOK ==
  /\ mbi \in BootInfos
  /\ boot \in [pc : Places, entry : Nat \ {0}, mod : Nat \ {0}]

\* The RAM of the entries that the loop has read.
ReadEntries == {i \in AvailableEntries : i < boot.entry}
RAMRead == UNION {RAMOf(mbi.mmap[i]) : i \in ReadEntries}

\* What is free after the map, and what of it is left above the reserved memory.
Declared == IF mbi.magic THEN AvailableRAM \ blocked ELSE {}
Room == IF mbi.magic THEN Unreserved ELSE {}

\* The placement memory has the lowest address at which it fits.
Placed ==
  /\ mbi.magic
  /\ placement_memory_address \in Addr
  /\ PlacementAt(placement_memory_address) \subseteq Unreserved
  /\ \A a \in Addr :
       PlacementAt(a) \subseteq Unreserved => placement_memory_address <= a

MemoryInv ==
  /\ At("begin") => Idle /\ blocked = {} /\ boot.entry = 1
  /\ At("mmap") =>
       /\ mbi.magic /\ Declaring /\ blocked = {}
       /\ FreeBytes = RAMRead
       /\ free_memory_area_index <= Cardinality(ReadEntries)
  /\ boot.pc \in {"elf", "mods"} => mbi.magic
  /\ boot.pc \in {"elf", "mods", "cover"} => Idle /\ FreeBytes = Declared
  /\ At("covering") =>
       /\ call.op = "covering"
       /\ call.start = 0 /\ call.size = RESERVED_MEMORY_IN_BYTES
       /\ Room \subseteq FreeBytes /\ FreeBytes \subseteq Declared
  /\ At("allocate") => Idle /\ FreeBytes = Room
  /\ boot.pc \in {"frames", "up"} => Placed
  /\ At("up") => used = 0 .. MarkedFrames - 1
  /\ HaltsForCause

BootInv == UsageInv /\ PlacesOK /\ MemoryInv

-----------------------------------------------------------------------------
\* The words of the map

(* Two words of 32 bits are less than the address space.                   *)
LEMMA WordSizes ==
  /\ WORD \in Nat /\ WORD >= 2 /\ 2 * WORD <= W /\ W \in Nat /\ W > 1
<1>1. WORD \in Nat \ {0} /\ W = WORD * WORD /\ W > 1 /\ W \in Nat
  BY BootAssumption, PlacementAssumption
<1>2. WORD >= 2
  <2> SUFFICES ASSUME WORD = 1 PROVE FALSE
    BY <1>1
  <2> QED
    BY <1>1
<1>3. PICK k \in Nat : WORD = k + 2
  <2>1. WORD - 2 \in Nat /\ WORD = WORD - 2 + 2
    BY <1>1, <1>2
  <2> QED
    BY <2>1
<1>4. WORD * WORD = 2 * WORD + k * WORD /\ k * WORD >= 0
  BY <1>1, <1>3
<1> QED
  BY <1>1, <1>2, <1>4

(* An entry of a map, its two words, and its RAM.                          *)
LEMMA EntryWords ==
  ASSUME OrdinaryMaps, PlacesOK, NEW i \in AvailableEntries
  PROVE  LET entry == mbi.mmap[i] IN
         /\ i \in 1 .. Len(mbi.mmap) /\ Len(mbi.mmap) \in Nat
         /\ entry.base_addr_low \in Word /\ entry.length_low \in Word
         /\ Combined(entry.base_addr_high, entry.base_addr_low) = entry.base_addr_low
         /\ Combined(entry.length_high, entry.length_low) = entry.length_low
         /\ RAMOf(entry) = Bytes(entry.base_addr_low, entry.length_low)
<1> DEFINE entry == mbi.mmap[i]
<1>1. mbi.mmap \in Seq(MemoryMapEntry)
  BY BootAssumption DEF PlacesOK
<1>2. i \in 1 .. Len(mbi.mmap) /\ Len(mbi.mmap) \in Nat /\ entry.type = 1
  BY <1>1 DEF AvailableEntries
<1>3. /\ entry.base_addr_low \in Word /\ entry.length_low \in Word
      /\ entry.base_addr_high = 0 /\ entry.length_high = 0
  <2>1. entry \in MemoryMapEntry
    BY <1>1, <1>2
  <2>2. mbi \in BootInfos /\ i \in DOMAIN mbi.mmap
    BY DEF PlacesOK, AvailableEntries
  <2>3. entry.base_addr_high = 0 /\ entry.length_high = 0
    BY <1>2, <2>2 DEF OrdinaryMaps
  <2> QED
    BY <2>1, <2>3 DEF MemoryMapEntry
<1>4. \A low \in Word : Combined(0, low) = low
  BY BootAssumption DEF Combined, Word
<1>5. RAMOf(entry) = Bytes(entry.base_addr_low, entry.length_low)
  BY <1>3, WordSizes DEF RAMOf, Word
<1> QED
  BY <1>2, <1>3, <1>4, <1>5

(* Entries of available RAM come in ascending order.                       *)
LEMMA EntriesAscend ==
  ASSUME OrdinaryMaps, PlacesOK,
         NEW i \in AvailableEntries, NEW j \in AvailableEntries, i < j
  PROVE  mbi.mmap[i].base_addr_low + mbi.mmap[i].length_low <= mbi.mmap[j].base_addr_low
<1>1. i \in 1 .. Len(mbi.mmap) /\ j \in 1 .. Len(mbi.mmap) /\ Len(mbi.mmap) \in Nat
  BY EntryWords
<1>2. j \in i + 1 .. Len(mbi.mmap)
  BY <1>1
<1> QED
  BY <1>2 DEF OrdinaryMaps, PlacesOK, AvailableEntries

(* No available byte is the last one of the address space.                 *)
LEMMA RAMBelowEnd ==
  ASSUME OrdinaryMaps, PlacesOK, NEW b \in AvailableRAM
  PROVE  b \in Addr /\ b < W - 1
<1>1. PICK i \in AvailableEntries : b \in RAMOf(mbi.mmap[i])
  BY DEF AvailableRAM
<1>2. /\ mbi.mmap[i].base_addr_low \in Word /\ mbi.mmap[i].length_low \in Word
      /\ b \in Bytes(mbi.mmap[i].base_addr_low, mbi.mmap[i].length_low)
  BY <1>1, EntryWords
<1> QED
  BY <1>2, WordSizes DEF Bytes, Word

(* So a placement memory of available RAM does not wrap.                   *)
LEMMA PlacementFits ==
  ASSUME OrdinaryMaps, PlacesOK, NEW a \in Addr, PlacementAt(a) \subseteq Unreserved
  PROVE  a + PLACEMENT_MEMORY_SIZE_IN_BYTES <= W
<1> SUFFICES ASSUME a + PLACEMENT_MEMORY_SIZE_IN_BYTES > W PROVE FALSE
  BY BootAssumption, WordSizes
<1>1. W - 1 \in PlacementAt(a)
  BY BootAssumption, WordSizes DEF PlacementAt, Bytes
<1>2. W - 1 \in AvailableRAM
  BY <1>1 DEF Unreserved
<1> QED
  BY <1>2, RAMBelowEnd, WordSizes

-----------------------------------------------------------------------------
\* What the steps of main have in common

(* A step of main that calls an operation of the placement memory as       *)
(* prescribed keeps the table sorted and clean.                            *)
LEMMA TableKept ==
  ASSUME BootInv, UsageNext \/ UNCHANGED vars
  PROVE  UsageInv'
BY UsageStep DEF BootInv

(* Going to another place of main keeps the types.                         *)
LEMMA GotoType ==
  ASSUME PlacesOK, NEW pc \in Places, Goto(pc), UNCHANGED mbi
  PROVE  PlacesOK' /\ boot'.pc = pc /\ boot'.entry = boot.entry
BY DEF PlacesOK, Goto

(* What the map says depends on nothing but the multiboot information.     *)
LEMMA MapKept ==
  ASSUME UNCHANGED <<mbi, blocked>>
  PROVE  UNCHANGED <<AvailableEntries, AvailableRAM, Unreserved, Declared, Room>>
BY DEF AvailableEntries, AvailableRAM, RAMOf, Bytes, Unreserved, Declared, Room

-----------------------------------------------------------------------------
\* The steps of main

(* The memory map is begun with an empty table.                            *)
LEMMA Begin ==
  ASSUME BootInv, OrdinaryMaps, begin
  PROVE  BootInv'
<1>1. /\ clear_placement_memory_array /\ At("begin")
      /\ Goto(IF ~ mbi.magic THEN "cover" ELSE IF mbi.mmap_valid THEN "mmap" ELSE "halted")
      /\ UNCHANGED <<mbi, placement_memory_address, used, blocked>>
  BY DEF begin
<1>2. UsageInv'
  BY <1>1, TableKept DEF UsageNext
<1>3. /\ FreeBytes' = {} /\ free_memory_area_index' = 0
      /\ call'.op = "clear" /\ blocked = {} /\ boot.entry = 1
  BY <1>1 DEF clear_placement_memory_array, FreeBytes, Used, Return, BootInv, MemoryInv
<1>4. CASE ~ mbi.magic
  <2>1. PlacesOK' /\ boot'.pc = "cover"
    BY <1>1, <1>4, GotoType DEF BootInv, Places
  <2>2. FreeBytes' = Declared'
    BY <1>1, <1>3, <1>4 DEF Declared
  <2> QED
    BY <1>2, <1>3, <2>1, <2>2 DEF BootInv, MemoryInv, Idle, HaltsForCause
<1>5. CASE mbi.magic /\ mbi.mmap_valid
  <2>1. PlacesOK' /\ boot'.pc = "mmap" /\ boot'.entry = boot.entry
    BY <1>1, <1>5, GotoType DEF BootInv, Places
  <2>2. ReadEntries' = {}
    <3>1. \A i \in AvailableEntries : i \in Nat /\ i >= 1
      BY EntryWords DEF BootInv
    <3>2. AvailableEntries' = AvailableEntries
      BY <1>1 DEF AvailableEntries
    <3> QED
      BY <1>3, <2>1, <3>1, <3>2 DEF ReadEntries
  <2>3. RAMRead' = {} /\ Cardinality(ReadEntries') = 0
    BY <2>2, FS_EmptySet DEF RAMRead
  <2> QED
    BY <1>1, <1>2, <1>3, <1>5, <2>1, <2>3 DEF BootInv, MemoryInv, Declaring, HaltsForCause
<1>6. CASE mbi.magic /\ ~ mbi.mmap_valid
  <2>1. PlacesOK' /\ boot'.pc = "halted"
    BY <1>1, <1>6, GotoType DEF BootInv, Places
  <2> QED
    BY <1>1, <1>2, <1>6, <2>1 DEF BootInv, MemoryInv, HaltsForCause
<1> QED
  BY <1>4, <1>5, <1>6

(* insert_area uses at most one slot more.                                 *)
LEMMA InsertCount ==
  ASSUME TypeOK, NEW start, NEW size, insert_area(start, size)
  PROVE  free_memory_area_index' <= free_memory_area_index + 1
<1>1. free_memory_area_index \in Nat
  BY PlacementAssumption DEF TypeOK
<1>2. \/ free_memory_area_index' = free_memory_area_index
      \/ free_memory_area_index' = free_memory_area_index - 1
      \/ free_memory_area_index' = free_memory_area_index + 1
  <2>1. ASSUME NEW c, insert_collides(c, start, size)
        PROVE  free_memory_area_index' = free_memory_area_index
    BY <2>1 DEF insert_collides, Refuse, table
  <2>2. ASSUME NEW c, insert_accepted(c, start, size)
        PROVE  \/ free_memory_area_index' = free_memory_area_index
               \/ free_memory_area_index' = free_memory_area_index - 1
               \/ free_memory_area_index' = free_memory_area_index + 1
    BY <2>2
    DEF insert_accepted, insert_merge_predecessor, insert_merge_both,
        insert_merge_successor, insert_store
  <2> QED
    BY <2>1, <2>2 DEF insert_area, insert_full, insert_empty, Refuse, table
<1> QED
  BY <1>1, <1>2

(* There are finitely many entries.                                        *)
LEMMA EntriesFinite ==
  ASSUME PlacesOK, OrdinaryMaps
  PROVE  /\ IsFiniteSet(AvailableEntries) /\ IsFiniteSet(ReadEntries)
         /\ Cardinality(ReadEntries) \in Nat
<1>1. mbi.mmap \in Seq(MemoryMapEntry)
  BY BootAssumption DEF PlacesOK
<1>2. IsFiniteSet(1 .. Len(mbi.mmap))
  BY <1>1, FS_Interval
<1>3. AvailableEntries \subseteq 1 .. Len(mbi.mmap) /\ ReadEntries \subseteq AvailableEntries
  BY <1>1 DEF AvailableEntries, ReadEntries
<1> QED
  BY <1>2, <1>3, FS_Subset, FS_CardinalityType

(* An entry of available RAM is declared behind the ones before it.        *)
LEMMA ReadsEntry ==
  ASSUME BootInv, OrdinaryMaps, At("mmap"), NEW e \in AvailableEntries, e = boot.entry,
         NEW start, NEW size,
         start = mbi.mmap[e].base_addr_low, size = mbi.mmap[e].length_low
  PROVE  /\ start \in Addr /\ size \in Addr
         /\ Declarable(start, size)
         /\ Bytes(start, size) \cap FreeBytes = {}
<1>1. /\ PlacesOK /\ UsageInv /\ Declaring /\ FreeBytes = RAMRead
      /\ TypeOK /\ Separated
  BY DEF BootInv, MemoryInv, UsageInv
<1>2. start \in Word /\ size \in Word
  BY <1>1, EntryWords
<1>3. start \in Addr /\ size \in Addr /\ start + size < W
  BY <1>2, WordSizes DEF Word
<1>4. ASSUME NEW b \in FreeBytes
      PROVE  b \in Addr /\ b < start
  <2>1. PICK i \in ReadEntries : b \in RAMOf(mbi.mmap[i])
    BY <1>1 DEF RAMRead
  <2>2. i \in AvailableEntries /\ i < e
    BY DEF ReadEntries
  <2>3. b \in Bytes(mbi.mmap[i].base_addr_low, mbi.mmap[i].length_low)
        /\ mbi.mmap[i].base_addr_low \in Word /\ mbi.mmap[i].length_low \in Word
    BY <1>1, <2>1, <2>2, EntryWords
  <2>4. mbi.mmap[i].base_addr_low + mbi.mmap[i].length_low <= start
    BY <1>1, <2>2, EntriesAscend
  <2> QED
    BY <1>2, <2>3, <2>4, WordSizes DEF Bytes, Word
<1>6. \A i \in Used : free_memory_areas[i].start < start
  <2> SUFFICES ASSUME NEW i \in Used PROVE free_memory_areas[i].start < start
    OBVIOUS
  <2>1. /\ free_memory_areas[i].start \in Addr /\ free_memory_areas[i].size \in Addr
        /\ free_memory_areas[i].size > 0
    BY <1>1, ExactEnds
  <2>2. free_memory_areas[i].start \in FreeBytes
    BY <2>1, WordSizes DEF FreeBytes
  <2> QED
    BY <1>4, <2>2
<1>7. Bytes(start, size) \cap FreeBytes = {}
  BY <1>3, <1>4 DEF Bytes
<1> QED
  BY <1>1, <1>3, <1>6, <1>7 DEF Declarable

(* An entry of the map: available RAM becomes free, or main gives up.      *)
LEMMA ProcessEntry ==
  ASSUME BootInv, OrdinaryMaps, process_entry
  PROVE  BootInv'
<1> DEFINE e == boot.entry
           start == mbi.mmap[e].base_addr_low
           size == mbi.mmap[e].length_low
<1>1. /\ At("mmap") /\ e <= Len(mbi.mmap)
      /\ UNCHANGED <<mbi, placement_memory_address, used, blocked>>
  BY DEF process_entry
<1>2. /\ UsageInv /\ PlacesOK /\ mbi.magic /\ Declaring /\ blocked = {}
      /\ FreeBytes = RAMRead
      /\ free_memory_area_index <= Cardinality(ReadEntries)
      /\ TypeOK /\ Separated /\ CleanTail
  BY <1>1 DEF BootInv, MemoryInv, UsageInv
<1>3. e \in DOMAIN mbi.mmap /\ e \in Nat \ {0}
  BY <1>1, <1>2, BootAssumption DEF PlacesOK
<1>4. UNCHANGED <<AvailableEntries, AvailableRAM, Unreserved, Declared, Room>>
  BY <1>1, MapKept
<1>5. UNCHANGED vars => FreeBytes' = FreeBytes /\ call' = call
  BY DEF vars, FreeBytes, Used
<1>6. ASSUME boot' = NextEntry
      PROVE  /\ PlacesOK' /\ boot'.pc = "mmap"
             /\ ReadEntries' = ReadEntries \cup ({e} \cap AvailableEntries)
             /\ RAMRead' = RAMRead \cup UNION {RAMOf(mbi.mmap[i]) : i \in {e} \cap AvailableEntries}
  <2>1. PlacesOK' /\ boot'.pc = "mmap" /\ boot'.entry = e + 1
    BY <1>1, <1>2, <1>6 DEF PlacesOK, NextEntry
  <2>2. \A i \in AvailableEntries : i < e + 1 <=> i < e \/ i = e
    BY <1>2, <1>3, EntryWords
  <2>3. ReadEntries' = ReadEntries \cup ({e} \cap AvailableEntries)
    BY <1>4, <2>1, <2>2 DEF ReadEntries
  <2>4. \A i : RAMOf(mbi'.mmap[i]) = RAMOf(mbi.mmap[i])
    BY <1>1
  <2>5. RAMRead' = UNION {RAMOf(mbi.mmap[i]) : i \in ReadEntries'}
    BY <1>1 DEF RAMRead, RAMOf, Bytes
  <2> QED
    BY <2>1, <2>3, <2>5 DEF RAMRead
<1>7. CASE ~ IsAvailable(mbi.mmap[e])
  <2>1. UNCHANGED vars /\ boot' = NextEntry
    BY <1>7 DEF process_entry
  <2>2. e \notin AvailableEntries
    BY <1>7 DEF AvailableEntries, IsAvailable
  <2>3. /\ PlacesOK' /\ boot'.pc = "mmap"
        /\ ReadEntries' = ReadEntries /\ RAMRead' = RAMRead
    BY <1>6, <2>1, <2>2
  <2>4. UsageInv'
    BY <2>1, TableKept
  <2>5. Declaring' /\ FreeBytes' = FreeBytes
        /\ free_memory_area_index' = free_memory_area_index
    BY <1>2, <2>1 DEF vars, Declaring, FreeBytes, Used
  <2> QED
    BY <1>1, <1>2, <2>3, <2>4, <2>5 DEF BootInv, MemoryInv, HaltsForCause
<1>8. CASE IsAvailable(mbi.mmap[e])
  <2>1. e \in AvailableEntries
    BY <1>3, <1>8 DEF AvailableEntries, IsAvailable
  <2>2. /\ start \in Addr /\ size \in Addr /\ Declarable(start, size)
        /\ Bytes(start, size) \cap FreeBytes = {}
    BY <1>1, <2>1, ReadsEntry
  <2>3. RAMOf(mbi.mmap[e]) = Bytes(start, size)
    BY <1>2, <2>1, EntryWords
  <2>4. /\ insert_area(start, size)
        /\ boot' = IF call'.ret # 0 THEN [boot EXCEPT !.pc = "halted"] ELSE NextEntry
    <3>1. /\ Combined(mbi.mmap[e].base_addr_high, mbi.mmap[e].base_addr_low) = start
          /\ Combined(mbi.mmap[e].length_high, mbi.mmap[e].length_low) = size
      BY <1>2, <2>1, EntryWords
    <3> QED
      BY <1>8, <3>1 DEF process_entry
  <2> HIDE DEF start, size
  <2>5. UsageInv'
    BY <2>2, <2>4, TableKept DEF UsageNext
  <2>6. /\ IsFiniteSet(AvailableEntries) /\ IsFiniteSet(ReadEntries)
        /\ Cardinality(ReadEntries) \in Nat
        /\ e \notin ReadEntries
        /\ IsFiniteSet(ReadEntries \cup {e})
        /\ Cardinality(ReadEntries \cup {e}) = Cardinality(ReadEntries) + 1
    <3>1. e \notin ReadEntries
      BY <1>3 DEF ReadEntries
    <3> QED
      BY <1>2, <3>1, EntriesFinite, FS_AddElement
  <2>7. ASSUME call'.ret # 0, HaltsForCause'
        PROVE  BootInv'
    <3>1. Goto("halted") /\ "halted" \in Places
      BY <2>4, <2>7 DEF Goto, Places
    <3>2. PlacesOK' /\ boot'.pc = "halted"
      BY <1>1, <1>2, <3>1, GotoType
    <3> QED
      BY <2>5, <2>7, <3>2 DEF BootInv, MemoryInv
  <2>8. CASE /\ free_memory_area_index = MAX_MEMORY_AREAS_SIZE
             /\ Return("insert", start, size, -1) /\ FreeBytes' = FreeBytes
    <3>1. ReadEntries \cup {e} \subseteq AvailableEntries
      BY <2>1 DEF ReadEntries
    <3>2. /\ Cardinality(ReadEntries \cup {e}) <= Cardinality(AvailableEntries)
          /\ Cardinality(AvailableEntries) \in Nat
      BY <2>6, <3>1, FS_Subset, FS_CardinalityType
    <3>3. Cardinality(AvailableEntries) > MAX_MEMORY_AREAS_SIZE
      BY <1>2, <2>6, <2>8, <3>2, PlacementAssumption
    <3>4. call'.ret # 0 /\ HaltsForCause'
      BY <1>4, <2>8, <3>3 DEF Return, HaltsForCause
    <3> QED
      BY <2>7, <3>4
  <2>9. CASE size = 0 /\ Return("insert", start, size, -2)
    <3>1. Bytes(start, size) = {}
      BY <2>2, <2>9, WordSizes DEF Bytes
    <3>2. \E i \in AvailableEntries' : (RAMOf(mbi.mmap[i]))' = {}
      BY <1>1, <1>4, <2>1, <2>3, <3>1 DEF RAMOf, Bytes
    <3>3. call'.ret # 0 /\ HaltsForCause'
      BY <2>9, <3>2 DEF Return, HaltsForCause
    <3> QED
      BY <2>7, <3>3
  <2>10. CASE /\ Return("insert", start, size, 0)
              /\ FreeBytes' = FreeBytes \cup Bytes(start, size)
    <3>1. boot' = NextEntry /\ call'.op = "insert"
      BY <2>4, <2>10 DEF Return
    <3>2. /\ PlacesOK' /\ boot'.pc = "mmap"
          /\ ReadEntries' = ReadEntries \cup {e}
          /\ RAMRead' = RAMRead \cup Bytes(start, size)
      BY <1>6, <2>1, <2>3, <3>1
    <3>3. free_memory_area_index' <= free_memory_area_index + 1
      BY <1>2, <2>4, InsertCount
    <3>4. /\ free_memory_area_index \in Nat /\ free_memory_area_index' \in Nat
      BY <1>2, <2>5, PlacementAssumption DEF TypeOK, UsageInv
    <3>5. free_memory_area_index' <= Cardinality(ReadEntries')
      BY <1>2, <2>6, <3>2, <3>3, <3>4
    <3> QED
      BY <1>1, <1>2, <2>5, <2>10, <3>1, <3>2, <3>5
      DEF BootInv, MemoryInv, Declaring, HaltsForCause
  <2> QED
    BY <1>2, <2>2, <2>4, <2>8, <2>9, <2>10, InsertBytes
<1> QED
  BY <1>7, <1>8

(* Behind the last entry all available RAM is free.                        *)
LEMMA EndOfMap ==
  ASSUME BootInv, OrdinaryMaps, end_of_map
  PROVE  BootInv'
<1>1. /\ At("mmap") /\ boot.entry > Len(mbi.mmap)
      /\ Goto(IF mbi.calls THEN "elf" ELSE "cover")
      /\ UNCHANGED <<vars, mbi, placement_memory_address, used, blocked>>
  BY DEF end_of_map
<1>2. /\ PlacesOK /\ mbi.magic /\ Declaring /\ blocked = {} /\ FreeBytes = RAMRead
  BY <1>1 DEF BootInv, MemoryInv
<1>3. UsageInv'
  BY <1>1, TableKept
<1>4. ReadEntries = AvailableEntries
  BY <1>1, <1>2, EntryWords DEF ReadEntries, PlacesOK
<1>5. FreeBytes = Declared
  BY <1>2, <1>4 DEF Declared, RAMRead, AvailableRAM
<1>6. FreeBytes' = FreeBytes /\ Idle'
  BY <1>1, <1>2 DEF FreeBytes, Used, vars, Idle, Declaring
<1>7. Declared' = Declared
  BY <1>1, MapKept
<1>8. PlacesOK' /\ boot'.pc \in {"elf", "cover"}
  <2>1. CASE mbi.calls
    BY <1>1, <1>2, <2>1, GotoType DEF Places
  <2>2. CASE ~ mbi.calls
    BY <1>1, <1>2, <2>2, GotoType DEF Places
  <2> QED
    BY <2>1, <2>2
<1> QED
  BY <1>1, <1>2, <1>3, <1>5, <1>6, <1>7, <1>8 DEF BootInv, MemoryInv, HaltsForCause

(* A range of two words lies in the address space.  It is taken from the   *)
(* free bytes if it can be, and the memory is as it was if it cannot.      *)
LEMMA BlockRange ==
  ASSUME BootInv, NEW start \in Word, NEW size \in Word, Block(start, size),
         UNCHANGED mbi, mbi.magic, FreeBytes = Declared
  PROVE  UsageInv' /\ Idle' /\ FreeBytes' = Declared'
<1>1. /\ start \in Addr /\ size \in Addr /\ InAddressSpace(start, size)
  BY WordSizes DEF Word, InAddressSpace
<1>2. /\ allocate_area(start, size)
      /\ blocked' = IF call'.ret = 0 THEN blocked \cup Bytes(start, size) ELSE blocked
  BY DEF Block
<1>3. UsageInv'
  BY <1>1, <1>2, TableKept DEF UsageNext
<1>4. AvailableRAM' = AvailableRAM
  BY DEF AvailableRAM, AvailableEntries, RAMOf, Bytes
<1>5. /\ call'.op = "allocate_area"
      /\ FreeBytes' = IF call'.ret = 0 THEN FreeBytes \ Bytes(start, size) ELSE FreeBytes
  <2> DEFINE B == Bytes(start, size)
  <2>1. \/ \E ret \in {-1, -2, -3, -4, -5} :
             Return("allocate_area", start, size, ret) /\ FreeBytes' = FreeBytes
        \/ Return("allocate_area", start, size, 0) /\ FreeBytes' = FreeBytes \ B
    BY <1>1, <1>2, AllocateAreaBytes DEF BootInv, UsageInv
  <2> HIDE DEF B
  <2>2. CASE \E ret \in {-1, -2, -3, -4, -5} :
               Return("allocate_area", start, size, ret) /\ FreeBytes' = FreeBytes
    BY <2>2 DEF Return
  <2>3. CASE Return("allocate_area", start, size, 0) /\ FreeBytes' = FreeBytes \ B
    BY <2>3 DEF Return, B
  <2> QED
    BY <2>1, <2>2, <2>3
<1> QED
  BY <1>2, <1>3, <1>4, <1>5 DEF Declared, Idle

(* The memory of the kernel file is blocked, if it can be.                 *)
LEMMA ProcessELF ==
  ASSUME BootInv, OrdinaryMaps, processELF
  PROVE  BootInv'
<1>1. /\ At("elf") /\ Goto("mods")
      /\ UNCHANGED <<mbi, placement_memory_address, used>>
  BY DEF processELF
<1>2. /\ PlacesOK /\ mbi.magic /\ Idle /\ FreeBytes = Declared
  BY <1>1 DEF BootInv, MemoryInv
<1>3. PlacesOK' /\ boot'.pc = "mods"
  BY <1>1, <1>2, GotoType DEF Places
<1>4. UsageInv' /\ Idle' /\ FreeBytes' = Declared'
  <2>1. CASE mbi.elf_valid
    <3>1. Block(mbi.elf_sec.addr, mbi.elf_sec.size)
      BY <2>1 DEF processELF
    <3>2. mbi.elf_sec.addr \in Word /\ mbi.elf_sec.size \in Word
      BY <1>2, BootAssumption DEF PlacesOK
    <3> QED
      BY <1>1, <1>2, <3>1, <3>2, BlockRange
  <2>2. CASE ~ mbi.elf_valid
    <3>1. UNCHANGED <<vars, blocked>>
      BY <2>2 DEF processELF
    <3>2. UsageInv' /\ Declared' = Declared
      BY <1>1, <3>1, TableKept, MapKept
    <3> QED
      BY <1>2, <3>1, <3>2 DEF vars, FreeBytes, Used, Idle
  <2> QED
    BY <2>1, <2>2
<1> QED
  BY <1>1, <1>2, <1>3, <1>4 DEF BootInv, MemoryInv, HaltsForCause

(* The memory of a module is blocked, wherever its entry was read.         *)
LEMMA ProcessMod ==
  ASSUME BootInv, OrdinaryMaps, process_mod
  PROVE  BootInv'
<1>1. /\ At("mods") /\ boot.mod <= Len(mbi.mods)
      /\ boot' = [boot EXCEPT !.mod = @ + 1]
      /\ UNCHANGED <<mbi, placement_memory_address, used>>
  BY DEF process_mod
<1>2. /\ PlacesOK /\ mbi.magic /\ Idle /\ FreeBytes = Declared
  BY <1>1 DEF BootInv, MemoryInv
<1>3. PlacesOK' /\ boot'.pc = "mods"
  BY <1>1, <1>2 DEF PlacesOK
<1>4. PICK mod \in ModulesAt(boot.mod) :
        Block(mod.mod_start, (mod.mod_end - mod.mod_start) % WORD)
  BY DEF process_mod
<1>5. mod \in Module
  <2>1. mbi.mods \in Seq(Module) /\ boot.mod \in Nat \ {0}
    BY <1>2, BootAssumption DEF PlacesOK
  <2>2. boot.mod = 1 => mbi.mods[1] \in Module
    BY <1>1, <2>1
  <2> QED
    BY <1>4, <2>2, BootAssumption DEF ModulesAt
<1>6. mod.mod_start \in Word /\ (mod.mod_end - mod.mod_start) % WORD \in Word
  <2>1. mod.mod_start \in Word /\ mod.mod_end - mod.mod_start \in Int
    BY <1>5, WordSizes DEF Module, Word
  <2> QED
    BY <2>1, DivMod, BootAssumption DEF Word
<1>7. UsageInv' /\ Idle' /\ FreeBytes' = Declared'
  BY <1>1, <1>2, <1>4, <1>6, BlockRange
<1> QED
  BY <1>1, <1>2, <1>3, <1>7 DEF BootInv, MemoryInv, HaltsForCause

(* Behind the last module the rest of the memory is still what was left.   *)
LEMMA EndOfMods ==
  ASSUME BootInv, OrdinaryMaps, end_of_mods
  PROVE  BootInv'
<1>1. /\ At("mods") /\ Goto("cover")
      /\ UNCHANGED <<vars, mbi, placement_memory_address, used, blocked>>
  BY DEF end_of_mods
<1>2. /\ PlacesOK /\ mbi.magic /\ Idle /\ FreeBytes = Declared
  BY <1>1 DEF BootInv, MemoryInv
<1>3. PlacesOK' /\ boot'.pc = "cover"
  BY <1>1, <1>2, GotoType DEF Places
<1>4. UsageInv' /\ Declared' = Declared
  BY <1>1, TableKept, MapKept
<1>5. FreeBytes' = FreeBytes /\ Idle'
  BY <1>1, <1>2 DEF FreeBytes, Used, vars, Idle
<1> QED
  BY <1>1, <1>2, <1>3, <1>4, <1>5 DEF BootInv, MemoryInv, HaltsForCause

(* The loop that blocks the reserved memory starts with all of the room    *)
(* above it.                                                               *)
LEMMA BlockReserved ==
  ASSUME BootInv, OrdinaryMaps, block_reserved
  PROVE  BootInv'
<1>1. /\ At("cover") /\ allocate_area_cover(0, RESERVED_MEMORY_IN_BYTES)
      /\ Goto("covering")
      /\ UNCHANGED <<mbi, placement_memory_address, used, blocked>>
  BY DEF block_reserved
<1>2. /\ PlacesOK /\ Idle /\ FreeBytes = Declared
  BY <1>1 DEF BootInv, MemoryInv
<1>3. PlacesOK' /\ boot'.pc = "covering"
  BY <1>1, <1>2, GotoType DEF Places
<1>4. UsageInv'
  <2>1. /\ 0 \in Addr /\ RESERVED_MEMORY_IN_BYTES \in Addr
        /\ RESERVED_MEMORY_IN_BYTES > 0
        /\ InAddressSpace(0, RESERVED_MEMORY_IN_BYTES)
    BY BootAssumption, WordSizes DEF InAddressSpace
  <2> QED
    BY <1>1, <2>1, TableKept DEF UsageNext
<1>5. /\ call'.op = "covering"
      /\ call'.start = 0 /\ call'.size = RESERVED_MEMORY_IN_BYTES
      /\ FreeBytes' = FreeBytes
  BY <1>1 DEF allocate_area_cover, Return, table, FreeBytes, Used
<1>6. Room \subseteq Declared
  BY DEF Room, Declared, Unreserved
<1>7. Room' = Room /\ Declared' = Declared
  BY <1>1, MapKept
<1> QED
  BY <1>1, <1>2, <1>3, <1>4, <1>5, <1>6, <1>7 DEF BootInv, MemoryInv, HaltsForCause

(* The loop takes bytes of the reserved memory only.  It never needs a new *)
(* slot, for no free area begins below address 0; so it ends with none of  *)
(* the reserved memory free.                                               *)
LEMMA Blocking ==
  ASSUME BootInv, OrdinaryMaps, blocking
  PROVE  BootInv'
<1>1. /\ At("covering") /\ (cover_step \/ cover_return)
      /\ Goto(IF call'.op = "covering" THEN "covering" ELSE "allocate")
      /\ UNCHANGED <<mbi, placement_memory_address, used, blocked>>
  BY DEF blocking
<1>2. /\ UsageInv /\ TypeOK /\ Separated /\ CoverProgress /\ PlacesOK
      /\ call.op = "covering" /\ call.start = 0
      /\ call.size = RESERVED_MEMORY_IN_BYTES
      /\ Room \subseteq FreeBytes /\ FreeBytes \subseteq Declared
  <2>1. UsageInv /\ PlacesOK /\ MemoryInv
    BY DEF BootInv
  <2>2. TypeOK /\ Separated /\ CoverProgress
    BY <2>1 DEF UsageInv
  <2> QED
    BY <1>1, <2>1, <2>2 DEF MemoryInv
<1>3. UsageInv'
  BY <1>1, TableKept DEF UsageNext
<1>4. Room' = Room /\ Declared' = Declared
  BY <1>1, MapKept
<1>5. /\ RESERVED_MEMORY_IN_BYTES \in Nat
      /\ Bytes(0, RESERVED_MEMORY_IN_BYTES)
           = {b \in Addr : b < RESERVED_MEMORY_IN_BYTES}
  BY BootAssumption, WordSizes DEF Bytes
<1>6. Room \cap Bytes(0, RESERVED_MEMORY_IN_BYTES) = {}
  <2> SUFFICES ASSUME NEW b \in Addr, b < RESERVED_MEMORY_IN_BYTES,
                      b >= RESERVED_MEMORY_IN_BYTES
               PROVE  FALSE
    BY <1>5 DEF Room, Unreserved
  <2> QED
    BY <1>5, WordSizes
<1>7. Declared \ Bytes(0, RESERVED_MEMORY_IN_BYTES) \subseteq Room
  <2> SUFFICES ASSUME NEW b \in AvailableRAM, b \notin blocked, mbi.magic,
                      b \notin Bytes(0, RESERVED_MEMORY_IN_BYTES)
               PROVE  b >= RESERVED_MEMORY_IN_BYTES
    BY DEF Room, Declared, Unreserved
  <2>1. b \in Addr
    BY <1>2, RAMBelowEnd
  <2> QED
    BY <1>5, <2>1, WordSizes
<1>8. CASE cover_step
  <2>1. call.start - 1 \notin FreeBytes
    BY <1>2 DEF FreeBytes
  <2>2. /\ UNCHANGED call
        /\ FreeBytes' \subseteq FreeBytes
        /\ FreeBytes \ FreeBytes' \subseteq Bytes(0, RESERVED_MEMORY_IN_BYTES)
    BY <1>2, <1>8, <2>1, CoverBytes
  <2>3. Goto("covering")
    BY <1>1, <1>2, <2>2
  <2>4. PlacesOK' /\ boot'.pc = "covering"
    BY <1>1, <1>2, <2>3, GotoType DEF Places
  <2>5. Room' \subseteq FreeBytes' /\ FreeBytes' \subseteq Declared'
    BY <1>2, <1>4, <1>6, <2>2
  <2> QED
    BY <1>2, <1>3, <2>2, <2>4, <2>5 DEF BootInv, MemoryInv, HaltsForCause
<1>9. CASE cover_return
  <2>1. /\ Bytes(0, RESERVED_MEMORY_IN_BYTES) \cap FreeBytes = {}
        /\ FreeBytes' = FreeBytes
    BY <1>2, <1>9, CoverReturnBytes
  <2>2. call'.op = "cover"
    BY <1>9 DEF cover_return, Return
  <2>3. Goto("allocate")
    BY <1>1, <2>2
  <2>4. PlacesOK' /\ boot'.pc = "allocate"
    BY <1>1, <1>2, <2>3, GotoType DEF Places
  <2>5. FreeBytes' = Room'
    BY <1>2, <1>4, <1>7, <2>1
  <2> QED
    BY <1>3, <2>2, <2>4, <2>5 DEF BootInv, MemoryInv, Idle, HaltsForCause
<1> QED
  BY <1>1, <1>8, <1>9

(* The placement memory is the first room above the reserved memory, or    *)
(* there is none.                                                          *)
LEMMA AllocatePlacement ==
  ASSUME BootInv, OrdinaryMaps, allocate_placement
  PROVE  BootInv'
<1> DEFINE P == PLACEMENT_MEMORY_SIZE_IN_BYTES
<1>1. /\ At("allocate") /\ allocate(P)
      /\ placement_memory_address' = call'.ret
      /\ Goto(IF call'.ret = 0 THEN "halted" ELSE "frames")
      /\ UNCHANGED <<mbi, used, blocked>>
  BY DEF allocate_placement
<1>2. /\ UsageInv /\ TypeOK /\ Separated /\ PlacesOK /\ FreeBytes = Room
  BY <1>1 DEF BootInv, MemoryInv, UsageInv
<1>3. P \in Addr /\ P > 0 /\ RESERVED_MEMORY_IN_BYTES \in Nat \ {0}
  BY BootAssumption, WordSizes
<1>4. UsageInv'
  BY <1>1, <1>3, TableKept DEF UsageNext
<1>5. Unreserved' = Unreserved
  BY <1>1, MapKept
<1>6. \A a : PlacementAt(a) = Bytes(a, P)
  BY DEF PlacementAt
<1>7. \A a \in Addr : Bytes(a, P) \subseteq Unreserved => a + P <= W
  BY <1>2, <1>6, PlacementFits
<1>8. CASE /\ P = 0 \/ \A a \in Addr : a + P <= W => ~ Bytes(a, P) \subseteq FreeBytes
           /\ Return("allocate", 0, P, 0) /\ FreeBytes' = FreeBytes
  <2>1. Goto("halted")
    BY <1>1, <1>8 DEF Return
  <2>2. PlacesOK' /\ boot'.pc = "halted"
    BY <1>1, <1>2, <2>1, GotoType DEF Places
  <2>3. mbi.magic => \A a \in Addr : ~ Bytes(a, P) \subseteq Unreserved
    BY <1>2, <1>3, <1>7, <1>8 DEF Room
  <2>4. mbi'.magic => \A a \in Addr : ~ (PlacementAt(a) \subseteq Unreserved)'
    BY <1>1, <1>5, <1>6, <2>3 DEF PlacementAt, Bytes
  <2>5. HaltsForCause'
    BY <2>4 DEF HaltsForCause
  <2> QED
    BY <1>4, <2>2, <2>5 DEF BootInv, MemoryInv
<1>9. ASSUME P > 0, NEW a \in Addr,
             Return("allocate", a, P, a),
             a + P <= W, Bytes(a, P) \subseteq FreeBytes,
             \A b \in Addr : b + P <= W /\ Bytes(b, P) \subseteq FreeBytes => a <= b,
             FreeBytes' = FreeBytes \ Bytes(a, P)
      PROVE  BootInv'
  <2>1. a \in Bytes(a, P)
    BY <1>3 DEF Bytes
  <2>2. a \in Room
    BY <1>2, <1>9, <2>1
  <2>3. mbi.magic /\ Room = Unreserved /\ a >= RESERVED_MEMORY_IN_BYTES
    BY <2>2 DEF Room, Unreserved
  <2>4. placement_memory_address' = a /\ call'.ret # 0
    BY <1>1, <1>3, <1>9, <2>3, WordSizes DEF Return
  <2>5. Goto("frames")
    BY <1>1, <2>4
  <2>6. PlacesOK' /\ boot'.pc = "frames"
    BY <1>1, <1>2, <2>5, GotoType DEF Places
  <2>7. \A b \in Addr : PlacementAt(b) \subseteq Unreserved => a <= b
    BY <1>2, <1>6, <1>7, <1>9, <2>3
  <2>8. \A b : (PlacementAt(b) \subseteq Unreserved)' <=> PlacementAt(b) \subseteq Unreserved
    BY <1>5 DEF PlacementAt, Bytes
  <2>9. mbi'.magic /\ placement_memory_address' \in Addr
    BY <1>1, <2>3, <2>4
  <2>10. PlacementAt(a) \subseteq Unreserved
    BY <1>2, <1>6, <1>9, <2>3
  <2>11. Placed'
    BY <1>5, <2>4, <2>7, <2>9, <2>10 DEF Placed, PlacementAt, Bytes
  <2> QED
    BY <1>4, <2>6, <2>11 DEF BootInv, MemoryInv, HaltsForCause
<1> QED
  BY <1>1, <1>2, <1>3, <1>8, <1>9, AllocateBytes

(* The frames up to the end of the placement memory are marked, or the     *)
(* bitmap is too small.                                                    *)
LEMMA MarkFrames ==
  ASSUME BootInv, OrdinaryMaps, mark_frames
  PROVE  BootInv'
<1>1. /\ At("frames")
      /\ UNCHANGED <<vars, mbi, placement_memory_address, blocked>>
  BY DEF mark_frames
<1>2. PlacesOK /\ Placed
  BY <1>1 DEF BootInv, MemoryInv
<1>3. UsageInv' /\ Unreserved' = Unreserved
  BY <1>1, TableKept, MapKept
<1>4. CASE FrameCount < MarkedFrames
  <2>1. Goto("halted")
    BY <1>4 DEF mark_frames
  <2>2. PlacesOK' /\ boot'.pc = "halted"
    BY <1>1, <1>2, <2>1, GotoType DEF Places
  <2> QED
    BY <1>3, <1>4, <2>2 DEF BootInv, MemoryInv, HaltsForCause, MarkedFrames
<1>5. CASE ~ (FrameCount < MarkedFrames)
  <2>1. used' = 0 .. MarkedFrames - 1 /\ Goto("up")
    BY <1>5 DEF mark_frames
  <2>2. PlacesOK' /\ boot'.pc = "up"
    BY <1>1, <1>2, <2>1, GotoType DEF Places
  <2>3. Placed'
    BY <1>1, <1>2, <1>3 DEF Placed, PlacementAt, Bytes
  <2> QED
    BY <1>3, <2>1, <2>2, <2>3 DEF BootInv, MemoryInv, HaltsForCause, MarkedFrames
<1> QED
  BY <1>4, <1>5

-----------------------------------------------------------------------------
\* The theorems

(* The boot loader starts the kernel in a state of the invariant.          *)
LEMMA BootStarts ==
  ASSUME BootInit
  PROVE  BootInv
<1>1. /\ Init /\ mbi \in BootInfos
      /\ boot = [pc |-> "begin", entry |-> 1, mod |-> 1]
      /\ blocked = {}
  BY DEF BootInit
<1>2. UsageInv
  <2>1. TypeOK
    BY <1>1, PlacementAssumption DEF Init, TypeOK, Slots, Area, Cleared
  <2>2. Separated /\ CleanTail /\ CoverProgress
    BY <1>1 DEF Init, Separated, CleanTail, CoverProgress, Slots, Used
  <2> QED
    BY <2>1, <2>2 DEF UsageInv
<1>3. PlacesOK /\ boot.pc = "begin" /\ boot.entry = 1
  BY <1>1 DEF PlacesOK, Places
<1>4. Idle
  BY <1>1 DEF Init, Idle
<1> QED
  BY <1>1, <1>2, <1>3, <1>4 DEF BootInv, MemoryInv, HaltsForCause

(* Every step of main preserves the invariant.                             *)
LEMMA BootStep ==
  ASSUME BootInv, OrdinaryMaps, [BootNext]_bootVars
  PROVE  BootInv'
<1>1. CASE UNCHANGED bootVars
  <2>1. UsageInv'
    BY <1>1, TableKept DEF bootVars
  <2>2. PlacesOK' <=> PlacesOK
    BY <1>1 DEF bootVars, PlacesOK
  <2>3. MemoryInv' <=> MemoryInv
    <3>1. /\ UNCHANGED <<AvailableEntries, AvailableRAM, Unreserved, Declared, Room>>
      BY <1>1, MapKept DEF bootVars
    <3>2. UNCHANGED <<ReadEntries, FreeBytes>>
      BY <1>1, <3>1 DEF bootVars, vars, ReadEntries, FreeBytes, Used
    <3>3. UNCHANGED RAMRead
      BY <1>1, <3>2 DEF bootVars, RAMRead, RAMOf, Bytes
    <3>4. UNCHANGED <<Placed, HaltsForCause>>
      BY <1>1, <3>1
      DEF bootVars, Placed, PlacementAt, HaltsForCause, RAMOf, Bytes, MarkedFrames
    <3>5. UNCHANGED <<Idle, Declaring>>
      BY <1>1 DEF bootVars, vars, Idle, Declaring
    <3> QED
      BY <1>1, <3>1, <3>2, <3>3, <3>4, <3>5
      DEF bootVars, vars, MemoryInv, MarkedFrames
  <2> QED
    BY <2>1, <2>2, <2>3 DEF BootInv
<1> QED
  BY <1>1, Begin, ProcessEntry, EndOfMap, ProcessELF, ProcessMod, EndOfMods,
     BlockReserved, Blocking, AllocatePlacement, MarkFrames
  DEF BootNext

(* While main runs, the free bytes are what the entries read so far say,   *)
(* less what has been blocked: the invariant behind the other theorems.    *)
THEOREM BootInvariant ==
  ASSUME OrdinaryMaps
  PROVE  BootSpec => []BootInv
<1>1. BootInit => BootInv
  BY BootStarts
<1>2. BootInv /\ [BootNext]_bootVars => BootInv'
  BY BootStep
<1> QED
  BY <1>1, <1>2, PTL DEF BootSpec

(* The placement memory of a kernel that came up is available RAM, behind  *)
(* the reserved memory and apart from what was blocked.                    *)
THEOREM PlacementFound ==
  ASSUME OrdinaryMaps
  PROVE  BootSpec => []PlacementInRAM
<1>1. BootInv => PlacementInRAM
  BY DEF BootInv, MemoryInv, PlacementInRAM, Placed
<1> QED
  BY <1>1, BootInvariant, PTL

(* A kernel that gave up had one of the causes.                            *)
THEOREM HaltsExplained ==
  ASSUME OrdinaryMaps
  PROVE  BootSpec => []HaltsForCause
<1>1. BootInv => HaltsForCause
  BY DEF BootInv, MemoryInv
<1> QED
  BY <1>1, BootInvariant, PTL

(* Where RAM goes on behind the reserved memory, the lowest room is there, *)
(* and the frames up to its end are the ones that main marks.              *)
THEOREM FramesReserved ==
  ASSUME OrdinaryMaps
  PROVE  BootSpec => []ContiguousRAMMarked
<1> DEFINE R == RESERVED_MEMORY_IN_BYTES
           P == PLACEMENT_MEMORY_SIZE_IN_BYTES
<1>1. /\ R \in Addr /\ P \in Addr /\ R > 0 /\ P > 0
      /\ FRAME_SIZE \in Nat \ {0} /\ (R + P) % FRAME_SIZE = 0
  BY BootAssumption, WordSizes
<1>2. R + P = MarkedFrames * FRAME_SIZE /\ MarkedFrames \in Nat
  <2>1. R + P \in Int /\ R + P >= 0
    BY <1>1, WordSizes
  <2>2. (R + P) \div FRAME_SIZE \in Int
        /\ R + P = FRAME_SIZE * ((R + P) \div FRAME_SIZE) + ((R + P) % FRAME_SIZE)
    BY <1>1, <2>1, DivMod
  <2>3. (R + P) \div FRAME_SIZE >= 0
    BY <1>1, <2>1
  <2> QED
    BY <1>1, <2>2, <2>3 DEF MarkedFrames
<1>3. ASSUME BootInv, At("up"), PlacementAt(R) \subseteq Unreserved
      PROVE  /\ placement_memory_address = R
             /\ \A b \in PlacementAt(R) : b \div FRAME_SIZE \in used
  <2>1. Placed /\ used = 0 .. MarkedFrames - 1
    BY <1>3 DEF BootInv, MemoryInv
  <2>2. placement_memory_address \in Addr /\ placement_memory_address <= R
    BY <1>1, <1>3, <2>1 DEF Placed
  <2>3. placement_memory_address \in PlacementAt(placement_memory_address)
    BY <1>1, <2>2, WordSizes DEF PlacementAt, Bytes
  <2>4. placement_memory_address >= R
    BY <2>1, <2>3 DEF Placed, Unreserved
  <2>5. ASSUME NEW b \in PlacementAt(R)
        PROVE  b \div FRAME_SIZE \in 0 .. MarkedFrames - 1
    <3>1. b \in Addr /\ b < R + P
      BY DEF PlacementAt, Bytes
    <3>2. b \in 0 .. MarkedFrames * FRAME_SIZE - 1
      BY <1>1, <1>2, <3>1, WordSizes
    <3> QED
      BY <1>1, <1>2, <3>2, DivBelow
  <2> QED
    BY <1>1, <2>1, <2>2, <2>4, <2>5, WordSizes
<1>4. BootInv => ContiguousRAMMarked
  BY <1>3 DEF ContiguousRAMMarked
<1> QED
  BY <1>4, BootInvariant, PTL
=============================================================================
