------------------------- MODULE MCPlacementMemory -------------------------
(***************************************************************************)
(* Instances of PlacementMemory for TLC.  Behind the array the build may   *)
(* have anything; zeroes and an area in the middle of the address space    *)
(* stand for it.                                                           *)
(***************************************************************************)
EXTENDS PlacementMemory

MCPast == {Cleared, [start |-> 2, size |-> 1]}

-----------------------------------------------------------------------------
(* A client that declares areas inside the address space that do not       *)
(* overlap, but in any order, and then allocates: the header and the tests *)
(* ask for no order.                                                       *)
AnyOrderNext ==
  \/ \E start, size \in Addr :
       /\ Declaring /\ start + size < W
       /\ Bytes(start, size) \cap FreeBytes = {}
       /\ insert_area(start, size)
  \/ \E start, size \in Addr :
       InAddressSpace(start, size) /\ allocate_area(start, size)

AnyOrderSpec == Init /\ [][AnyOrderNext]_vars

(* placement_memory.h, allocate_area: "Used area does not overlap with any *)
(* free area --> error".  The code breaks it after an insertion below      *)
(* other areas.                                                            *)
AllocateAreaTakesFree ==
  [][\A start, size \in Addr :
       allocate_area(start, size) /\ call'.ret = 0
         => Bytes(start, size) \cap FreeBytes # {}]_vars
=============================================================================
