------------------------------- MODULE Paging -------------------------------
(***************************************************************************)
(* Demand paging: paging_setup (kernel.c) builds the identity mapping and  *)
(* turns paging on; from then on an access to an unmapped page traps to    *)
(* page_fault_interrupt_handler, whose setup_page (paging.c) takes frames  *)
(* from the bitmap, writes the directory and the table through the         *)
(* recursive mapping, and returns to the instruction, which is tried again.*)
(*                                                                         *)
(* A page is <<directory index, table index>>.  memory holds what a walk   *)
(* of the MMU can read: the frames as tables.  The bitmap is its set of    *)
(* used frames, which FrameBitmap shows to be what bitmap.c implements.    *)
(* The write bit is left out: the kernel runs in ring 0 with CR0.WP clear. *)
(***************************************************************************)
EXTENDS Integers, FiniteSetsExt

CONSTANTS
  ENTRIES,              \* entries of a directory or table: 1024
  FRAME_SIZE,           \* bytes in a frame: 0x1000
  FrameCount,           \* frames the bitmap knows
  page_table_count,     \* tables of the identity mapping
  PLACEMENT_FRAMES,     \* frames of the placement memory
  PlacementStarts       \* addresses the placement memory may have been given

LAST == ENTRIES - 1
Frames == 0 .. FrameCount - 1
Indices == 0 .. LAST
Pages == Indices \X Indices

\* The reserved memory that the bitmap and the identity mapping start with.
ReservedFrames == page_table_count * ENTRIES

\* main has made sure that the bitmap covers both memories (mark_frames of
\* Boot).  The placement memory follows the reserved one, as it does where RAM
\* goes on there (ContiguousRAMMarked of Boot), and has room for the alignment,
\* the directory and the tables: 5 MB for 44 KB.
ASSUME PagingAssumption ==
  /\ ENTRIES \in Nat \ {0, 1} /\ FRAME_SIZE \in Nat \ {0}
  /\ page_table_count \in 1 .. ENTRIES - 1
  /\ FrameCount \in Nat /\ PLACEMENT_FRAMES \in Nat
  /\ ReservedFrames + PLACEMENT_FRAMES <= FrameCount
  /\ PlacementStarts \subseteq Nat
  /\ \A address \in PlacementStarts :
       address \div FRAME_SIZE \in
         ReservedFrames .. ReservedFrames + PLACEMENT_FRAMES - page_table_count - 2

VARIABLES
  used,                      \* the frames marked in the bitmap
  memory,                    \* the entries in every frame
  placement_memory_address,
  cr3,                       \* frame of the page directory, NONE: paging is off
  interrupt_handlers,        \* the vectors that have a handler
  cpu                        \* [pc, page]: where it is and the page it accesses

vars == <<used, memory, placement_memory_address, cr3, interrupt_handlers, cpu>>

NONE == -1
PAGE_FAULT == 14

Entry(frame, present) == [frame |-> frame, present |-> present]

\* What a frame that was never written holds: anything, here present entries.
Junk == [i \in Indices |-> Entry(0, TRUE)]

\* (mutant) the search runs off the end when every frame is used
next_frame_unchecked ==
  IF Frames \subseteq used THEN FrameCount ELSE Min(Frames \ used)

next_free_frame_index == IF Frames \subseteq used THEN -1 ELSE Min(Frames \ used)

\* (mutant) set forgotten
Unmarked(frame) == used

\* the bitmap after set(frame, 1)
Marked(frame) == used \cup {frame}

\* The walk of the MMU: the frame of a page, or NONE.
Translate(page) ==
  LET pde == memory[cr3][page[1]]
      pte == memory[pde.frame][page[2]]
  IN  IF pde.present /\ pte.present THEN pte.frame ELSE NONE

\* setup_page reaches the directory at 0xFFFFF000 and the table of
\* directory entry d at 0xFFC00000 + d * 0x1000.
DirectoryWindow == Translate(<<LAST, LAST>>)
TableWindow(d) == Translate(<<LAST, d>>)

-----------------------------------------------------------------------------
\* allocate_frame_aligned moves every address from FRAME_SIZE on to the next
\* boundary, also one that is on a boundary.
Aligned(address) ==
  IF address \div FRAME_SIZE # 0
  THEN (address \div FRAME_SIZE + 1) * FRAME_SIZE ELSE address

IdentityTable(base, n) ==
  [i \in Indices |-> IF i = LAST THEN Entry(base + 1 + n, TRUE)
                     ELSE Entry(n * ENTRIES + i, TRUE)]

\* (mutant) the directory does not refer to itself
DirectoryWithoutTrick(base) ==
  [i \in Indices |-> IF i < page_table_count THEN Entry(base + 1 + i, TRUE)
                     ELSE Entry(0, FALSE)]

Directory(base) ==
  [i \in Indices |-> IF i < page_table_count THEN Entry(base + 1 + i, TRUE)
                     ELSE IF i = LAST THEN Entry(base, TRUE)
                     ELSE Entry(0, FALSE)]

paging_setup ==
  LET base == Aligned(placement_memory_address) \div FRAME_SIZE IN
  /\ cr3 = NONE
  /\ placement_memory_address' = (base + 1 + page_table_count) * FRAME_SIZE
  /\ memory' = [f \in Frames |->
       IF f = base THEN Directory(base)
       ELSE IF f \in base + 1 .. base + page_table_count
            THEN IdentityTable(base, f - base - 1) ELSE memory[f]]
  /\ interrupt_handlers' = interrupt_handlers \cup {PAGE_FAULT}
  /\ cr3' = base
  /\ UNCHANGED <<used, cpu>>

-----------------------------------------------------------------------------
\* An instruction of the program reads or writes a page.
begin_access(page) ==
  /\ cr3 # NONE
  /\ cpu.pc = "run"
  /\ cpu' = [pc |-> "access", page |-> page]
  /\ UNCHANGED <<used, memory, placement_memory_address, cr3, interrupt_handlers>>

\* The page is mapped: the access is made.  A write may put anything there.
complete_access ==
  /\ cpu.pc = "access"
  /\ Translate(cpu.page) # NONE
  /\ \/ memory' = [memory EXCEPT ![Translate(cpu.page)] = Junk]
     \/ UNCHANGED memory
  /\ cpu' = [cpu EXCEPT !.pc = "run"]
  /\ UNCHANGED <<used, placement_memory_address, cr3, interrupt_handlers>>

\* The page is not mapped: the CPU traps and isr_handler calls the handler.
isr_handler ==
  /\ cpu.pc = "access"
  /\ Translate(cpu.page) = NONE
  /\ cpu' = [cpu EXCEPT !.pc = IF PAGE_FAULT \in interrupt_handlers
                               THEN "fault" ELSE "access"]
  /\ UNCHANGED <<used, memory, placement_memory_address, cr3, interrupt_handlers>>

\* setup_page, first part: a frame for a page table, wanted or not.  Without
\* one the handler returns and the instruction is tried again.
take_table_frame ==
  LET frame == next_free_frame_index IN
  /\ cpu.pc = "fault"
  /\ IF frame < 0
     THEN cpu' = [cpu EXCEPT !.pc = "access"] /\ UNCHANGED used
     ELSE /\ used' = Marked(frame)
          /\ cpu' = [pc |-> "table", page |-> cpu.page, frame |-> frame]
  /\ UNCHANGED <<memory, placement_memory_address, cr3, interrupt_handlers>>

\* All entries not present; the last one is the table itself, not present.
initialize_page_table(frame) ==
  [i \in Indices |-> Entry(IF i = LAST THEN frame ELSE 0, FALSE)]

\* (mutant) the directory entry is not tested
AbsentInDirectory(d) == FALSE

PresentInDirectory(d) == memory[DirectoryWindow][d].present

\* The table of directory entry d as 0xFFC00000 + d * 0x1000 shows it in m.
TableWindowIn(m, d) == m[m[cr3][LAST].frame][d].frame

\* (mutant) a new table keeps what its frame held
WithTableUninitialized(d, frame) ==
  [memory EXCEPT ![DirectoryWindow][d] = Entry(frame, TRUE)]

\* The directory entry is written first: the new table is cleared through it.
WithTable(d, frame) ==
  LET entered == [memory EXCEPT ![DirectoryWindow][d] = Entry(frame, TRUE)]
  IN  [entered EXCEPT ![TableWindowIn(entered, d)] = initialize_page_table(frame)]

\* Second part: the new frame becomes the table if there was none.
install_table ==
  LET d == cpu.page[1] IN
  /\ cpu.pc = "table"
  /\ memory' = IF PresentInDirectory(d) THEN memory ELSE WithTable(d, cpu.frame)
  /\ cpu' = [pc |-> "data", page |-> cpu.page]
  /\ UNCHANGED <<used, placement_memory_address, cr3, interrupt_handlers>>

\* (mutant) the present bit is not set
AbsentEntry(frame) == Entry(frame, FALSE)

PageEntry(frame) == Entry(frame, TRUE)

\* Third part: a frame for the data, entered in the table.  The handler
\* returns and the instruction is tried again.
map_page ==
  LET frame == next_free_frame_index IN
  /\ cpu.pc = "data"
  /\ IF frame < 0 THEN UNCHANGED <<used, memory>>
     ELSE /\ used' = Marked(frame)
          /\ memory' = [memory EXCEPT ![TableWindow(cpu.page[1])][cpu.page[2]] =
                                        PageEntry(frame)]
  /\ cpu' = [cpu EXCEPT !.pc = "access"]
  /\ UNCHANGED <<placement_memory_address, cr3, interrupt_handlers>>

-----------------------------------------------------------------------------
\* main has reset the bitmap and marked the reserved and the placement memory.
Init ==
  /\ used = 0 .. ReservedFrames + PLACEMENT_FRAMES - 1
  /\ memory = [f \in Frames |-> Junk]
  /\ placement_memory_address \in PlacementStarts
  /\ cr3 = NONE
  /\ interrupt_handlers = {}
  /\ cpu = [pc |-> "run", page |-> <<0, 0>>]

\* The pages a program may use: not the recursive window of setup_page, and
\* not the last page under an identity table, where the table itself appears.
ProgramPages ==
  {page \in Pages : page[1] # LAST
                    /\ (page[1] < page_table_count => page[2] # LAST)}

Continue ==
  \/ complete_access
  \/ isr_handler
  \/ take_table_frame
  \/ install_table
  \/ map_page

Next ==
  \/ paging_setup
  \/ \E page \in ProgramPages : begin_access(page)
  \/ Continue

\* The CPU goes on with an access it has begun.
Spec == Init /\ [][Next]_vars /\ WF_vars(Continue)

-----------------------------------------------------------------------------
On == cr3 # NONE

Directories == {d \in Indices : d # LAST /\ memory[cr3][d].present}
TableFrames == {cr3} \cup {memory[cr3][d].frame : d \in Directories}
MappedPages == {page \in ProgramPages : Translate(page) # NONE}

(* The variables hold frames, entries and pages.                           *)
TypeOK ==
  /\ used \subseteq Frames
  /\ memory \in [Frames -> [Indices -> [frame : Frames, present : BOOLEAN]]]
  /\ placement_memory_address \in Nat
  /\ cr3 \in Frames \cup {NONE}
  /\ interrupt_handlers \subseteq {PAGE_FAULT}
  /\ cpu.pc \in {"run", "access", "fault", "table", "data"}
  /\ cpu.page \in ProgramPages

(* No two pages of the program share a frame, and none shows a page table  *)
(* or the directory: no write of the program, which the model lets put     *)
(* anything into a frame, reaches another page or redirects a translation. *)
Isolation ==
  On => \A p \in MappedPages :
          /\ Translate(p) \notin TableFrames
          /\ \A q \in MappedPages : p # q => Translate(p) # Translate(q)

(* The bitmap knows every frame in use: the directory, the page tables and *)
(* all frames behind the pages of the program, so that next_free_frame_    *)
(* index never hands one of them out again.                                *)
InUseIsMarked ==
  On => /\ TableFrames \subseteq used
        /\ \A p \in MappedPages : Translate(p) \in used

(* setup_page never faults itself: the addresses 0xFFFFF000 and            *)
(* 0xFFC00000 + d * 0x1000 that it computes show the directory and, before *)
(* it is used, the table of the faulting page.                             *)
HandlerWindows ==
  On => /\ DirectoryWindow = cr3
        /\ cpu.pc = "data" => TableWindow(cpu.page[1]) \in TableFrames \ {cr3}

(* A translation that exists is never changed or removed, which is why     *)
(* setup_page needs no TLB flush.                                          *)
MappingsStable ==
  [][On => \A p \in MappedPages : Translate(p)' = Translate(p)]_vars

(* An access that begins while two frames are free, one for a table and    *)
(* one for the data, is completed: one page fault is enough.               *)
AccessCompletes ==
  (cpu.pc = "access" /\ Cardinality(Frames \ used) >= 2) ~> cpu.pc = "run"
=============================================================================
