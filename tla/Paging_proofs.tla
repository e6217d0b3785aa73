---------------------------- MODULE Paging_proofs ----------------------------
(***************************************************************************)
(* Proofs about Paging, for every number of entries, frames and identity   *)
(* tables and every placement memory that follows the reserved memory.     *)
(***************************************************************************)
EXTENDS Paging, Arithmetic

-----------------------------------------------------------------------------
\* The inductive invariant

(* In the steps of setup_page the CPU remembers the page, and between the  *)
(* first and the second one the frame.                                     *)
CpuOK ==
  \/ cpu \in [pc : {"run", "access", "fault", "data"}, page : ProgramPages]
  \/ cpu \in [pc : {"table"}, page : ProgramPages, frame : Frames]

(* Before paging_setup nothing has been taken from the bitmap.             *)
BeforePaging ==
  ~ On => /\ cpu.pc = "run"
          /\ used = 0 .. ReservedFrames + PLACEMENT_FRAMES - 1
          /\ placement_memory_address \in PlacementStarts

(* The directory refers to itself, and every table has a frame of its own. *)
Tables ==
  On => /\ memory[cr3][LAST] = Entry(cr3, TRUE)
        /\ \A d \in Directories :
             /\ memory[cr3][d].frame # cr3
             /\ \A e \in Directories :
                  d # e => memory[cr3][d].frame # memory[cr3][e].frame

(* setup_page runs for a page that is not mapped; the frame it has taken   *)
(* for a table is marked and in no use yet; the table is there when it is  *)
(* written.                                                                *)
Handler ==
  /\ cpu.pc # "run" => On
  /\ cpu.pc \in {"fault", "table", "data"} => Translate(cpu.page) = NONE
  /\ cpu.pc = "table" =>
       /\ cpu.frame \in used \ TableFrames
       /\ \A p \in MappedPages : Translate(p) # cpu.frame
  /\ cpu.pc = "data" => cpu.page[1] \in Directories

PagingInv ==
  /\ TypeOK /\ CpuOK /\ BeforePaging
  /\ Tables /\ Isolation /\ InUseIsMarked /\ Handler

\* What MappingsStable says of a step.
Stable == On => \A p \in MappedPages : Translate(p)' = Translate(p)

-----------------------------------------------------------------------------
\* Constants, frames and translations

(* The numbers that paging_setup computes with.                            *)
LEMMA Sizes ==
  /\ ENTRIES \in Nat /\ ENTRIES > 1 /\ LAST \in Indices /\ LAST = ENTRIES - 1
  /\ page_table_count \in Nat /\ 0 < page_table_count /\ page_table_count <= LAST
  /\ ReservedFrames \in Nat /\ PLACEMENT_FRAMES \in Nat /\ FrameCount \in Nat
  /\ ReservedFrames + PLACEMENT_FRAMES <= FrameCount
  /\ ReservedFrames >= 1
  /\ NONE \notin Nat
BY PagingAssumption DEF LAST, Indices, ReservedFrames, NONE

(* A page of the program is a page, and none of the recursive window.      *)
LEMMA ProgramPage ==
  ASSUME NEW p \in ProgramPages
  PROVE  p \in Pages /\ p[1] \in Indices /\ p[2] \in Indices /\ p[1] # LAST
BY DEF ProgramPages, Pages

(* The walk of the MMU, taken apart.                                       *)
IsMapped(p) ==
  memory[cr3][p[1]].present /\ memory[memory[cr3][p[1]].frame][p[2]].present
FrameOf(p) == memory[memory[cr3][p[1]].frame][p[2]].frame

(* Every walk meets frames and entries.                                    *)
LEMMA Walk ==
  ASSUME TypeOK, On, NEW p \in Pages
  PROVE  /\ memory[cr3][p[1]] \in [frame : Frames, present : BOOLEAN]
         /\ memory[memory[cr3][p[1]].frame][p[2]] \in [frame : Frames, present : BOOLEAN]
         /\ IsMapped(p) => Translate(p) = FrameOf(p)
         /\ ~ IsMapped(p) => Translate(p) = NONE
         /\ Translate(p) # NONE <=> IsMapped(p)
         /\ Translate(p) # NONE => Translate(p) \in Frames
<1>1. p[1] \in Indices /\ p[2] \in Indices /\ cr3 \in Frames
  BY DEF Pages, TypeOK, On
<1>2. memory[cr3] \in [Indices -> [frame : Frames, present : BOOLEAN]]
  BY <1>1 DEF TypeOK
<1>3. memory[cr3][p[1]] \in [frame : Frames, present : BOOLEAN]
  BY <1>1, <1>2
<1>4. memory[memory[cr3][p[1]].frame] \in [Indices -> [frame : Frames, present : BOOLEAN]]
  BY <1>3 DEF TypeOK
<1>5. memory[memory[cr3][p[1]].frame][p[2]] \in [frame : Frames, present : BOOLEAN]
  BY <1>1, <1>4
<1>6. Frames \subseteq Nat
  BY Sizes DEF Frames
<1> QED
  BY <1>3, <1>5, <1>6, Sizes DEF Translate, IsMapped, FrameOf

(* A present entry of the directory leads to a table; only entries of      *)
(* tables and of the directory decide where a page of the program is.      *)
LEMMA TableOf ==
  ASSUME TypeOK, On, NEW p \in ProgramPages, memory[cr3][p[1]].present
  PROVE  /\ p[1] \in Directories
         /\ memory[cr3][p[1]].frame \in TableFrames
BY ProgramPage DEF Directories, TableFrames

(* The directory is where setup_page looks for it.                         *)
LEMMA DirectoryFound ==
  ASSUME TypeOK, On, Tables
  PROVE  DirectoryWindow = cr3
<1>1. <<LAST, LAST>> \in Pages /\ cr3 \in Frames
  BY Sizes DEF Pages, On, TypeOK
<1>2. memory[cr3][LAST].frame = cr3 /\ memory[cr3][LAST].present
  BY DEF Tables, Entry
<1>3. IsMapped(<<LAST, LAST>>) /\ FrameOf(<<LAST, LAST>>) = cr3
  BY <1>2 DEF IsMapped, FrameOf
<1> QED
  BY <1>1, <1>3, Walk DEF DirectoryWindow

(* And so is the table of a directory entry that is present.               *)
LEMMA TableFound ==
  ASSUME TypeOK, On, Tables, NEW d \in Directories
  PROVE  TableWindow(d) = memory[cr3][d].frame
<1>1. <<LAST, d>> \in Pages /\ cr3 \in Frames /\ memory[cr3][d].present
  BY Sizes DEF Pages, On, TypeOK, Directories
<1>2. memory[cr3][LAST].frame = cr3 /\ memory[cr3][LAST].present
  BY DEF Tables, Entry
<1>3. IsMapped(<<LAST, d>>) /\ FrameOf(<<LAST, d>>) = memory[cr3][d].frame
  BY <1>1, <1>2 DEF IsMapped, FrameOf
<1> QED
  BY <1>1, <1>3, Walk DEF TableWindow

(* next_free_frame_index answers with a free frame or a negative number.   *)
LEMMA FreshFrame ==
  /\ next_free_frame_index < 0 <=> Frames \subseteq used
  /\ next_free_frame_index >= 0 => next_free_frame_index \in Frames \ used
  /\ next_free_frame_index \in Int
<1>1. CASE Frames \subseteq used
  BY <1>1 DEF next_free_frame_index
<1>2. CASE ~ Frames \subseteq used
  <2>1. Frames \ used \in SUBSET Nat /\ Frames \ used # {}
    BY <1>2, Sizes DEF Frames
  <2>2. Min(Frames \ used) \in Frames \ used
    BY <2>1, LeastNatural DEF Min
  <2> QED
    BY <1>2, <2>1, <2>2 DEF next_free_frame_index
<1> QED
  BY <1>1, <1>2

(* Entries written by the code are entries.                                *)
LEMMA EntryType ==
  ASSUME NEW f \in Frames, NEW b \in BOOLEAN
  PROVE  Entry(f, b) \in [frame : Frames, present : BOOLEAN]
BY DEF Entry

(* What an uninitialized table holds is a table all the same.              *)
LEMMA JunkType == Junk \in [Indices -> [frame : Frames, present : BOOLEAN]]
<1>1. 0 \in Frames
  BY Sizes DEF Frames
<1> QED
  BY <1>1, EntryType DEF Junk

-----------------------------------------------------------------------------
\* What a step does to the translations

(* A step that leaves the directory and the tables alone leaves every      *)
(* translation of the program alone.                                       *)
LEMMA SameTranslations ==
  ASSUME TypeOK, TypeOK', On, cr3' = cr3,
         \A f \in TableFrames : memory'[f] = memory[f]
  PROVE  /\ memory'[cr3] = memory[cr3]
         /\ Directories' = Directories
         /\ TableFrames' = TableFrames
         /\ \A p \in ProgramPages : Translate(p)' = Translate(p)
         /\ MappedPages' = MappedPages
<1>1. memory'[cr3] = memory[cr3]
  BY DEF TableFrames
<1>2. Directories' = Directories
  BY <1>1 DEF Directories
<1>3. TableFrames' = TableFrames
  BY <1>1, <1>2 DEF TableFrames
<1>4. ASSUME NEW p \in ProgramPages
      PROVE  Translate(p)' = Translate(p)
  <2>1. CASE memory[cr3][p[1]].present
    <3>1. memory'[memory[cr3][p[1]].frame] = memory[memory[cr3][p[1]].frame]
      BY <2>1, TableOf
    <3> QED
      BY <1>1, <3>1 DEF Translate
  <2>2. CASE ~ memory[cr3][p[1]].present
    BY <1>1, <2>2 DEF Translate
  <2> QED
    BY <2>1, <2>2
<1>5. MappedPages' = MappedPages
  BY <1>4 DEF MappedPages
<1> QED
  BY <1>1, <1>2, <1>3, <1>4, <1>5

(* Marking a frame, and nothing else, keeps the invariant on translations. *)
LEMMA KeepTranslations ==
  ASSUME PagingInv, TypeOK', On, cr3' = cr3, used \subseteq used',
         \A f \in TableFrames : memory'[f] = memory[f]
  PROVE  /\ On' /\ BeforePaging' /\ Tables' /\ Isolation' /\ InUseIsMarked'
         /\ \A p \in ProgramPages : Translate(p)' = Translate(p)
         /\ MappedPages' = MappedPages /\ TableFrames' = TableFrames
         /\ Directories' = Directories
<1>1. /\ memory'[cr3] = memory[cr3] /\ Directories' = Directories
      /\ TableFrames' = TableFrames /\ MappedPages' = MappedPages
      /\ \A p \in ProgramPages : Translate(p)' = Translate(p)
  BY SameTranslations DEF PagingInv
<1>2. MappedPages \subseteq ProgramPages
  BY DEF MappedPages
<1>3. On'
  BY DEF On
<1>4. Tables'
  <2>1. Tables
    BY DEF PagingInv
  <2>2. memory'[cr3'] = memory[cr3]
    BY <1>1
  <2>3. memory'[cr3'][LAST] = Entry(cr3', TRUE)
    BY <2>1, <2>2 DEF Tables
  <2>4. ASSUME NEW d \in Directories'
        PROVE  /\ memory'[cr3'][d].frame # cr3'
               /\ \A e \in Directories' :
                    d # e => memory'[cr3'][d].frame # memory'[cr3'][e].frame
    BY <1>1, <2>1, <2>2 DEF Tables
  <2> QED
    BY <2>3, <2>4 DEF Tables
<1>5. Isolation'
  BY <1>1, <1>2, <1>3 DEF PagingInv, Isolation
<1>6. InUseIsMarked'
  BY <1>1, <1>2, <1>3 DEF PagingInv, InUseIsMarked
<1> QED
  BY <1>1, <1>3, <1>4, <1>5, <1>6 DEF BeforePaging

(* A step that changes neither memory nor bitmap.                          *)
LEMMA KeepMemory ==
  ASSUME PagingInv, On, UNCHANGED <<used, memory, placement_memory_address, cr3>>,
         interrupt_handlers' \subseteq {PAGE_FAULT}, CpuOK'
  PROVE  /\ TypeOK' /\ CpuOK' /\ BeforePaging' /\ On'
         /\ Tables' /\ Isolation' /\ InUseIsMarked'
         /\ \A p \in ProgramPages : Translate(p)' = Translate(p)
<1>1. TypeOK'
  BY DEF PagingInv, TypeOK, CpuOK
<1> QED
  BY <1>1, KeepTranslations DEF PagingInv

-----------------------------------------------------------------------------
\* Every action keeps the invariant

(* An access to memory begins: only the cpu changes.                       *)
LEMMA BeginAccess ==
  ASSUME PagingInv, NEW page \in ProgramPages, begin_access(page)
  PROVE  PagingInv' /\ Stable
<1>1. On /\ CpuOK'
  BY DEF begin_access, On, CpuOK
<1>2. cpu'.pc = "access"
  BY DEF begin_access
<1>3. /\ TypeOK' /\ BeforePaging' /\ On' /\ Tables' /\ Isolation' /\ InUseIsMarked'
      /\ \A p \in ProgramPages : Translate(p)' = Translate(p)
  BY <1>1, KeepMemory DEF begin_access, PagingInv, TypeOK
<1> QED
  BY <1>1, <1>2, <1>3 DEF PagingInv, Handler, Stable, MappedPages

(* A program writes to its own pages only, which are no tables.            *)
LEMMA CompleteAccess ==
  ASSUME PagingInv, complete_access
  PROVE  PagingInv' /\ Stable
<1>1. On /\ cpu.page \in ProgramPages
  BY DEF complete_access, PagingInv, Handler, TypeOK
<1>2. cpu' = [pc |-> "run", page |-> cpu.page] /\ CpuOK'
  BY <1>1 DEF complete_access, PagingInv, CpuOK
<1>3. cpu.page \in MappedPages
  BY <1>1 DEF complete_access, MappedPages
<1>4. Translate(cpu.page) \in Frames \ TableFrames
  BY <1>1, <1>3, Walk, ProgramPage DEF complete_access, PagingInv, Isolation
<1>5. memory' \in [Frames -> [Indices -> [frame : Frames, present : BOOLEAN]]]
  <2> DEFINE t == Translate(cpu.page)
             Table == [Indices -> [frame : Frames, present : BOOLEAN]]
  <2>1. memory \in [Frames -> Table]
    BY DEF PagingInv, TypeOK
  <2>2. memory' = memory \/ memory' = [memory EXCEPT ![t] = Junk]
    BY DEF complete_access
  <2>3. Junk \in Table
    BY JunkType
  <2> HIDE DEF t, Table
  <2>4. memory' \in [Frames -> Table]
    BY <2>1, <2>2, <2>3
  <2> QED
    BY <2>4 DEF Table
<1>6. TypeOK'
  BY <1>1, <1>2, <1>5 DEF complete_access, PagingInv, TypeOK
<1>7. TableFrames \subseteq Frames
  BY <1>1, Walk DEF TableFrames, Directories, PagingInv, TypeOK, On, Pages
<1>8. \A f \in TableFrames : memory'[f] = memory[f]
  BY <1>4, <1>7 DEF complete_access, PagingInv, TypeOK
<1>9. /\ On' /\ BeforePaging' /\ Tables' /\ Isolation' /\ InUseIsMarked'
      /\ \A p \in ProgramPages : Translate(p)' = Translate(p)
  BY <1>1, <1>6, <1>8, KeepTranslations DEF complete_access
<1> QED
  BY <1>2, <1>6, <1>9 DEF PagingInv, Handler, Stable, MappedPages

(* The fault handler maps the missing page to a fresh frame, builds its    *)
(* table first where there is none, and leaves the other pages where they  *)
(* are.                                                                    *)
LEMMA IsrHandler ==
  ASSUME PagingInv, isr_handler
  PROVE  PagingInv' /\ Stable
<1>1. PICK page \in ProgramPages : page = cpu.page
  BY DEF PagingInv, TypeOK
<1>2. On /\ Translate(page) = NONE
  BY <1>1 DEF isr_handler, PagingInv, Handler
<1>3. /\ cpu' \in [pc : {"access", "fault"}, page : {page}]
      /\ CpuOK'
  BY <1>1 DEF isr_handler, PagingInv, CpuOK
<1>4. /\ TypeOK' /\ BeforePaging' /\ On' /\ Tables' /\ Isolation' /\ InUseIsMarked'
      /\ \A p \in ProgramPages : Translate(p)' = Translate(p)
  BY <1>2, <1>3, KeepMemory DEF isr_handler, PagingInv, TypeOK
<1>5. cpu'.page = page /\ cpu'.pc \in {"access", "fault"}
  BY <1>3
<1>6. Handler'
  BY <1>2, <1>4, <1>5 DEF Handler
<1> QED
  BY <1>3, <1>4, <1>6 DEF PagingInv, Stable, MappedPages

(* The frame for a table is a free one: no page and no table has it.       *)
LEMMA TakeTableFrame ==
  ASSUME PagingInv, take_table_frame
  PROVE  PagingInv' /\ Stable
<1> DEFINE frame == next_free_frame_index
<1>0. PICK page \in ProgramPages : page = cpu.page
  BY DEF PagingInv, TypeOK
<1>1. On /\ cpu.pc = "fault" /\ Translate(page) = NONE
  BY <1>0 DEF take_table_frame, PagingInv, Handler
<1>2. CASE frame < 0
  <2>1. cpu' = [pc |-> "access", page |-> page] /\ CpuOK'
    BY <1>0, <1>2 DEF take_table_frame, PagingInv, CpuOK
  <2>2. /\ TypeOK' /\ BeforePaging' /\ On' /\ Tables' /\ Isolation' /\ InUseIsMarked'
        /\ \A p \in ProgramPages : Translate(p)' = Translate(p)
    BY <1>1, <1>2, <2>1, KeepMemory DEF take_table_frame, PagingInv, TypeOK
  <2> QED
    BY <2>1, <2>2 DEF PagingInv, Handler, Stable, MappedPages
<1>3. CASE ~ (frame < 0)
  <2>1. frame \in Frames \ used
    BY <1>3, FreshFrame
  <2>2. /\ used' = used \cup {frame}
        /\ cpu' = [pc |-> "table", page |-> page, frame |-> frame]
    BY <1>0, <1>3 DEF take_table_frame, Marked
  <2>3. TypeOK' /\ CpuOK'
    BY <1>1, <2>1, <2>2 DEF take_table_frame, PagingInv, TypeOK, CpuOK
  <2>4. /\ On' /\ BeforePaging' /\ Tables' /\ Isolation' /\ InUseIsMarked'
        /\ \A p \in ProgramPages : Translate(p)' = Translate(p)
        /\ MappedPages' = MappedPages /\ TableFrames' = TableFrames
    BY <1>1, <2>2, <2>3, KeepTranslations DEF take_table_frame
  <2>5. /\ frame \in used' \ TableFrames
        /\ \A p \in MappedPages : Translate(p) # frame
    BY <1>1, <2>1, <2>2 DEF PagingInv, InUseIsMarked
  <2>6. cpu'.pc = "table" /\ cpu'.page = page /\ cpu'.frame = frame
    BY <2>2
  <2>7. Translate(page)' = NONE
    BY <1>1, <2>4
  <2>8. \A p \in MappedPages' : Translate(p)' # frame
    BY <2>4, <2>5 DEF MappedPages
  <2>9. Handler'
    BY <2>4, <2>5, <2>6, <2>7, <2>8 DEF Handler
  <2> QED
    BY <2>3, <2>4, <2>9 DEF PagingInv, Stable, MappedPages
<1> QED
  BY <1>2, <1>3

(* A new table is empty, and its frame shows up in no translation.         *)
LEMMA InstallTable ==
  ASSUME PagingInv, install_table
  PROVE  PagingInv' /\ Stable
<1>0. PICK page \in ProgramPages : page = cpu.page
  BY DEF PagingInv, TypeOK
<1> DEFINE d == page[1]
<1>1. /\ On /\ cpu.pc = "table" /\ Translate(page) = NONE
      /\ cpu.frame \in used \ TableFrames
      /\ \A p \in MappedPages : Translate(p) # cpu.frame
  BY <1>0 DEF install_table, PagingInv, Handler
<1>2. /\ page \in Pages /\ d \in Indices /\ page[2] \in Indices /\ d # LAST
      /\ cr3 \in Frames /\ cpu.frame \in Frames /\ cpu.frame # cr3
  BY <1>1, ProgramPage DEF PagingInv, TypeOK, On, TableFrames
<1>3. cpu' = [pc |-> "data", page |-> page] /\ CpuOK'
  BY <1>0 DEF install_table, CpuOK
<1>4. DirectoryWindow = cr3
  BY <1>1, DirectoryFound DEF PagingInv
<1>5. CASE PresentInDirectory(d)
  <2>1. UNCHANGED memory
    BY <1>0, <1>5 DEF install_table
  <2>2. /\ TypeOK' /\ BeforePaging' /\ On' /\ Tables' /\ Isolation' /\ InUseIsMarked'
        /\ \A p \in ProgramPages : Translate(p)' = Translate(p)
    BY <1>1, <1>3, <2>1, KeepMemory DEF install_table, PagingInv, TypeOK
  <2>3. d \in Directories /\ Directories' = Directories
    BY <1>2, <1>4, <1>5, <2>1 DEF PresentInDirectory, Directories, install_table
  <2>4. Handler'
    BY <1>1, <1>3, <2>2, <2>3 DEF Handler
  <2> QED
    BY <1>3, <2>2, <2>4 DEF PagingInv, Stable, MappedPages
<1>6. CASE ~ PresentInDirectory(d)
  <2> DEFINE fr == cpu.frame
  <2>1. memory' = WithTable(d, fr) /\ ~ memory[cr3][d].present
    BY <1>0, <1>4, <1>6 DEF install_table, PresentInDirectory
  <2>2. memory \in [Frames -> [Indices -> [frame : Frames, present : BOOLEAN]]]
    BY DEF PagingInv, TypeOK
  <2>3. memory' = [memory EXCEPT ![cr3][d] = Entry(fr, TRUE),
                                 ![fr] = initialize_page_table(fr)]
    <3> DEFINE entered == [memory EXCEPT ![cr3][d] = Entry(fr, TRUE)]
    <3>1. entered[cr3][LAST] = Entry(cr3, TRUE)
      BY <1>1, <1>2, <2>2, Sizes DEF PagingInv, Tables
    <3>2. entered[cr3][d] = Entry(fr, TRUE)
      BY <1>2, <2>2
    <3>3. TableWindowIn(entered, d) = fr
      BY <3>1, <3>2 DEF TableWindowIn, Entry
    <3>4. memory' = [entered EXCEPT ![fr] = initialize_page_table(fr)]
      BY <1>4, <2>1, <3>3 DEF WithTable
    <3> QED
      BY <3>4
  <2>4. /\ memory'[cr3] = [memory[cr3] EXCEPT ![d] = Entry(fr, TRUE)]
        /\ memory'[fr] = initialize_page_table(fr)
        /\ \A f \in Frames \ {cr3, fr} : memory'[f] = memory[f]
    BY <1>2, <2>2, <2>3
  <2>5. initialize_page_table(fr) \in [Indices -> [frame : Frames, present : BOOLEAN]]
    <3>1. 0 \in Frames
      BY Sizes DEF Frames
    <3> QED
      BY <1>2, <3>1, EntryType DEF initialize_page_table
  <2>6. memory' \in [Frames -> [Indices -> [frame : Frames, present : BOOLEAN]]]
    BY <1>2, <2>2, <2>5, <2>3, EntryType
  <2>7. TypeOK'
    BY <1>0, <1>3, <2>6 DEF install_table, PagingInv, TypeOK
  <2>8. /\ memory'[cr3][d] = Entry(fr, TRUE)
        /\ \A e \in Indices \ {d} : memory'[cr3][e] = memory[cr3][e]
    BY <1>2, <2>2, <2>4
  <2>9. d \notin Directories /\ Directories' = Directories \cup {d}
    BY <1>2, <2>1, <2>8 DEF Directories, Entry, install_table
  <2>10. ASSUME NEW e \in Directories
         PROVE  /\ memory'[cr3][e] = memory[cr3][e]
                /\ memory[cr3][e].frame \in Frames \ {cr3, fr}
    <3>1. e \in Indices \ {d} /\ memory[cr3][e] \in [frame : Frames, present : BOOLEAN]
      BY <1>2, <2>2, <2>9 DEF Directories
    <3>2. memory[cr3][e].frame # cr3 /\ memory[cr3][e].frame \in TableFrames
      BY <1>1 DEF PagingInv, Tables, TableFrames
    <3> QED
      BY <1>1, <2>8, <3>1, <3>2
  <2>11. TableFrames' = TableFrames \cup {fr}
    BY <2>8, <2>9, <2>10 DEF TableFrames, Entry, install_table
  <2>12. ASSUME NEW p \in ProgramPages
         PROVE  Translate(p)' = Translate(p)
    <3>1. p \in Pages /\ p[1] \in Indices /\ p[2] \in Indices /\ p[1] # LAST
      BY ProgramPage
    <3>2. CASE p[1] = d
      <4>1. Translate(p) = NONE
        BY <2>1, <3>2 DEF Translate
      <4>2. memory'[cr3][p[1]].frame = fr /\ ~ memory'[fr][p[2]].present
        BY <2>4, <2>8, <3>1, <3>2 DEF Entry, initialize_page_table
      <4> QED
        BY <4>1, <4>2 DEF Translate, install_table
    <3>3. CASE p[1] # d /\ memory[cr3][p[1]].present
      <4>1. p[1] \in Directories
        BY <3>1, <3>3 DEF Directories
      <4>2. memory'[memory[cr3][p[1]].frame] = memory[memory[cr3][p[1]].frame]
        BY <2>4, <2>10, <4>1
      <4> QED
        BY <2>10, <4>1, <4>2 DEF Translate, install_table
    <3>4. CASE p[1] # d /\ ~ memory[cr3][p[1]].present
      BY <2>8, <3>1, <3>4 DEF Translate, install_table
    <3> QED
      BY <3>2, <3>3, <3>4
  <2>13. MappedPages' = MappedPages /\ MappedPages \subseteq ProgramPages
    BY <2>12 DEF MappedPages
  <2>14. On' /\ cr3' = cr3 /\ used' = used
    BY <1>1 DEF On, install_table
  <2>15. BeforePaging'
    BY <2>14 DEF BeforePaging
  <2>16. Tables'
    <3>1. memory'[cr3][LAST] = Entry(cr3, TRUE)
      BY <1>1, <1>2, <2>8, Sizes DEF PagingInv, Tables
    <3>2. ASSUME NEW e \in Directories, NEW g \in Directories \cup {d}, e # g
          PROVE  /\ memory'[cr3][e].frame # cr3
                 /\ memory'[cr3][e].frame # memory'[cr3][g].frame
      BY <1>1, <2>8, <2>10, <3>2 DEF PagingInv, Tables, Entry
    <3>3. memory'[cr3][d].frame = fr /\ fr # cr3
      BY <1>2, <2>8 DEF Entry
    <3>4. ASSUME NEW e \in Directories'
          PROVE  /\ memory'[cr3'][e].frame # cr3'
                 /\ \A g \in Directories' :
                      e # g => memory'[cr3'][e].frame # memory'[cr3'][g].frame
      BY <2>9, <2>14, <3>2, <3>3
    <3> QED
      BY <2>14, <3>1, <3>4 DEF Tables
  <2>17. Isolation'
    BY <1>1, <2>11, <2>12, <2>13, <2>14 DEF PagingInv, Isolation
  <2>18. InUseIsMarked'
    BY <1>1, <2>11, <2>12, <2>13, <2>14 DEF PagingInv, InUseIsMarked
  <2>19. Handler'
    BY <1>1, <1>3, <2>9, <2>12, <2>14 DEF Handler
  <2> QED
    BY <1>3, <2>7, <2>12, <2>13, <2>15, <2>16, <2>17, <2>18, <2>19 DEF PagingInv, Stable
<1> QED
  BY <1>5, <1>6

(* The page gets a frame of its own, and no other page moves.              *)
LEMMA MapPage ==
  ASSUME PagingInv, map_page
  PROVE  PagingInv' /\ Stable
<1>0. PICK page \in ProgramPages : page = cpu.page
  BY DEF PagingInv, TypeOK
<1> DEFINE d == page[1]
           i == page[2]
<1>1. On /\ cpu.pc = "data" /\ Translate(page) = NONE /\ d \in Directories
  BY <1>0 DEF map_page, PagingInv, Handler
<1>2. /\ page \in Pages /\ d \in Indices /\ i \in Indices /\ d # LAST
      /\ cr3 \in Frames /\ memory[cr3][d].present
  BY <1>1, ProgramPage DEF PagingInv, TypeOK, On, Directories
<1>3. cpu' = [pc |-> "access", page |-> page] /\ CpuOK'
  BY <1>0, <1>1 DEF map_page, PagingInv, CpuOK
<1>4. CASE next_free_frame_index < 0
  <2>1. /\ TypeOK' /\ BeforePaging' /\ On' /\ Tables' /\ Isolation' /\ InUseIsMarked'
        /\ \A p \in ProgramPages : Translate(p)' = Translate(p)
    BY <1>1, <1>3, <1>4, KeepMemory DEF map_page, PagingInv, TypeOK
  <2>2. Handler'
    BY <1>3, <2>1 DEF Handler
  <2> QED
    BY <1>3, <2>1, <2>2 DEF PagingInv, Stable, MappedPages
<1>5. CASE ~ (next_free_frame_index < 0)
  <2>1. PICK fr \in Frames \ used : fr = next_free_frame_index
    BY <1>5, FreshFrame
  <2>2. memory \in [Frames -> [Indices -> [frame : Frames, present : BOOLEAN]]]
    BY DEF PagingInv, TypeOK
  <2>3. memory[cr3][d] \in [frame : Frames, present : BOOLEAN]
    BY <1>2, <2>2
  <2>4. PICK tf \in Frames \ {cr3} : /\ tf = memory[cr3][d].frame
                                    /\ tf \in TableFrames /\ TableWindow(d) = tf
    BY <1>1, <2>3, TableFound DEF PagingInv, Tables, TableFrames
  <2>5. /\ used' = used \cup {fr} /\ cr3' = cr3
        /\ memory' = [memory EXCEPT ![tf][i] = Entry(fr, TRUE)]
    BY <1>0, <1>5, <2>1, <2>4 DEF map_page, Marked, PageEntry
  <2>6. /\ memory'[tf] = [memory[tf] EXCEPT ![i] = Entry(fr, TRUE)]
        /\ \A f \in Frames \ {tf} : memory'[f] = memory[f]
    BY <2>2, <2>4, <2>5
  <2>7. memory' \in [Frames -> [Indices -> [frame : Frames, present : BOOLEAN]]]
    BY <1>2, <2>1, <2>2, <2>4, <2>5, EntryType
  <2>8. TypeOK'
    BY <1>0, <1>3, <2>1, <2>5, <2>7 DEF map_page, PagingInv, TypeOK
  <2>9. memory'[tf][i] = Entry(fr, TRUE) /\ \A j \in Indices \ {i} : memory'[tf][j] = memory[tf][j]
    <3> DEFINE old == memory[tf]
               new == memory'[tf]
               entry == Entry(fr, TRUE)
    <3>1. DOMAIN old = Indices /\ i \in Indices
      BY <1>2, <2>2, <2>4
    <3>2. new = [old EXCEPT ![i] = entry]
      BY <2>6
    <3> HIDE DEF old, new, entry
    <3>3. new[i] = entry /\ \A j \in Indices \ {i} : new[j] = old[j]
      BY <3>1, <3>2
    <3> QED
      BY <3>3 DEF old, new, entry
  <2>10. memory'[cr3] = memory[cr3] /\ memory'[cr3'] = memory[cr3]
    BY <1>2, <2>4, <2>5, <2>6
  <2>11. Directories' = Directories /\ TableFrames' = TableFrames
    BY <2>5, <2>10 DEF Directories, TableFrames
  <2>12. Translate(page)' = fr
    <3>1. memory'[cr3'][d] = memory[cr3][d]
      BY <2>5, <2>10
    <3>2. memory'[tf][i].frame = fr /\ memory'[tf][i].present
      BY <2>9 DEF Entry
    <3> QED
      BY <1>2, <2>4, <3>1, <3>2 DEF Translate
  <2>13. ASSUME NEW p \in ProgramPages, p # page
         PROVE  Translate(p)' = Translate(p)
    <3>1. p \in Pages /\ p[1] \in Indices /\ p[2] \in Indices /\ p[1] # LAST
      BY ProgramPage
    <3>2. p[1] # d \/ p[2] # i
      BY <1>2, <2>13, <3>1 DEF Pages
    <3>3. CASE ~ memory[cr3][p[1]].present
      BY <2>10, <3>3 DEF Translate
    <3>4. CASE memory[cr3][p[1]].present /\ p[1] = d
      <4>1. memory'[tf][p[2]] = memory[tf][p[2]]
        BY <2>9, <3>1, <3>2, <3>4
      <4>2. memory[cr3][p[1]].frame = tf
        BY <2>4, <3>4
      <4> QED
        BY <2>10, <4>1, <4>2 DEF Translate
    <3>5. CASE memory[cr3][p[1]].present /\ p[1] # d
      <4>1. p[1] \in Directories
        BY <3>1, <3>5 DEF Directories
      <4>2. memory[cr3][p[1]].frame # tf
        BY <1>1, <2>4, <3>5, <4>1 DEF PagingInv, Tables
      <4>3. memory[cr3][p[1]].frame \in Frames
        BY <1>2, <2>2, <3>1
      <4>4. memory'[memory[cr3][p[1]].frame] = memory[memory[cr3][p[1]].frame]
        BY <2>6, <4>2, <4>3
      <4> QED
        BY <2>10, <4>4 DEF Translate
    <3> QED
      BY <3>3, <3>4, <3>5
  <2>14. fr # NONE
    BY <2>1, Sizes DEF Frames
  <2>15. /\ MappedPages' = MappedPages \cup {page}
         /\ page \notin MappedPages /\ MappedPages \subseteq ProgramPages
    BY <1>1, <2>12, <2>13, <2>14 DEF MappedPages
  <2>16. On'
    BY <1>1, <2>5 DEF On
  <2>17. BeforePaging'
    BY <2>16 DEF BeforePaging
  <2>18. Tables'
    <3>1. memory'[cr3'] = memory[cr3] /\ cr3' = cr3
      BY <2>5, <2>10
    <3>2. memory'[cr3'][LAST] = Entry(cr3', TRUE)
      BY <1>1, <3>1 DEF PagingInv, Tables
    <3>3. ASSUME NEW e \in Directories'
          PROVE  /\ memory'[cr3'][e].frame # cr3'
                 /\ \A g \in Directories' :
                      e # g => memory'[cr3'][e].frame # memory'[cr3'][g].frame
      BY <1>1, <2>11, <3>1 DEF PagingInv, Tables
    <3> QED
      BY <3>2, <3>3 DEF Tables
  <2>19. fr \notin TableFrames /\ \A p \in MappedPages : Translate(p) # fr
    BY <1>1, <2>1 DEF PagingInv, InUseIsMarked
  <2>20. ASSUME NEW p \in MappedPages'
         PROVE  /\ Translate(p)' \notin TableFrames
                /\ \A q \in MappedPages' : p # q => Translate(p)' # Translate(q)'
    BY <1>1, <2>12, <2>13, <2>15, <2>19 DEF PagingInv, Isolation
  <2>21. Isolation'
    BY <2>11, <2>20 DEF Isolation
  <2>22. InUseIsMarked'
    BY <1>1, <2>5, <2>11, <2>12, <2>13, <2>15 DEF PagingInv, InUseIsMarked
  <2>23. Handler'
    BY <1>3, <2>16 DEF Handler
  <2> QED
    BY <1>3, <2>8, <2>13, <2>15, <2>17, <2>18, <2>21, <2>22, <2>23
    DEF PagingInv, Stable
<1> QED
  BY <1>4, <1>5

(* The directory and the tables that paging_setup writes: they lie in the  *)
(* placement memory, above the frames of the identity mapping.             *)
LEMMA SetupBase ==
  ASSUME placement_memory_address \in PlacementStarts,
         NEW base, base = Aligned(placement_memory_address) \div FRAME_SIZE
  PROVE  /\ base \in Nat
         /\ ReservedFrames < base
         /\ base + page_table_count < ReservedFrames + PLACEMENT_FRAMES
<1> DEFINE a == placement_memory_address
           q == a \div FRAME_SIZE
<1>1. a \in Nat /\ FRAME_SIZE \in Nat \ {0}
  BY PagingAssumption
<1>2. q \in ReservedFrames .. ReservedFrames + PLACEMENT_FRAMES - page_table_count - 2
  BY PagingAssumption
<1>3. q # 0 /\ q \in Int
  BY <1>2, Sizes
<1>4. Aligned(a) = (q + 1) * FRAME_SIZE + 0
  BY <1>1, <1>3 DEF Aligned
<1>5. base = q + 1
  <2>1. 0 \in 0 .. FRAME_SIZE - 1 /\ q + 1 \in Int
    BY <1>1, <1>3
  <2> HIDE DEF q
  <2>2. ((q + 1) * FRAME_SIZE + 0) \div FRAME_SIZE = q + 1
    BY <1>1, <2>1, DivModUnique
  <2> QED
    BY <1>4, <2>2
<1> QED
  BY <1>2, <1>5, Sizes

(* A page under an identity table, as a frame.                             *)
LEMMA Identity ==
  ASSUME NEW p \in ProgramPages, p[1] < page_table_count
  PROVE  /\ p[1] * ENTRIES + p[2] \in 0 .. ReservedFrames - 1
         /\ p[2] # LAST
         /\ (p[1] * ENTRIES + p[2]) \div ENTRIES = p[1]
         /\ (p[1] * ENTRIES + p[2]) % ENTRIES = p[2]
<1>1. p[1] \in Indices /\ p[2] \in Indices /\ p[2] # LAST
  BY ProgramPage DEF ProgramPages
<1>2. ENTRIES \in Nat \ {0} /\ p[1] \in Int /\ p[2] \in 0 .. ENTRIES - 1
  BY <1>1, Sizes DEF Indices
<1>3. p[1] \in 0 .. page_table_count - 1
  BY <1>1, Sizes DEF Indices
<1>4. p[1] * ENTRIES + p[2] \in 0 .. page_table_count * ENTRIES - 1
  <2>1. \A n, m, e \in Nat : n <= m - 1 => n * e <= (m - 1) * e
    OBVIOUS
  <2>2. (page_table_count - 1) * ENTRIES = page_table_count * ENTRIES - ENTRIES
    BY Sizes
  <2>3. p[1] * ENTRIES <= page_table_count * ENTRIES - ENTRIES
    BY <1>2, <1>3, <2>1, <2>2, Sizes
  <2>4. p[1] * ENTRIES \in Nat /\ page_table_count * ENTRIES \in Nat
    BY <1>3, Sizes
  <2> QED
    BY <1>2, <2>3, <2>4
<1> QED
  BY <1>1, <1>2, <1>4, DivModUnique DEF ReservedFrames

(* The identity mapping is isolated, and the bitmap knows it.              *)
LEMMA PagingSetup ==
  ASSUME PagingInv, paging_setup
  PROVE  PagingInv' /\ Stable
<1>1. PICK base : base = Aligned(placement_memory_address) \div FRAME_SIZE
  OBVIOUS
<1>2. /\ ~ On /\ cpu.pc = "run" /\ placement_memory_address \in PlacementStarts
      /\ used = 0 .. ReservedFrames + PLACEMENT_FRAMES - 1
  BY DEF paging_setup, On, PagingInv, BeforePaging
<1>3. /\ base \in Nat /\ ReservedFrames < base
      /\ base + page_table_count < ReservedFrames + PLACEMENT_FRAMES
  BY <1>1, <1>2, SetupBase
<1>4. /\ base .. base + page_table_count \subseteq used
      /\ base .. base + page_table_count \subseteq Frames
      /\ base \in Frames /\ 0 .. ReservedFrames - 1 \subseteq used \cap Frames
      /\ 0 \in Frames
  BY <1>2, <1>3, Sizes DEF Frames
<1>5. /\ cr3' = base /\ used' = used /\ cpu' = cpu
      /\ placement_memory_address' = (base + 1 + page_table_count) * FRAME_SIZE
      /\ interrupt_handlers' = interrupt_handlers \cup {PAGE_FAULT}
      /\ memory' = [f \in Frames |->
           IF f = base THEN Directory(base)
           ELSE IF f \in base + 1 .. base + page_table_count
                THEN IdentityTable(base, f - base - 1) ELSE memory[f]]
  BY <1>1 DEF paging_setup
<1>6. memory'[base] = Directory(base)
  BY <1>4, <1>5
<1>7. ASSUME NEW n \in 0 .. page_table_count - 1
      PROVE  /\ memory'[base + 1 + n] = IdentityTable(base, n)
             /\ base + 1 + n \in base .. base + page_table_count
             /\ base + 1 + n # base
  <2>1. /\ base + 1 + n \in base .. base + page_table_count /\ base + 1 + n # base
        /\ base + 1 + n \in base + 1 .. base + page_table_count
        /\ (base + 1 + n) - base - 1 = n
    BY <1>3, Sizes
  <2> QED
    BY <1>4, <1>5, <2>1
<1>8. Directory(base) \in [Indices -> [frame : Frames, present : BOOLEAN]]
  <2>1. \A i \in Indices : i < page_table_count =>
          base + 1 + i \in base .. base + page_table_count
    BY <1>3, Sizes DEF Indices
  <2> QED
    BY <1>4, <2>1, EntryType DEF Directory
<1>9. ASSUME NEW n \in 0 .. page_table_count - 1
      PROVE  IdentityTable(base, n) \in [Indices -> [frame : Frames, present : BOOLEAN]]
  <2>1. ASSUME NEW i \in Indices
        PROVE  n * ENTRIES + i \in Frames
    <3>1. \A a, b, e \in Nat : a <= b - 1 => a * e <= (b - 1) * e
      OBVIOUS
    <3>2. n * ENTRIES <= (page_table_count - 1) * ENTRIES
      BY <3>1, Sizes
    <3>3. (page_table_count - 1) * ENTRIES = page_table_count * ENTRIES - ENTRIES
      BY Sizes
    <3>4. n * ENTRIES \in Nat /\ ReservedFrames = page_table_count * ENTRIES
      BY Sizes DEF ReservedFrames
    <3>5. i \in 0 .. ENTRIES - 1
      BY Sizes DEF Indices
    <3> QED
      BY <3>2, <3>3, <3>4, <3>5, Sizes DEF Frames
  <2>2. base + 1 + n \in Frames
    BY <1>4, <1>7
  <2> QED
    BY <2>1, <2>2, EntryType DEF IdentityTable
<1>10. memory' \in [Frames -> [Indices -> [frame : Frames, present : BOOLEAN]]]
  <2>1. \A f \in base + 1 .. base + page_table_count :
          f - base - 1 \in 0 .. page_table_count - 1
    BY <1>3, Sizes
  <2> QED
    BY <1>5, <1>8, <1>9, <2>1 DEF PagingInv, TypeOK
<1>11. TypeOK' /\ CpuOK'
  <2>1. (base + 1 + page_table_count) * FRAME_SIZE \in Nat
    BY <1>3, PagingAssumption
  <2> QED
    BY <1>4, <1>5, <1>10, <2>1 DEF PagingInv, TypeOK, CpuOK
<1>12. On' /\ BeforePaging'
  BY <1>3, <1>5, Sizes DEF On, BeforePaging
<1>13. memory'[cr3'] = Directory(base)
  BY <1>5, <1>6
<1>14. Directories' = 0 .. page_table_count - 1
  <2>1. Directories' = {d \in Indices : d # LAST /\ Directory(base)[d].present}
    BY <1>13 DEF Directories
  <2>2. ASSUME NEW d \in Indices
        PROVE  d # LAST /\ Directory(base)[d].present <=> d < page_table_count
    BY Sizes DEF Directory, Entry, Indices
  <2>3. \A d \in 0 .. page_table_count - 1 : d \in Indices /\ d < page_table_count
    BY Sizes DEF Indices
  <2>4. \A d \in Indices : d < page_table_count => d \in 0 .. page_table_count - 1
    BY Sizes DEF Indices
  <2> QED
    BY <2>1, <2>2, <2>3, <2>4
<1>15. ASSUME NEW d \in 0 .. page_table_count - 1
       PROVE  /\ memory'[cr3'][d] = Entry(base + 1 + d, TRUE)
              /\ memory'[cr3'][d].frame = base + 1 + d
  <2>1. d \in Indices /\ d < page_table_count
    BY Sizes DEF Indices
  <2>2. memory'[cr3'][d] = Entry(base + 1 + d, TRUE)
    BY <1>13, <2>1 DEF Directory
  <2> QED
    BY <2>2 DEF Entry
<1>16. Tables'
  <2>1. memory'[cr3'][LAST] = Entry(cr3', TRUE)
    <3>1. LAST \in Indices /\ ~ (LAST < page_table_count)
      BY Sizes
    <3>2. Directory(base)[LAST] = Entry(base, TRUE)
      BY <3>1 DEF Directory
    <3> QED
      BY <1>5, <1>13, <3>2
  <2>2. ASSUME NEW d \in Directories'
        PROVE  /\ memory'[cr3'][d].frame # cr3'
               /\ \A e \in Directories' :
                    d # e => memory'[cr3'][d].frame # memory'[cr3'][e].frame
    <3>1. ASSUME NEW e \in Directories'
          PROVE  e \in Int /\ e >= 0 /\ memory'[cr3'][e].frame = base + 1 + e
      <4>1. e \in 0 .. page_table_count - 1
        BY <1>14
      <4>2. e \in Int /\ e >= 0
        BY <4>1, Sizes
      <4>3. memory'[cr3'][e].frame = base + 1 + e
        BY <1>15, <4>1
      <4> QED
        BY <4>2, <4>3
    <3>2. d \in Int /\ d >= 0 /\ memory'[cr3'][d].frame = base + 1 + d
      BY <3>1
    <3>3. memory'[cr3'][d].frame # cr3'
      BY <1>3, <1>5, <3>2
    <3>4. ASSUME NEW e \in Directories', d # e
          PROVE  memory'[cr3'][d].frame # memory'[cr3'][e].frame
      <4>1. e \in Int /\ memory'[cr3'][e].frame = base + 1 + e
        BY <3>1, <3>4
      <4>2. base + 1 + d # base + 1 + e
        BY <1>3, <3>2, <3>4, <4>1
      <4> QED
        BY <3>2, <4>1, <4>2
    <3> QED
      BY <3>3, <3>4
  <2> QED
    BY <2>1, <2>2 DEF Tables
<1>17. TableFrames' \subseteq base .. base + page_table_count
  <2>1. cr3' \in base .. base + page_table_count
    BY <1>3, <1>5, Sizes
  <2>2. ASSUME NEW d \in Directories'
        PROVE  memory'[cr3'][d].frame \in base .. base + page_table_count
    <3>1. d \in 0 .. page_table_count - 1
      BY <1>14
    <3> QED
      BY <1>7, <1>15, <3>1
  <2> QED
    BY <2>1, <2>2 DEF TableFrames
<1>18. ASSUME NEW p \in ProgramPages, p[1] < page_table_count
       PROVE  Translate(p)' = p[1] * ENTRIES + p[2]
  <2>1. p[1] \in 0 .. page_table_count - 1 /\ p[2] \in Indices /\ p[2] # LAST
    <3>1. p[1] \in Indices /\ p[2] \in Indices
      BY ProgramPage
    <3>2. p[2] # LAST
      BY <1>18, Identity
    <3> QED
      BY <1>18, <3>1, <3>2, Sizes DEF Indices
  <2>2. memory'[cr3'][p[1]] = Entry(base + 1 + p[1], TRUE)
    BY <1>15, <2>1
  <2>3. memory'[base + 1 + p[1]] = IdentityTable(base, p[1])
    BY <1>7, <2>1
  <2>4. memory'[base + 1 + p[1]][p[2]] = Entry(p[1] * ENTRIES + p[2], TRUE)
    BY <2>1, <2>3 DEF IdentityTable
  <2> QED
    BY <2>2, <2>4 DEF Translate, Entry
<1>19. ASSUME NEW p \in ProgramPages, ~ (p[1] < page_table_count)
       PROVE  Translate(p)' = NONE
  <2>1. p[1] \in Indices /\ p[1] # LAST
    BY ProgramPage
  <2>2. memory'[cr3'][p[1]] = Entry(0, FALSE)
    BY <1>13, <1>19, <2>1 DEF Directory
  <2> QED
    BY <2>2 DEF Translate, Entry
<1>20. \A p \in MappedPages' :
         p \in ProgramPages /\ p[1] < page_table_count
         /\ Translate(p)' = p[1] * ENTRIES + p[2]
  BY <1>18, <1>19 DEF MappedPages
<1>21. ASSUME NEW p \in MappedPages'
       PROVE  /\ Translate(p)' \in used'
              /\ Translate(p)' \notin TableFrames'
              /\ \A q \in MappedPages' : p # q => Translate(p)' # Translate(q)'
  <2>1. Translate(p)' \in 0 .. ReservedFrames - 1
    BY <1>20, Identity
  <2>2. Translate(p)' \in used' /\ Translate(p)' \notin TableFrames'
    BY <1>3, <1>4, <1>5, <1>17, <2>1, Sizes
  <2>3. ASSUME NEW q \in MappedPages', Translate(p)' = Translate(q)'
        PROVE  p = q
    <3>1. p[1] = q[1] /\ p[2] = q[2]
      BY <1>20, <2>3, Identity
    <3>2. p \in Pages /\ q \in Pages
      BY <1>20, ProgramPage
    <3> QED
      BY <3>1, <3>2 DEF Pages
  <2> QED
    BY <2>2, <2>3
<1>22. Isolation'
  BY <1>21 DEF Isolation
<1>23. InUseIsMarked'
  BY <1>4, <1>5, <1>17, <1>21 DEF InUseIsMarked
<1>24. Handler'
  BY <1>2, <1>5 DEF Handler
<1>25. Stable
  BY <1>2 DEF Stable
<1> QED
  BY <1>11, <1>12, <1>16, <1>22, <1>23, <1>24, <1>25 DEF PagingInv

-----------------------------------------------------------------------------
\* The theorems

(* The invariant holds before paging_setup.                                *)
LEMMA Initially ==
  ASSUME Init
  PROVE  PagingInv
<1>1. 0 .. ReservedFrames + PLACEMENT_FRAMES - 1 \subseteq Frames
  BY Sizes DEF Frames
<1>2. <<0, 0>> \in ProgramPages
  BY Sizes DEF ProgramPages, Pages, Indices
<1>3. TypeOK /\ CpuOK
  BY <1>1, <1>2, JunkType, PagingAssumption DEF Init, TypeOK, CpuOK
<1>4. ~ On /\ cpu.pc = "run"
  BY DEF Init, On
<1> QED
  BY <1>3, <1>4
  DEF Init, PagingInv, BeforePaging, Tables, Isolation, InUseIsMarked, Handler

(* Every step keeps the invariant and the translations.                    *)
LEMMA NextInv ==
  ASSUME PagingInv, [Next]_vars
  PROVE  PagingInv' /\ (Stable \/ UNCHANGED vars)
<1>1. CASE paging_setup
  BY <1>1, PagingSetup
<1>2. CASE \E page \in ProgramPages : begin_access(page)
  BY <1>2, BeginAccess
<1>3. CASE complete_access
  BY <1>3, CompleteAccess
<1>4. CASE isr_handler
  BY <1>4, IsrHandler
<1>5. CASE take_table_frame
  BY <1>5, TakeTableFrame
<1>6. CASE install_table
  BY <1>6, InstallTable
<1>7. CASE map_page
  BY <1>7, MapPage
<1>8. CASE UNCHANGED vars
  <2>1. /\ UNCHANGED <<used, memory, placement_memory_address, cr3>>
        /\ UNCHANGED <<interrupt_handlers, cpu>>
    BY <1>8 DEF vars
  <2>2. On' = On /\ MappedPages' = MappedPages /\ TableFrames' = TableFrames
    BY <2>1 DEF On, MappedPages, TableFrames, Directories, Translate
  <2>3. TypeOK' /\ CpuOK' /\ BeforePaging'
    BY <2>1, <2>2 DEF PagingInv, TypeOK, CpuOK, BeforePaging
  <2>4. Tables' /\ Handler'
    BY <2>1, <2>2 DEF PagingInv, Tables, Handler, Directories, Translate
  <2>5. Isolation' /\ InUseIsMarked'
    <3>1. \A page : Translate(page)' = Translate(page)
      BY <2>1 DEF Translate
    <3>2. Isolation'
      BY <2>2, <3>1 DEF PagingInv, Isolation
    <3>3. InUseIsMarked'
      BY <2>1, <2>2, <3>1 DEF PagingInv, InUseIsMarked
    <3> QED
      BY <3>2, <3>3
  <2> QED
    BY <1>8, <2>3, <2>4, <2>5 DEF PagingInv
<1> QED
  BY <1>1, <1>2, <1>3, <1>4, <1>5, <1>6, <1>7, <1>8 DEF Next, Continue

(* The inductive invariant holds in every reachable state.                 *)
THEOREM Invariant == Spec => []PagingInv
<1>1. Init => PagingInv
  BY Initially
<1>2. PagingInv /\ [Next]_vars => PagingInv'
  BY NextInv
<1> QED
  BY <1>1, <1>2, PTL DEF Spec

(* paging_setup, the MMU and setup_page keep to frames, entries and pages: *)
(* no walk and no search leaves the tables or the bitmap.                  *)
THEOREM TypeCorrect == Spec => []TypeOK
<1>1. PagingInv => TypeOK
  BY DEF PagingInv
<1> QED
  BY <1>1, Invariant, PTL

(* setup_page gives every page a frame of its own, never one of a table.   *)
THEOREM PagesIsolated == Spec => []Isolation
<1>1. PagingInv => Isolation
  BY DEF PagingInv
<1> QED
  BY <1>1, Invariant, PTL

(* Whatever the directory, the tables and the pages occupy is marked.      *)
THEOREM FramesMarked == Spec => []InUseIsMarked
<1>1. PagingInv => InUseIsMarked
  BY DEF PagingInv
<1> QED
  BY <1>1, Invariant, PTL

(* The addresses setup_page computes show the directory and the table of   *)
(* the page at hand: the handler does not fault.                           *)
THEOREM WindowsFound == Spec => []HandlerWindows
<1>1. ASSUME PagingInv, On
      PROVE  DirectoryWindow = cr3
  BY <1>1, DirectoryFound DEF PagingInv
<1>2. ASSUME PagingInv, On, cpu.pc = "data"
      PROVE  TableWindow(cpu.page[1]) \in TableFrames \ {cr3}
  <2>1. cpu.page[1] \in Directories
    BY <1>2 DEF PagingInv, Handler
  <2>2. TableWindow(cpu.page[1]) = memory[cr3][cpu.page[1]].frame
    BY <1>2, <2>1, TableFound DEF PagingInv
  <2> QED
    BY <1>2, <2>1, <2>2 DEF PagingInv, Tables, TableFrames
<1>3. PagingInv => HandlerWindows
  BY <1>1, <1>2 DEF HandlerWindows
<1> QED
  BY <1>3, Invariant, PTL

(* No step, of the handler or of a program, changes or removes a           *)
(* translation that is there.                                              *)
THEOREM TranslationsStable == Spec => MappingsStable
<1>1. PagingInv /\ [Next]_vars
        => [On => \A p \in MappedPages : Translate(p)' = Translate(p)]_vars
  BY NextInv DEF Stable
<1> QED
  BY <1>1, Invariant, PTL DEF Spec, MappingsStable
=============================================================================
