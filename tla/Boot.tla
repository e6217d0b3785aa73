-------------------------------- MODULE Boot --------------------------------
(***************************************************************************)
(* The start of the kernel: main (kernel.c) reads the memory map of the    *)
(* boot loader (memory_map.c) into the placement memory, blocks the        *)
(* reserved memory, allocates the placement memory and sets up the bitmap  *)
(* of frames.  The operations of the placement memory are those of         *)
(* PlacementMemory; the addresses of the map come in two words of 32 bits, *)
(* scaled to WORD values.                                                  *)
(*                                                                         *)
(* main also has calls of processELF and processMods (multiboot.c), which  *)
(* block the memory of the kernel file and of the modules.  They are       *)
(* commented out at this commit; mbi.calls tells which kernel is running.  *)
(***************************************************************************)
EXTENDS PlacementMemory, Sequences, FiniteSets

CONSTANTS
  WORD,                            \* values of an unsigned long, 2^32
  SIZEOF_LONG,                     \* 4 on the target
  RESERVED_MEMORY_IN_BYTES,
  PLACEMENT_MEMORY_SIZE_IN_BYTES,
  FRAME_SIZE,
  FrameCount,                      \* frames in the bitmap
  BootInfos,                       \* what the boot loader may hand over
  StrayModules                     \* what lies behind the table of modules

Word == 0 .. WORD - 1

MemoryMapEntry ==
  [base_addr_high : Word, base_addr_low : Word,
   length_high : Word, length_low : Word, type : Word]
Module == [mod_start : Word, mod_end : Word]

\* The memory that main marks consists of whole frames (45 MB of 4 kB).
ASSUME BootAssumption ==
  /\ WORD \in Nat \ {0} /\ SIZEOF_LONG \in Nat \ {0}
  /\ W = WORD * WORD
  /\ RESERVED_MEMORY_IN_BYTES \in 1 .. W - 1
  /\ PLACEMENT_MEMORY_SIZE_IN_BYTES \in 1 .. W - 1
  /\ FRAME_SIZE \in Nat \ {0} /\ FrameCount \in Nat
  /\ (RESERVED_MEMORY_IN_BYTES + PLACEMENT_MEMORY_SIZE_IN_BYTES) % FRAME_SIZE = 0
  /\ BootInfos \subseteq
       [magic : BOOLEAN, mmap_valid : BOOLEAN, mmap : Seq(MemoryMapEntry),
        calls : BOOLEAN, elf_valid : BOOLEAN,
        elf_sec : [addr : Word, size : Word], mods : Seq(Module)]
  /\ StrayModules \subseteq Module

VARIABLES
  mbi,                       \* the multiboot information
  boot,                      \* [pc, entry, mod]: the place in main and in its loops
  placement_memory_address,
  used,                      \* the frames marked in the bitmap
  blocked                    \* history: the bytes taken for the kernel and modules

bootVars == <<vars, mbi, boot, placement_memory_address, used, blocked>>

At(pc) == boot.pc = pc
Goto(pc) == boot' = [boot EXCEPT !.pc = pc]

-----------------------------------------------------------------------------
\* The words of an entry, as memory_map.c combines them in 32 bits
Combined(high, low) == (high * SIZEOF_LONG + low) % WORD

begin ==
  /\ At("begin")
  /\ clear_placement_memory_array
  /\ Goto(IF ~ mbi.magic THEN "cover" ELSE IF mbi.mmap_valid THEN "mmap" ELSE "halted")
  /\ UNCHANGED <<mbi, placement_memory_address, used, blocked>>

\* (mutant) the type of the entry is not looked at
IsAny(entry) == TRUE

IsAvailable(entry) == entry.type = 1

\* (mutant) the loop does not advance
SameEntry == boot

NextEntry == [boot EXCEPT !.entry = @ + 1]

\* One entry of the map; only type 1 is available RAM.
process_entry ==
  LET entry == mbi.mmap[boot.entry] IN
  /\ At("mmap")
  /\ boot.entry <= Len(mbi.mmap)
  /\ \/ /\ IsAvailable(entry)
        /\ insert_area(Combined(entry.base_addr_high, entry.base_addr_low),
                       Combined(entry.length_high, entry.length_low))
        /\ boot' = IF call'.ret # 0 THEN [boot EXCEPT !.pc = "halted"]
                   ELSE NextEntry
     \/ /\ ~ IsAvailable(entry)
        /\ boot' = NextEntry
        /\ UNCHANGED vars
  /\ UNCHANGED <<mbi, placement_memory_address, used, blocked>>

end_of_map ==
  /\ At("mmap")
  /\ boot.entry > Len(mbi.mmap)
  /\ Goto(IF mbi.calls THEN "elf" ELSE "cover")
  /\ UNCHANGED <<vars, mbi, placement_memory_address, used, blocked>>

\* A range is taken if allocate_area can; a refusal is not looked at.
Block(start, size) ==
  /\ allocate_area(start, size)
  /\ blocked' = IF call'.ret = 0 THEN blocked \cup Bytes(start, size) ELSE blocked

processELF ==
  /\ At("elf")
  /\ IF mbi.elf_valid THEN Block(mbi.elf_sec.addr, mbi.elf_sec.size)
                      ELSE UNCHANGED <<vars, blocked>>
  /\ Goto("mods")
  /\ UNCHANGED <<mbi, placement_memory_address, used>>

\* mod += sizeof(module_t) moves by 16 entries: from the second round on the
\* code reads whatever is there.
ModulesAt(i) == IF i = 1 THEN {mbi.mods[1]} ELSE StrayModules

process_mod ==
  /\ At("mods") /\ boot.mod <= Len(mbi.mods)
  /\ \E mod \in ModulesAt(boot.mod) :
       Block(mod.mod_start, (mod.mod_end - mod.mod_start) % WORD)
  /\ boot' = [boot EXCEPT !.mod = @ + 1]
  /\ UNCHANGED <<mbi, placement_memory_address, used>>

end_of_mods ==
  /\ At("mods") /\ boot.mod > Len(mbi.mods)
  /\ Goto("cover")
  /\ UNCHANGED <<vars, mbi, placement_memory_address, used, blocked>>

\* (mutant) the reserved memory is not blocked
block_nothing ==
  /\ At("cover")
  /\ Goto("allocate")
  /\ UNCHANGED <<vars, mbi, placement_memory_address, used, blocked>>

block_reserved ==
  /\ At("cover")
  /\ allocate_area_cover(0, RESERVED_MEMORY_IN_BYTES)
  /\ Goto("covering")
  /\ UNCHANGED <<mbi, placement_memory_address, used, blocked>>

\* The result of allocate_area_cover is not looked at.
blocking ==
  /\ At("covering")
  /\ cover_step \/ cover_return
  /\ Goto(IF call'.op = "covering" THEN "covering" ELSE "allocate")
  /\ UNCHANGED <<mbi, placement_memory_address, used, blocked>>

allocate_placement ==
  /\ At("allocate")
  /\ allocate(PLACEMENT_MEMORY_SIZE_IN_BYTES)
  /\ placement_memory_address' = call'.ret
  /\ Goto(IF call'.ret = 0 THEN "halted" ELSE "frames")
  /\ UNCHANGED <<mbi, used, blocked>>

\* (mutant) the placement memory is forgotten
MarkedReservedOnly == RESERVED_MEMORY_IN_BYTES \div FRAME_SIZE

MarkedFrames ==
  (RESERVED_MEMORY_IN_BYTES + PLACEMENT_MEMORY_SIZE_IN_BYTES) \div FRAME_SIZE

\* reset_bitmap and use_frames_in_bytes
mark_frames ==
  /\ At("frames")
  /\ IF FrameCount < MarkedFrames THEN used' = {} /\ Goto("halted")
     ELSE used' = 0 .. MarkedFrames - 1 /\ Goto("up")
  /\ UNCHANGED <<vars, mbi, placement_memory_address, blocked>>

-----------------------------------------------------------------------------
BootInit ==
  /\ Init
  /\ mbi \in BootInfos
  /\ boot = [pc |-> "begin", entry |-> 1, mod |-> 1]
  /\ placement_memory_address = 0
  /\ used = {} /\ blocked = {}

BootNext ==
  \/ begin
  \/ process_entry
  \/ end_of_map
  \/ processELF
  \/ process_mod
  \/ end_of_mods
  \/ block_reserved
  \/ blocking
  \/ allocate_placement
  \/ mark_frames

\* main runs until it returns.
BootSpec == BootInit /\ [][BootNext]_bootVars /\ WF_bootVars(BootNext)

-----------------------------------------------------------------------------
\* What the map means: the words are the halves of a 64-bit number.
RAMOf(entry) ==
  Bytes(entry.base_addr_high * WORD + entry.base_addr_low,
        entry.length_high * WORD + entry.length_low)

AvailableEntries == {i \in DOMAIN mbi.mmap : mbi.mmap[i].type = 1}
AvailableRAM == UNION {RAMOf(mbi.mmap[i]) : i \in AvailableEntries}

\* The maps that the properties are about: RAM below the end of the low word,
\* whose upper words the code weighs wrongly, in ascending order.
OrdinaryMaps ==
  \A info \in BootInfos : \A i \in DOMAIN info.mmap :
    info.mmap[i].type = 1 =>
      /\ info.mmap[i].base_addr_high = 0 /\ info.mmap[i].length_high = 0
      /\ \A j \in i + 1 .. Len(info.mmap) :
           info.mmap[j].type = 1 =>
             info.mmap[i].base_addr_low + info.mmap[i].length_low
               <= info.mmap[j].base_addr_low

Unreserved == {b \in AvailableRAM \ blocked : b >= RESERVED_MEMORY_IN_BYTES}
PlacementAt(address) == Bytes(address, PLACEMENT_MEMORY_SIZE_IN_BYTES)

(* "Placement memory allows the user to define free areas [and] to         *)
(* allocate an amount of bytes from the declared free locations": a kernel *)
(* that came up got placement memory that is available RAM of the map, and *)
(* none of the reserved memory or of what processELF and processMods could *)
(* block, in spite of the entries that were merged and the areas that were *)
(* cut, and although processMods reads behind its table.                   *)
PlacementInRAM ==
  At("up") => PlacementAt(placement_memory_address) \subseteq Unreserved

(* main gives up only for a reason: no memory map, an empty entry, more    *)
(* entries than the table has slots, no room above the reserved memory and *)
(* beside the blocked one, or a bitmap too small for what it has to mark.  *)
HaltsForCause ==
  At("halted") =>
    \/ ~ mbi.magic \/ ~ mbi.mmap_valid
    \/ \E i \in AvailableEntries : RAMOf(mbi.mmap[i]) = {}
    \/ Cardinality(AvailableEntries) > MAX_MEMORY_AREAS_SIZE
    \/ \A a \in Addr : ~ PlacementAt(a) \subseteq Unreserved
    \/ FrameCount < MarkedFrames

(* Where RAM goes on behind the reserved memory, the placement memory      *)
(* follows it and its frames are marked, so that next_free_frame_index     *)
(* hands out none of them.                                                 *)
ContiguousRAMMarked ==
  /\ At("up")
  /\ PlacementAt(RESERVED_MEMORY_IN_BYTES) \subseteq Unreserved
  => /\ placement_memory_address = RESERVED_MEMORY_IN_BYTES
     /\ \A b \in PlacementAt(placement_memory_address) : b \div FRAME_SIZE \in used

(* main returns, with the memory set up or halted by a failure.            *)
BootEnds == <>(At("up") \/ At("halted"))

=============================================================================
