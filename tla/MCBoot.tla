------------------------------- MODULE MCBoot -------------------------------
(***************************************************************************)
(* What the boot loader may hand over.  Entries begin and end at a few     *)
(* addresses around the reserved memory, all in the low word.              *)
(***************************************************************************)
EXTENDS Boot

MCPast == {Cleared}

Corners == {0, 3, 4, 6, 8, 12}

LowEntry(start, end, type) ==
  [base_addr_high |-> 0, base_addr_low |-> start,
   length_high |-> 0, length_low |-> end - start, type |-> type]

LowEntries ==
  {LowEntry(r[1], r[2], r[3]) :
     r \in {q \in Corners \X Corners \X {1, 2} : q[1] <= q[2]}}

End(entry) == entry.base_addr_low + entry.length_low

\* At most three entries, ascending and disjoint, as firmware reports them.
SortedMaps ==
  {<<>>} \cup {<<e>> : e \in LowEntries}
  \cup {m \in LowEntries \X LowEntries : End(m[1]) <= m[2].base_addr_low}
  \cup {m \in LowEntries \X LowEntries \X LowEntries :
          /\ End(m[1]) <= m[2].base_addr_low
          /\ End(m[2]) <= m[3].base_addr_low}

Range(start, end) == [mod_start |-> start, mod_end |-> end]

\* The kernel as it is.
PlainInfos ==
  [magic : BOOLEAN, mmap_valid : BOOLEAN, mmap : SortedMaps, calls : {FALSE},
   elf_valid : {FALSE}, elf_sec : {[addr |-> 0, size |-> 0]}, mods : {<<>>}]

\* The kernel with the calls: one or two entries of RAM, and memory to block
\* below, across, at and behind the end of the reserved memory.
LoadedInfos ==
  [magic : {TRUE}, mmap_valid : {TRUE}, mmap : {m \in SortedMaps : Len(m) \in 1 .. 2},
   calls : {TRUE}, elf_valid : BOOLEAN,
   elf_sec : {[addr |-> 1, size |-> 2], [addr |-> 3, size |-> 3], [addr |-> 8, size |-> 2]},
   mods : {<<>>, <<Range(4, 6)>>, <<Range(5, 7), Range(8, 9)>>}]

MCBootInfos == PlainInfos \cup LoadedInfos
ASSUME OrdinaryAssumption == OrdinaryMaps

MCStrayModules == {Range(0, 0), Range(6, 8), Range(9, 3)}
=============================================================================
