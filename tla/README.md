# A TLA+ model of the kernel

The repository is a small 32-bit x86 kernel that GRUB loads through multiboot. This
directory models the parts of it that carry logic of their own: how the kernel finds
memory at boot, keeps track of it, maps it and hands it out, how it finds and drives
its network card, and the console, list and sorting code around that. TLC checks the
models on small instances; TLAPS proves the invariants of the placement memory, the boot,
the bitmap, the paging code, the heap, the list and the network driver for every size of
each, and that the placement memory, the bitmap, the heap and the list implement their
abstract specifications.

## The system

### Components

| Component | Source | State it keeps | Operations |
|---|---|---|---|
| Placement memory | `placement_memory.c/.h` | `free_memory_areas[]`, `free_memory_area_index` | `clear_placement_memory_array`, `insert_area`, `allocate`, `allocate_area`, `allocate_area_cover` |
| Boot and memory map | `kernel.c` (`main`), `memory_map.c` | place in `main`, `placement_memory_address` | read the multiboot map, block reserved memory, allocate the placement memory, set up the bitmap |
| Frame bitmap | `bitmap.c/.h` | `bitmap[]` | `reset_bitmap`, `set`, `get`, `use_frames_in_bytes`, `next_free_frame_index` |
| Paging | `paging.c`, `kernel.c` (`paging_setup`, `allocate_frame_aligned`) | page directory and tables, CR3 | `paging_setup`, page fault handler with `setup_page` |
| Interrupt dispatch | `isr.c`, `interrupt.asm`, `descriptor_tables.c` | `interrupt_handlers[]`, IDT, GDT | `register_interrupt_handler`, `isr_handler` |
| Kernel heap | `heap_buddy_system_evanw.c` | `buckets[]`, `bucket_limit`, `node_is_split[]`, `base_ptr`, `max_ptr` | `malloc`, `free` |
| Linked list | `collections/linked_list.c` | a ring of items on the heap | `add_to_list`, `delete_list`, `length`, `iterate_over_list` |
| Multiboot ELF and modules | `multiboot.c` | none of its own (takes from the placement memory) | `processELF`, `processMods` |
| PCI and RTL8139 | `pci/pci.c` | configuration space, registers of the card, EEPROM, buffers | `init_pcilist` with `r_pci_32`, `pci_read_word`, `pci_write_word`, `read_eeprom` |
| Sorting, shuffling, random | `sort.c`, `random.c` | the array, the stack of calls | `bubblesort`, `quicksort`, `shuffle` |
| Strings, console, port I/O | `common.c` | cursor, video memory | `k_cls`, `k_printf`, `k_itoa`, `k_putchar`, `panic`, ... |

### How they interact

`main` clears the placement memory, and `process_multiboot_memory_map` inserts every
available range of the boot loader's map into it. `main` then blocks the reserved
memory with `allocate_area_cover`, takes its own placement memory with `allocate`,
and marks both in the frame bitmap. `paging_setup` puts the page directory and the
identity tables into the placement memory. From then on a page fault makes
`setup_page` take frames from the bitmap. The heap writes to pages behind its break,
which the page fault handler provides on demand. The linked list takes its items
from the heap. As its last act `main` calls `init_pcilist`, which looks for a network
card and sends one frame. All of them print through `k_printf`. Everything runs on one
CPU, and the IDT has gates for the exceptions 0
to 31 only, so calls do not overlap, except that the page fault handler runs in the
middle of any instruction, and that the network card works beside the CPU. At this commit `main` has the calls of
`paging_setup`, `processELF` and `processMods` commented out. They are live code of
the earlier stages of the kernel: `Paging` models `paging_setup` as written, and `Boot`
models both kernels, the one with and the one without the other two calls.

### What is hard

- The table of the placement memory is edited under a running loop index, its
  operations assume an order that only some of them restore, and its end computation
  `start + size - 1` wraps.
- The tree of the heap doubles in the middle of `malloc`, one bit per pair of buddies
  has to stay the exclusive-or of two states, and the result of the second `list_pop`
  is used without a test.
- `setup_page` edits the directory and the tables through the mapping they define,
  without a TLB flush, and takes frames from a bitmap that is only right if the
  placement memory is where `main` assumes it to be.
- The network card resets, receives and fetches at its own pace, between any two
  accesses of the driver. The driver programs a dozen registers around a reset that
  clears them, shares one address port for all of PCI, reads its EEPROM one clock edge
  at a time, and hands out buffers on a stack it is about to leave.
- A lower part of a quicksort partition may be as long as the range it came from.
- Frames, slots, buckets and heap items run out. Each limit has an off-by-one
  neighbour.

`PROJECT.json` lists these hazards line by line, with the properties that watch them.

### What makes each component correct

- Placement memory: no write outside the table; areas sorted, disjoint and merged;
  every answer is that of a plain set of free bytes; the covering loop ends.
- Boot: a kernel that came up owns placement memory that is RAM and not reserved; it
  halts only for a cause.
- Bitmap: words and masks act as one set of frames.
- Paging: no page shows another page or a table; every frame in use is marked; the
  handler does not fault; no translation changes; an access ends.
- Heap: free, used and held blocks tile the tree at every step; the bits agree with
  the lists; NULL only when nothing is left.
- List: one ring through exactly the live items; no freed item is touched.
- Network driver: it touches no other PCI function; it reads the EEPROM exactly; the
  card is ready when it is told to send and sends the prepared frame; received frames
  stay in their buffer; the driver ends.
- Sorting: sorted, the same elements, nothing behind the array touched; linear depth.
- Console: the screen shows the text, as a ring of cells, each specifier with its own
  argument.

## Modules

| Module | Models | Composition |
|---|---|---|
| `PlacementMemory` | `placement_memory.c`, one action per operation and outcome | base |
| `FreeMap` | the placement memory as a set of free bytes, with the answers of the code | abstract specification of `PlacementMemory` |
| `MCPlacementMemory` | instance, and a client that declares areas in any order | extends `PlacementMemory` |
| `Boot` | `main`, `process_multiboot_memory_map`, `processELF`, `processMods` | extends `PlacementMemory`: every step of `main` takes a step of it |
| `MCBoot` | the memory maps, ELF tables and modules that TLC tries | extends `Boot` |
| `Boot_proofs` | theorems and proofs, about `PlacementMemory` in its first part and about `Boot` in its second | extends `Boot` (and so `PlacementMemory`) and `Arithmetic` |
| `FrameBitmap` | `bitmap.c`, with words and masks | base |
| `FrameSet` | what `bitmap.h` promises: a set of frames | abstract specification of `FrameBitmap` |
| `FrameBitmap_proofs`, `Paging_proofs`, `BuddyHeap_proofs`, `LinkedList_proofs`, `Rtl8139_proofs` | theorems and proofs | each extends the module it is named after, and `Arithmetic` |
| `Arithmetic` | lemmas about division, powers of 2 and smallest numbers | base of the proofs |
| `Paging` | `paging_setup`, `isr_handler`, `setup_page`, the MMU walk | uses the bitmap as the set that `FrameBitmap` is shown to implement |
| `BuddyHeap` | `malloc`, `free`, each loop step by step | base |
| `Allocator` | what callers of a heap rely on | abstract specification of `BuddyHeap` |
| `LinkedList` | `linked_list.c` over a heap that may refuse | uses `malloc` as `Allocator` describes it |
| `ItemList` | a sequence of payloads | abstract specification of `LinkedList` |
| `PciConfig` | the index and data ports of PCI and the functions of `pci.c` on them | base |
| `Eeprom` | the serial EEPROM behind three lines (external) | base |
| `Rtl8139` | `init_pcilist`: scan and driver, beside the card | extends `PciConfig` and `Eeprom` |
| `MCRtl8139` | machines and EEPROM contents | extends `Rtl8139` |
| `Sort` | `shuffle`, `bubblesort`, `quicksort` | base |
| `Sort_proofs` | theorems and proofs | extends `Sort` |
| `Console` | `k_cls`, `k_printf`, `k_itoa`, `k_putchar`, `panic` | base |
| `Terminal` | a ring of cells that shows text and numerals | abstract specification of `Console` |
| `MCConsole` | calls with their arguments | extends `Console` |

### PlacementMemory

`free_memory_areas` and `free_memory_area_index` are the variables of the code. `call`
records the running or last call with its arguments and result, and `scan` is the loop
index `i` of `allocate_area_cover`. `insert_area`, `allocate` and `allocate_area` each
take one step, because nothing can interrupt them and their loops only search or shift.
`allocate_area_cover` takes one step per iteration (`cover_step`) because it edits the
table it walks. Addresses are `0 .. W - 1` with the wrap-around of unsigned
arithmetic, where the code has 2^64.

The loops that erase a slot copy slot `free_memory_area_index` as well. In a full
table that slot lies behind the array, and the value read there is any member of the
constant `Past`.

There are two clients. `Next` calls anything with any argument. `UsageNext` follows
the usage of the header: clear, declare the free areas, then allocate. It declares an
area only behind all others or next to a free one without overlap (`Declarable`),
because `insert_area` writes a new area over the slot it found and moves nothing: an
area below others replaces one of them.

`FreeMap` has the effects that `placement_memory.h` describes and the answers that
`placement_memory.c` gives. They differ for `allocate`: the header promises a negative
error code (`placement_memory.h`:99-101), the code and its tests have 0.

### Boot

`boot` is the place in `main` and in the map; `mbi` is what the boot loader handed
over: the magic number right or not, the map valid or not, the entries. A wrong magic
number makes the code skip the map and go on, and a missing map or a refused entry
makes it return; both are in the model. The words of an entry are combined as
`memory_map.c` combines them. The result of `allocate_area_cover` is ignored, as in
the code. `OrdinaryMaps` names the maps for which the properties are meant: available RAM
below 4 GB, in ascending order and without overlaps. TLC checks that the maps of its run
are ordinary, and the theorems have it as a hypothesis.

With `mbi.calls` the kernel also runs `processELF` and `processMods`. Refusals of
`allocate_area` are ignored, and from the second module on the loop reads any member of
`StrayModules`, because `mod += sizeof(module_t)` leaves the table. `blocked` remembers
what `allocate_area` did take. `PlacementInRAM` then also says that the placement memory
has none of it.

### FrameBitmap and Paging

A word of the bitmap is the set of its bits. The array has one more word in the model
than in the code, for the memory behind it, since the bound check admits that word.
`Spec` has callers that name frames of the array or one far behind it, as those of the
program and the test do. Nobody names the frames of the word behind it, which the check
would let pass.

In `Paging`, `memory` holds the entries in every frame. A frame that was never written
holds present entries (`Junk`), and the program may overwrite any page it can reach
with such entries, so a table that is not cleared, or that the program can reach,
shows up as a wrong translation. `setup_page` is three steps: take a frame for a
table, install it, map the page. It reads and writes the directory and the tables
through `DirectoryWindow` and `TableWindow`, the MMU's translation of the addresses
the code computes, and a new table is cleared through `TableWindowIn`, the same window
once the directory entry is written, so a wrong recursive entry breaks it in the model
as it would on the machine. `Translate`, `complete_access` and `Junk` describe the hardware and are
marked external in the map.

`ProgramPages` leaves out the recursive window and the last page under every identity
table. `paging_setup` overwrites the entry of that last page with the table's own
frame, so the page is not identity mapped, and a program that wrote to
it would write to its page table.

### BuddyHeap

`run` holds the local variables of the running call. `lower_bucket_limit` (the
iterations of its loop), `search_next`, `take_block`, `split_block` and `malloc_return`
are `malloc`; `free`, `merge_with_buddy` and `free_return` are `free`. A free list is
the sequence of its entries, `node_is_split` the set of nodes whose bit is set. An entry
is unlinked without its bucket, so `list_remove` takes the pointer off every list. The
largest block has at most 2^31 bytes, half the range of a 32-bit `size_t`. `brk`
returns 0 in every case, so the failure branches behind `update_max_ptr` cannot be
taken and are left out.

### LinkedList

`next`, `prev` and `payload` are the fields of all items, `live` the items that
`malloc` has returned and `free` has not taken. Loops take one step per iteration.
The callback of `iterate_over_list` reads the payload and nothing else, as the only
one in the program does.

### PciConfig, Eeprom and Rtl8139

The code packs bus, device, function and offset into the number it writes to 0xCF8, and
`Selected` and `RegisterOf` take that number apart the way the host bridge does, so an
access reaches the function its number names and not the one its caller meant. The
error bits of the status register (`ErrorBits`) are cleared by writing ones.

`Driver` is the code of `init_pcilist`. The three nested loops are one counter,
`SlotAt` gives the function it stands for. A step of the driver is one register access
that the card can act on, or one round of a loop of `read_eeprom`; the loops that only
count are left out, since the card may be slower than any of them. The other
disjuncts of `Next` are the card: it ends a reset, receives a frame that passes its
filter, fetches a frame it was given and sends or aborts it. `dma` is the last write of
the card to memory, `wire` the frame it fetched with what `tx_buffer` held then, which
is nothing once the driver has returned. Base address and interrupt line are data: the
ports reach the card at `scan.at`. The write to `Config1` comes while that register is
locked and has no effect. The EEPROM has six address bits, as the command of the driver
assumes.

### Sort

Arrays have one more element than the code's, for the int behind the array that
`shuffle` can reach: its random factor is at most 1.0, so `element_count` is an index
it computes. The random numbers are a choice of indices. `frames` is the stack of
`quicksort_internal`, with the place each call waits at.

### Console

A call of `k_printf` is a format, which is a sequence of characters and specifiers, and
the arguments. Characters are strings of length one. `Words` is what the 32-bit calling
convention pushes for the arguments: one word each, two for a 64-bit number. `format`
and `arg` are the pointers of `k_printf` into the format and into these words: every
specifier takes one word and moves `arg` on by one, whatever was pushed, and `%d` reads
its word as signed. Every call passes an argument for each of its specifiers, and
only the last one may be a 64-bit number (`ConsoleAssumption`): behind a 64-bit argument
the next specifier shows its upper word. No call of the program is of that kind. `%c`
stands for the default branch, which prints its argument as it is. `k_itoa` takes one
step per digit, and the reversal is part of the last. The seven calls of `panic` are
one. `vga_index` is left out.

`Terminal` shows messages: sequences of characters and values. A call maps to the
message its caller means (`Message`), each specifier with the argument that belongs to
it by counting specifiers, not by following `arg`.

## Runs

All are exhaustive. Deadlock is checked except where the program stops: `main` returns
(`boot`), the driver returns and the ring is full (`network_*`), the sort is done
(`sort`), the last call was made or the kernel has panicked (`console`). A run that is
violated stops at the violation.

| Run | Instance | What it shows |
|---|---|---|
| `placement_any` | 2 slots, 5 addresses, any client | `TypeOK`: no sequence of calls counts or writes outside the table. `CoverTerminates`: the covering loop ends. |
| `placement_usage` | 3 slots, 8 addresses, prescribed client | `Separated`, `CleanTail`, `CoverProgress`, and `ImplementsFreeMap`: every call does to a set of free bytes what it should, with the answers of the code |
| `boot` | 2 slots, maps of up to 3 ascending entries over 6 corner addresses, both types; with the calls, maps of 1 or 2 entries, 3 ELF tables, up to 2 modules | `PlacementInRAM`, `HaltsForCause`, `ContiguousRAMMarked`, `BootEnds` |
| `frame_bitmap` | 3 words of 3 bits | `TypeOK`, `ImplementsFrameSet` |
| `paging` | 4 entries per table, 15 frames, 1 identity table | `TypeOK`, `Isolation`, `InUseIsMarked`, `HandlerWindows`, `MappingsStable`, `AccessCompletes` |
| `heap` | 4 block sizes (16 to 128 bytes), 5 request sizes | `TypeOK`, `Tiling`, `SplitBits`, `Coalesced`, `Reserved`, `GrowYieldsBlock`, `NullOnlyWhenExhausted`, `Returns`, `ImplementsAllocator` |
| `linked_list` | 4 items, 2 payloads | `Ring`, `NoDangling`, `Returns`, `ImplementsSequence` |
| `placement_phantom` | 3 slots, 6 addresses, areas declared in any order | violated: `AllocateAreaTakesFree` |
| `network_card` | 3 buses of 2 devices of 2 functions, up to 2 present, 3 EEPROMs, ring of 4 units | `EepromExact`, `RxContained`, `OnlyNicConfigured`, `SentPrepared`, `TransmitEnds`, `DriverEnds` |
| `sort` | every array of up to 5 of 4 values | `SortsArray`, `DepthBound` |
| `console` | 3 columns, 2 lines, words of 8 bits, 28 calls, of which 3 are made, and a panic | `ImplementsTerminal` |
| `network_sent` | as `network_card` | violated: `SendingDone` |

### Why the bounds are enough

- Placement memory: eight addresses hold three areas with gaps, so a full table, an
  area between two others, a merge with both neighbours and a cover that erases one
  area and trims two all occur. The any-client run has two slots so that the table is
  full after two calls, and 5 addresses so that every wrap occurs.
- Heap: with four sizes the tree doubles three times, used and unused, and blocks
  split and merge over three levels. The requests fill a block of each size exactly,
  and 121 is one byte too many for the largest.
- Bitmap: three words of three bits, so the search crosses words. The code's arithmetic
  treats the 32 bits of a word alike.
- Paging: fifteen frames minus four reserved and three for the placement memory leave
  eight: enough for two new tables with pages under each, for a second page under a
  table that exists, and for running out at each of the two places where a frame is
  taken. The placement memory starts on or off a frame boundary.
- Boot: the corners lie below, at and above the end of the reserved memory and of the
  placement memory. Three entries exceed the table of two slots. Memory to block lies
  inside an area, at its edge and across it.
- Network card: two functions give a card alone, a card before or after another
  function or a second card, on the same device, on another one and on the bus that is
  not scanned. EEPROM words, addresses and commands have their real widths. The ring
  takes up to three frames, so it fills before and after the buffer is set.
- Sort: five elements with four values hold ascending, descending, constant and mixed
  arrays; the depth bound is met with equality from two elements on.
- Console: three calls print up to eighteen characters on six cells, so text crosses
  the end of a row and of the screen. Numbers include both ends of the range. Calls have
  up to two specifiers, of the same and of different kinds, and one argument of 64 bits (16 in
  the model) at the end; the live calls have no more.
- List: with four items a deletion has a first, an inner and a last item and memory
  can run out before and after.

### Fairness

The kernel has one CPU, no scheduler and no preemption: a function that was called
runs on until it returns. Weak fairness of the steps of a running call (`cover_step`
and `cover_return`, `Continue`, `BootNext`, `Driver`, `Sorting`) states just this. For
the network card, weak fairness of `finish_reset` and `SendCard` says that the hardware
ends a reset and sends what it was given; the driver has no timeout and relies on the
first. Nothing is assumed about arriving frames. No fairness is assumed
for starting a call. `AccessCompletes` asks for two free frames when the access is
tried; with fewer, `setup_page` returns without a mapping and the instruction faults
for ever.

### Where the code and its documents disagree

Each of these is a run that TLC must find violated; `PROJECT.json` has the quotes.

- `placement_phantom`: an area inserted below others overwrites one and leaves a
  counted, cleared slot, whose computed end is the largest address. `allocate_area`
  then succeeds for memory that was never declared free.
- `network_sent`: `transmit_ok & (1 << 15) == 0` is `transmit_ok & 0`, so the driver
  does not wait for the card and returns, with its buffer on the stack, while the frame
  may still have to be fetched.

For some other statements no run of their own was added:

- `placement_memory.h`:99-101 says of `allocate`: "If the allocation fails for any reason
  the return value is a negative error code." `placement_memory.c` answers 0 (lines 168,
  173 and 211), which is also the address of memory at 0; the tests and `main` take 0 for
  a failure. `FreeMap` has the answers of the code, and so `ImplementsFreeMap` does not
  confirm this sentence of the header.
- `common.c`:198-199 says that `k_printf` "Is buggy when using more than one format
  specifier", `placement_memory.c`:65 that it "does not deal with two format strings
  correctly". As run `console` shows, it does if no 64-bit argument has another one behind
  it. In the example at `placement_memory.c`:66 both arguments have 64 bits: `k_printf`
  takes one word for each specifier, so the second one shows the upper word of the first
  argument. `ConsoleAssumption` leaves such calls out.
- `heap_buddy_system_evanw.c`:330 says "Make sure it's possible for an allocation of this
  size to succeed", but `request + HEADER_SIZE` wraps, and a request near the largest
  `size_t` gets a small block.
- `kernel.c`:277-278 says that every entry of the identity tables is filled. The last page
  under each table shows the table.
- "RTL8139 found!" (`pci.c`:339): `realtek8319Found` is reset for every function that is
  present, so a card that another function follows is found but not started.
  `DriverEnds` says exactly when the driver runs.

The model keeps further deviations: the bound check of the bitmap is `>` and accepts the
frames of the word behind the array; the high word of an address is multiplied by
`sizeof(long)`, so RAM above 4 GB is declared at a low address, and `PlacementInRAM`
fails for such a map; it fails for a map that is not ascending, too, since an entry
below earlier ones overwrites one of them (`placement_phantom` shows this of the table
alone); `overlapp` misses an area that contains its first argument; covering an empty
range at address 0 erases everything; `allocate_frame_aligned` moves aligned addresses
too; `setup_page` takes a table frame even when the table exists; the bitmap has one
word more than the managed frames need. The bitmap marks a fixed number of bytes from 0,
so with a gap in RAM behind the reserved memory the frames of the placement memory stay
free (`ContiguousRAMMarked` excludes the gap). An ELF table or module that
`allocate_area` refuses, because it straddles an area or the table is full, is not
blocked. The network driver never looks at the last bus, clears the error bits of the
status word when it sets bus mastering, leaves `mac_address` zero without an EEPROM,
lets the receiver run before its buffer is set and after it is gone (`RxContained` is
about the ring only), and puts a buffer of 8208 bytes on a stack of 8192. `shuffle` may
swap the element behind the array.

## Proofs

Each theorem holds for every value of the constants that satisfies the assumption of its
module. TLC evaluates these assumptions in the runs.

| Module | Theorem | Establishes |
|---|---|---|
| `Boot_proofs`, part 1 | `TypeCorrect` | `Spec => []TypeOK`, any client of `PlacementMemory` |
| | `UsageInvariant`, `UsageSeparated`, `UsageCleanTail`, `UsageCoverProgress` | `UsageSpec => []UsageInv` and its parts |
| | `UsageRefinement` | `UsageSpec => ImplementsFreeMap` |
| `Boot_proofs`, part 2 | `BootInvariant` | `BootSpec => []BootInv`, for the maps of `OrdinaryMaps`, as the next three |
| | `PlacementFound`, `HaltsExplained`, `FramesReserved` | `[]PlacementInRAM`, `[]HaltsForCause`, `[]ContiguousRAMMarked` |
| `FrameBitmap_proofs` | `TypeCorrect` | `Spec => []TypeOK` |
| | `Refinement` | `Spec => ImplementsFrameSet` |
| `Paging_proofs` | `Invariant` | `Spec => []PagingInv` |
| | `TypeCorrect`, `PagesIsolated`, `FramesMarked`, `WindowsFound` | `[]TypeOK`, `[]Isolation`, `[]InUseIsMarked`, `[]HandlerWindows` |
| | `TranslationsStable` | `Spec => MappingsStable` |
| `BuddyHeap_proofs` | `HeapInvariant` | `Spec => []HeapInv` |
| | `HeapTypes`, `BlocksTile`, `BitsMatchLists`, `BuddiesMerge` | `[]TypeOK`, `[]Tiling`, `[]SplitBits`, `[]Coalesced` |
| | `BreakCovers`, `GrowingYields`, `NullIsExhausted` | `[]Reserved`, `[]GrowYieldsBlock`, `[]NullOnlyWhenExhausted` |
| | `HeapRefinement` | `NoWrap` gives `Spec => ImplementsAllocator` |
| `LinkedList_proofs` | `Invariant`, `RingKept`, `NothingDangles` | `Spec => []ListInv`, `[]Ring`, `[]NoDangling` |
| | `Refinement` | `Spec => ImplementsSequence` |
| `Rtl8139_proofs` | `Invariant` | `Spec => []CardInv` |
| | `EepromDelivered`, `ReceiveContained` | `[]EepromExact`, `[]RxContained` |
| | `NicConfigured`, `FramePrepared` | `Spec => OnlyNicConfigured`, `Spec => SentPrepared` |
| `Sort_proofs` | `Invariant`, `TypeCorrect` | `Spec => []SortInv`, `Spec => []TypeOK` |
| | `QuicksortDepth` | `Spec => []DepthBound` |
| | `SortsCorrectly` | `Spec => []ReturnsSorted`, the safety half of `SortsArray` |

### Placement memory

From `PlacementAssumption`: at least one slot, an address space of at least two
addresses, areas behind the table. `TypeOK` is inductive as it stands. What needs an
argument is that every index stays inside the table and that every computed start and
size is an address. One lemma per operation (`InsertType`, `AllocateType`,
`AllocateAreaType`, `CoverType`), resting on lemmas about `Wrap`, `ShiftLeft`, `SplitAt`
and `Store`.

`Separated` alone is not inductive. An insertion may merge with what an erased area
left behind the last one, which `CleanTail` excludes while areas are being declared. A
step of the covering loop computes its cuts from the range in `call`, which has to be
non-empty and inside the address space (first part of `CoverProgress`). So `UsageInv`
is `TypeOK`, `Separated`, `CleanTail` and `CoverProgress` together. The argument:
in a separated table the wrapped ends are the true ends (`ExactEnds`); replacing an
area by a smaller part of it (`ShrinkSeparated`), erasing one (`EraseSeparated`) and
splitting one (`SplitSeparated`) keep the table separated; every outcome of
`allocate`, `allocate_area` and `cover_step` is one of these; for `insert_area`,
`InsertNeighbours` shows that a declarable area that meets no neighbour lies strictly
between two areas or behind the last one, and `StoreAppends` that the branch which
overwrites a slot is taken only behind the last one.

The refinement needs to know what each edit of the table does to the set of bytes that
the areas hold (`StoreBytes`, `CutBytes`, `EraseBytes`, `SplitBytes`), and from these what
each operation does to it (`InsertBytes`, `AllocateBytes`, `AllocateAreaBytes`,
`CoverBytes`, `CoverReturnBytes`). Two facts tie the answers to it. A table is full exactly
if the free bytes fall into as many runs as it has slots: in a separated table each area is
one run, so the areas and the first bytes of the runs correspond one to one (`RunStarts`,
`RunCount`). And a range that is free lies in one area, which has its smallest byte by
`LeastNatural` (`InOneArea`), so the search for an area finds whatever the set has to offer,
and the first one large enough gives the lowest address.

### Boot

From `BootAssumption`: an address space of two words, the reserved memory and the
placement memory are not empty, and together they are whole frames (45 MB of 4 kB frames
in the code). And for the maps of `OrdinaryMaps`: RAM above 4 GB is declared at a wrong
address, and an entry below earlier ones overwrites one of them, so neither can be left out.

`BootInv` is `UsageInv`, the types, and `MemoryInv`, which follows the free bytes through
`main`: the RAM of the entries read so far (`RAMRead`); then all available RAM but for what
was blocked (`Declared`); while the reserved memory is being blocked, a set between that and
what of it lies above (`Room`); then exactly `Room`, from which `allocate` takes the lowest
range that fits (`Placed`). What the operations do to the free bytes comes from the lemmas
of the first part. Every call that `main` makes is one of the prescribed
usage, so `UsageInv` needs no second proof (`TableKept`): ascending entries are
declarable (`ReadsEntry`), and a range of two words, whatever `processMods` read there, does
not leave the address space (`BlockRange`). Although `main` does not look at the result of
`allocate_area_cover`, the call cannot fail: it would have to split an area that begins
below address 0 (`Blocking`). Of the table, only the number of slots in use counts, against
the number of entries read (`InsertCount`): more entries than slots are the only way to
fill it.

A first attempt at `HaltsExplained` failed for a bitmap with fewer frames than `main` has to
mark: a cause that `HaltsForCause` did not name, and that the run does not meet.

### Frame bitmap

From `BitmapAssumption`: any number of frames, words of any positive width. `Position`
and `FrameAt` show that frames and pairs of word and bit correspond one to one, so that
writing a bit changes one frame (`SetRefines`). `Lowest` shows that the smallest pair
of word and bit that the search meets is the lowest free frame. Each operation is then
one of `FrameSet`, with the same answer. `TypeOK` needs no strengthening.

### Paging

From `PagingAssumption`: two or more entries per table, at least one table left for the
program, and a placement memory that holds the directory and the identity tables and
follows the reserved memory. The last one is what `ContiguousRAMMarked` of `Boot`
establishes; without it `use_frames_in_bytes` marks the wrong frames, and `InUseIsMarked`
is false. The bitmap is the set that `FrameBitmap` is proved to implement.

`Isolation` and `InUseIsMarked` are not inductive: between its three steps `setup_page`
holds a frame that no table refers to yet, and it finds its tables through entries of
the very directory it edits. `PagingInv` adds that the last entry of the directory
refers to the directory and that no two tables share a frame (`Tables`), that the frame in
the hands of the handler is marked and not yet in use and the page it works for is not
mapped (`Handler`), and that nothing was taken from the bitmap before paging is on
(`BeforePaging`). From these `DirectoryFound` and `TableFound` show that the windows lead
where they should. An action that writes to a frame which is no table changes no
translation (`SameTranslations`), and the two that write to tables get a lemma each.
`MappingsStable` comes out of the same case analysis (`Stable`).

### Kernel heap

From `HeapAssumption`: at least two block sizes, none above 2^31 bytes; a header and a list
entry that fit the smallest block (8 bytes each of 16 in the code); requests that are
32-bit numbers. The bound on the sizes is what makes the powers of 2 a matter of
arithmetic (`Powers`): the prover has no induction over them. `HeapInv` has five parts.

- `TypeOK`.
- `TreeInv`: what `Tiling`, `SplitBits` and `Coalesced` say, in terms of pointers instead
  of node numbers, about the free blocks, the allocations and the block in hand; before
  the first allocation, nothing is set up (`Untouched`). The three belong together:
  `free` decides from one bit whether the buddy is free, so a wrong bit breaks the tiling,
  and a tiling that is broken makes the bits meaningless.
- `BreakInv`: `Reserved`, and the same for the block in hand, whose right halves get a
  list entry as it is cut down.
- `HeaderInv`: every allocation is in a block that has room for it, header included.
- `SearchInv`: the buckets between the one the search stands at and the one it began at
  are empty, and a tree that was grown above a used root has the right child on the list.
  These give `NullOnlyWhenExhausted` and `GrowYieldsBlock`.

The argument is about sets of blocks; `Tree` holds of the three sets, the root and the
bits, and one lemma per kind of step keeps it: taking a free block (`TakeTree`), cutting
one (`SplitTree`), merging with the buddy (`MergeTree`), giving back (`ReturnTree`), and
doubling a free or a used tree (`GrowFreeTree`, `GrowUsedTree`). `PushFrees` and
`RemoveUnfrees` connect these sets with the lists. Two facts carry the bits. A block that
becomes free or stops being free changes the exclusive-or of its parent and of no other
node: larger nodes were not free and are not, and in smaller ones both halves change
(`DifferChanges`); so the one flip of the code is right (`BitsFlip`). And the bit of the
parent of a held block tells whether its buddy is free (`ParentBit`), as the root's does
of the whole tree (`RootBit`). `UpperNode` and `Halves` show that the index computations
of the code find parent, buddy and halves of every node. Alignment comes from
`MultipleGap` and `MultipleHalf`.

`HeapRefinement` has a hypothesis, `NoWrap`: a request within `HEADER_SIZE` bytes of 2^32
gets a block without room for it (`heap_buddy_system_evanw.c`:334), so the refinement is
false for it. The invariants above hold for such requests too. With `NoWrap`, the blocks of
different allocations lie one behind the other (`BlocksApart`), and each has room for its
header and the size asked for (`UsedRoom`); what the headers say are sizes asked for
(`RequestInvariant`). `malloc_return` is then a step `Malloc` of `Allocator`, `free` a step
`Free`, and all others change nothing a caller sees.

The proof found `Tiling` too weak: as a set of pairs of pointer and bucket it took a block
that is both free and allocated for one block. It now asks that the free blocks, the
allocations and the block in hand have none in common.

### Linked list

From `ListAssumption`: `NULL` is no item. `Ring` speaks of the walk from the head and of
the number of live items; it says nothing of the loops. `ListInv` says instead that some
enumeration `o` of the live items exists, along which `next` and `prev` run in a ring
(`IsRing`), or, while `delete_list` runs, in a chain from the item it stands at
(`IsChain`), and that `length` and `iterate_over_list` have dealt with the items up to
where they stand (`IsWalking`). Adding an item appends to the enumeration, a round of
`delete_list` drops its first member. `WalkRing` shows that the walk follows the
enumeration, which gives `Ring`, `NoDangling` and, through `Contents`, the refinement.
The walk is a recursive function. What the prover cannot do by induction it does with
`LeastNatural`: if the walk left the ring there would be a first position where it does.

The proof of the refinement found a mistake in `ItemList`: its answer that memory has run
out stood under a choice of a payload, and so was not possible for an empty set of
payloads. `AddFails` is now an action of its own.

### Network card

From `PciAssumption` (at most 256 buses, 32 devices, 8 functions), and from
`Rtl8139Assumption`: any functions on the bus, any words in the EEPROM, packets that are
not empty, and a ring that fits its buffer, which is so for the ring of 8192 bytes
that the driver selects in a buffer of 16 bytes more (`pci.c`:836). `CardInv` has four parts.

- `ScanInv`: behind the scan `scan.at` is a network card. `IndexSelects` shows that the
  host bridge takes apart what the code has packed, for every function; so the read of
  the scan sees the function it means, and the write of the command word reaches the card
  (`EnableBusMastering`), which is `OnlyNicConfigured`.
- `ChipInv`: the ring has its smallest size whenever the card receives, and the position
  of the card never passes its end. The card is in reset only where the driver waits for
  it, so the reset clears no register that the driver sets.
- `SendInv`: which parts of the frame are prepared at which place of the driver.
  `SentPrepared` is not inductive: the card may fetch at any time once it owns the
  descriptor, which must come after everything else.
- `EepromInv`: at every bit, what the chip has collected is what the driver has shifted
  out, and what the driver has shifted in are the upper bits of the word whose lower bits
  the chip still holds. `NextBit` and `OneBitOut` are the arithmetic of one bit.

### Sort

From `SortAssumption`: the values are integers. The array has any length, 0 included, and
`shuffle` may have swapped any of its elements with the int behind it.

`DepthBound` says nothing of the data, and is false without it: a partition whose lower
part is as long as its range makes no progress, and only the values rule out that the next
one does the same. So the invariant of the stack (`StackInv`) has to know what each call
knows of its range. `CallInv` has three parts for a call below which `h - 1` others are
nested.

- `InRange`: the indices stay in the range, and the range in the array.
- `Partitioned`: what lies before `split` is smaller than the pivot and the rest up to
  `ptr` is not. Once the pivot is placed, nothing in the lower part is above anything in
  the upper part (`Below`); and once the upper part is being sorted, the lower one is
  sorted.
- `Shrinks`: `h` and the length of the range add up to at most `n + 1`, or to `n + 2` if
  the last element of the range is strictly the largest. A partition whose lower part
  was the whole range leaves the pivot as the strictly largest element behind it, so every
  lower part is of the second kind (`PivotKeeps`); in a range of the second kind the last
  element is above the pivot and stays out of the lower part, which makes that part
  shorter; and the upper part is shorter in any case and inherits the kind of its caller
  (`UpperKeeps`).

A waiting call keeps its part of the invariant because the calls above it move elements
only within the part that it waits for (`MovedWithin`, `Inside`, `WaitingKeeps`).
`StepKeeps`, `CallKeeps` and `ReturnKeeps` are the three things that happen to the stack. A
call returns with its range sorted, since two sorted parts one below the other are
(`Joined`). That gives `SortsCorrectly` at the outermost return, together with `SwapCounts`:
a swap is a bijection between the places of an int before and after. For `bubblesort`,
`Rounds` says that the elements behind the round are in their places and that the round
carries the largest element it has seen. That the sorts return at all stays with TLC, in
`SortsArray`.

### Only model-checked

- Liveness (`CoverTerminates`, `Returns`, `AccessCompletes`, `BootEnds`, `TransmitEnds`,
  `DriverEnds`, `SortsArray`): it needs fairness and ENABLED, which are beyond the prover.
- `ImplementsTerminal`: the numeral that `k_itoa` is to print is defined by recursion.

## Not modelled

- The PCI functions without a caller (`pciConfigReadWord`, `pciCheckVendor`,
  `pcibios_read_config_byte`, `w_pci_32`, `w_pci_8`, `pcibios_write_config_*`), and the
  stack on which the driver keeps its buffers.
- The random numbers: `retrieve_pseudo_random` and the floating point scaling are a
  choice of indices. With a 32-bit `long` its modulus is 0 and the division faults; the
  code is built only by the tests, on a 64-bit host.
- `k_print_float`: called only by `k_dump_free_memory_map`, whose calls are commented
  out. It drops leading zeros of the fraction. The string functions, `k_clear_screen`
  and `k_print_string` have no caller: `k_strcmp` never returns -1, `k_strcpy` and
  `k_strcat` do not copy the end of the string. `k_memset` is used by the descriptor
  tables only.
- Descriptor tables, boot assembly, stack, `recursive_page_tables.c`: constants
  written once, or no logic.
- `completely_contains`, `memory_areas_size`, `k_dump_free_memory_map`: they read the
  table and have no caller in the program (the tests call the first two).
- `sbrk`: its only caller passes 0.

## Plan

1. Extend further: the heap over demand paging, with the page faults of `BuddyHeap`'s
   writes served by `Paging`; boot followed by `paging_setup`, so that the frames the
   bitmap marks are those of `Boot`.
2. Prove more: that `Console` keeps the cursor on the screen, and from it the steps of
   `ImplementsTerminal` other than those of the numerals.
