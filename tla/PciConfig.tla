------------------------------ MODULE PciConfig ------------------------------
(***************************************************************************)
(* The PCI configuration space as pci.c reaches it: the code packs bus,    *)
(* device, function and offset into an index, the host bridge takes the    *)
(* index apart again and selects a register of 32 bits.                    *)
(*                                                                         *)
(* A register is a record of its two words.  The words of register 0 are   *)
(* numbers (vendor and device), those of register 1 (command and status)   *)
(* are the sets of the bits that are 1.                                    *)
(***************************************************************************)
EXTENDS Naturals

CONSTANTS
  BUSES, DEVICES, FUNCTIONS   \* 256, 32 and 8 on a PC

ASSUME PciAssumption ==
  /\ BUSES \in 1 .. 256 /\ DEVICES \in 1 .. 32 /\ FUNCTIONS \in 1 .. 8

VARIABLE config   \* a function from Slots to PciFunctions

\* A place without a function has the id Nobody.
Ids == [low : 0 .. 65535, high : 0 .. 65535]
WordBits == SUBSET (0 .. 15)
PciFunctions == [id : Ids, command : WordBits, status : WordBits]

Slots == (0 .. BUSES - 1) \X (0 .. DEVICES - 1) \X (0 .. FUNCTIONS - 1)

Nobody == [low |-> 65535, high |-> 65535]
Rtl8139Id == [low |-> 4332, high |-> 33081]   \* 0x10ec, 0x8139

IsPresent(slot) == slot \in Slots /\ config[slot].id # Nobody

COMMAND == 4              \* the offset of the command word
BUS_MASTER == 2           \* bit 2 of the command word, 0x04

-----------------------------------------------------------------------------
\* What is written to port 0xCF8, without the enable bit.
Index(bus, device, func, offset) ==
  bus * 65536 + device * 2048 + func * 256 + (offset \div 4) * 4

\* The host bridge: the slot and the register of an index.
Selected(index) ==
  <<(index \div 65536) % 256, (index \div 2048) % 32, (index \div 256) % 8>>
RegisterOf(index) == (index % 256) \div 4

\* Port 0xCFC.  A function that is not there answers with ones.
DataPort(index) ==
  LET slot == Selected(index) IN
  IF ~ IsPresent(slot) THEN Nobody
  ELSE IF RegisterOf(index) = 0 THEN config[slot].id
       ELSE [low |-> config[slot].command, high |-> config[slot].status]

\* The bits of the status word that a device sets and a one clears; the others are
\* read-only.
ErrorBits == {8} \cup 11 .. 15

\* A write to the data port.
Written(index, dword) ==
  IF ~ IsPresent(Selected(index)) THEN config
  ELSE [config EXCEPT ![Selected(index)].command = dword.low,
                      ![Selected(index)].status = @ \ (dword.high \cap ErrorBits)]

r_pci_32(bus, device, func, pcireg) == DataPort(Index(bus, device, func, pcireg * 4))

IsLowWord(offset) == (offset \div 2) % 2 = 0

pci_read_word(bus, device, func, offset) ==
  LET dword == DataPort(Index(bus, device, func, offset)) IN
  IF IsLowWord(offset) THEN dword.low ELSE dword.high

\* (mutant) the function is left out of the address
pci_write_word_func0(bus, device, func, offset, data) ==
  LET index == Index(bus, device, 0, offset)
  IN Written(index, [DataPort(index) EXCEPT !.low = data])

\* The configuration after pci_write_word: a word is written by reading the
\* register, replacing the word and writing the register.
pci_write_word(bus, device, func, offset, data) ==
  LET index == Index(bus, device, func, offset)
      tmp == DataPort(index)
  IN Written(index, IF IsLowWord(offset) THEN [tmp EXCEPT !.low = data]
                                         ELSE [tmp EXCEPT !.high = data])
=============================================================================
