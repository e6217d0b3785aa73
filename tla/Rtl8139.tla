------------------------------ MODULE Rtl8139 -------------------------------
(***************************************************************************)
(* init_pcilist (pci.c): the scan for an RTL8139 network card, and the     *)
(* driver that brings the card up and sends one frame, together with the   *)
(* card, which resets, receives and sends at its own pace.  The driver     *)
(* polls: interrupts are off.                                              *)
(*                                                                         *)
(* One driver step is one access to the card that the card can tell from   *)
(* its neighbours.  The waiting loops that only count are left out, since  *)
(* the card may be slower than any of them.                                *)
(***************************************************************************)
EXTENDS PciConfig, Eeprom, Sequences

CONSTANTS
  Contents,      \* what the EEPROM may hold: functions from Locations to Words
  Machines,      \* what may be plugged in: values of config
  RX_RING,       \* units of the receive ring of RBLEN code 0, 8192 bytes
  RX_BUFFER,     \* whole units in rx_buffer, 8192 + 16 bytes
  PacketSizes    \* units of a packet with its header

\* rx_buffer holds a ring of the size that code 0 selects, and 16 bytes more.
ASSUME Rtl8139Assumption ==
  /\ \A c \in Contents : c \in [Locations -> Words]
  /\ \A m \in Machines : m \in [Slots -> PciFunctions]
  /\ RX_RING \in Nat \ {0} /\ RX_BUFFER \in Nat /\ PacketSizes \subseteq Nat \ {0}
  /\ RX_RING <= RX_BUFFER

VARIABLES
  pc,        \* the place in init_pcilist
  scan,      \* the variables of the scan
  rom,       \* what the EEPROM holds
  ee,        \* the state of the EEPROM chip
  reading,   \* the variables of read_eeprom
  mac,       \* mac_address
  chip,      \* the registers of the card
  tx,        \* the bytes in tx_buffer
  dma,       \* the last packet the card has written to memory
  wire       \* the frame the card has fetched from memory

vars == <<config, pc, scan, rom, ee, reading, mac, chip, tx, dma, wire>>
scanVars == <<config, scan>>
romVars == <<rom, ee, reading, mac>>
busVars == <<dma, wire>>

None == [to |-> "nowhere"]

-----------------------------------------------------------------------------
\* The n-th function in the order of the three loops.
SlotAt(n) == <<n \div (DEVICES * FUNCTIONS), (n \div FUNCTIONS) % DEVICES, n % FUNCTIONS>>

\* The loop ends before the last bus.
ScanCount == (BUSES - 1) * DEVICES * FUNCTIONS

\* (mutant) an empty slot resets it, too
NotedAbsent(slot, data) ==
  IF data = Rtl8139Id THEN [scan EXCEPT !.found = TRUE, !.at = slot]
  ELSE [scan EXCEPT !.found = FALSE]

\* realtek8319Found is reset by every function that is present.
Noted(slot, data) ==
  CASE data = Nobody    -> scan
    [] data = Rtl8139Id -> [scan EXCEPT !.found = TRUE, !.at = slot]
    [] OTHER            -> [scan EXCEPT !.found = FALSE]

scan_function ==
  LET slot == SlotAt(scan.n) IN
  /\ pc = "scan" /\ scan.n < ScanCount
  /\ scan' = [Noted(slot, r_pci_32(slot[1], slot[2], slot[3], 0)) EXCEPT !.n = @ + 1]
  /\ UNCHANGED <<config, pc, romVars, chip, tx, busVars>>

scan_done ==
  /\ pc = "scan" /\ scan.n = ScanCount
  /\ pc' = IF scan.found THEN "start" ELSE "returned"
  /\ UNCHANGED <<scanVars, romVars, chip, tx, busVars>>

-----------------------------------------------------------------------------
\* (mutant) the bit of the memory space
WithMemorySpace(command) == command \cup {1}

WithBusMaster(command) == command \cup {BUS_MASTER}

Begin(location) == [location |-> location, i |-> 11, retval |-> 0]

\* Config1 is written while it is protected, which the card ignores.
enable_bus_mastering ==
  LET bus == scan.at[1]
      device == scan.at[2]
      func == scan.at[3]
      command == pci_read_word(bus, device, func, COMMAND)
  IN
  /\ pc = "start"
  /\ config' = pci_write_word(bus, device, func, COMMAND, WithBusMaster(command))
  /\ pc' = "ee_select"
  /\ reading' = Begin(0)
  /\ UNCHANGED <<scan, rom, ee, mac, chip, tx, busVars>>

-----------------------------------------------------------------------------
\* read_eeprom.  An outb to Cfg9346 sets the lines of the chip.
Lines(e, cs, clk, bit) == Driven(e, rom, cs, clk, bit)
Pulse(e, bit) == Lines(Lines(e, 1, 0, bit), 1, 1, bit)

read_cmd == reading.location + 6 * 2 ^ 6

ee_select ==
  /\ pc = "ee_select"
  /\ ee' = Lines(Lines(ee, 0, 0, 0), 1, 0, 0)
  /\ pc' = "ee_command"
  /\ UNCHANGED <<scanVars, rom, reading, mac, chip, tx, busVars>>

\* One bit of the command; the last one is followed by a low clock.
ee_shift_out ==
  LET i == reading.i - 1
      sent == Pulse(ee, (read_cmd \div 2 ^ i) % 2)
  IN
  /\ pc = "ee_command"
  /\ ee' = IF i = 0 THEN Lines(sent, 1, 0, 0) ELSE sent
  /\ reading' = [reading EXCEPT !.i = IF i = 0 THEN 16 ELSE i]
  /\ pc' = IF i = 0 THEN "ee_data" ELSE "ee_command"
  /\ UNCHANGED <<scanVars, rom, mac, chip, tx, busVars>>

\* (mutant) the data line is read before the clock rises
SampledEarly(e) == e.out

Sampled(e) == Lines(e, 1, 1, 0).out

ee_shift_in ==
  /\ pc = "ee_data"
  /\ reading' = [reading EXCEPT !.retval = 2 * @ + Sampled(ee), !.i = @ - 1]
  /\ ee' = Lines(Pulse(ee, 0), 1, 0, 0)
  /\ pc' = IF reading.i = 1 THEN "ee_done" ELSE "ee_data"
  /\ UNCHANGED <<scanVars, rom, mac, chip, tx, busVars>>

\* The word at location 7, 8 or 9 is two bytes of the address.
StoredMac(location, data) ==
  [mac EXCEPT ![2 * (location - 7)] = data % 256, ![2 * (location - 7) + 1] = data \div 256]

Blank == 2 ^ WORD_BITS - 1

\* The access is terminated.  Without an EEPROM the registers of the card are
\* read and the bytes are dropped.
ee_done ==
  /\ pc = "ee_done"
  /\ ee' = Lines(ee, 0, 1, 1)
  /\ \/ /\ reading.location = 0 /\ reading.retval # Blank
        /\ reading' = Begin(7) /\ pc' = "ee_select" /\ UNCHANGED mac
     \/ /\ reading.location = 0 /\ reading.retval = Blank
        /\ pc' = "reset" /\ UNCHANGED <<reading, mac>>
     \/ /\ reading.location \in 7 .. 9
        /\ mac' = StoredMac(reading.location, reading.retval)
        /\ IF reading.location < 9
           THEN reading' = Begin(reading.location + 1) /\ pc' = "ee_select"
           ELSE pc' = "reset" /\ UNCHANGED reading
  /\ UNCHANGED <<scanVars, rom, chip, tx, busVars>>

-----------------------------------------------------------------------------
\* The registers after a reset.  tsd is the state of transmit descriptor 0:
\* idle, owned by the card, fetched, sent or aborted.
ResetChip ==
  [cmd |-> {}, accept |-> {}, rblen |-> 0, rbstart |-> "zero", cbr |-> 0,
   tsad |-> "zero", tsd |-> "idle", len |-> 0]

reset ==
  /\ pc = "reset"
  /\ chip' = [chip EXCEPT !.cmd = {"RST"}]
  /\ pc' = "resetting"
  /\ UNCHANGED <<scanVars, romVars, tx, busVars>>

\* (mutant) the test is the wrong way round
ResetSeen == "RST" \in chip.cmd

ResetOver == "RST" \notin chip.cmd

await_reset ==
  /\ pc = "resetting" /\ ResetOver
  /\ pc' = "enable"
  /\ UNCHANGED <<scanVars, romVars, chip, tx, busVars>>

\* A write to a register that changes nothing but the registers.
Program(from, to, registers) ==
  /\ pc = from
  /\ chip' = registers
  /\ pc' = to
  /\ UNCHANGED <<scanVars, romVars, tx, busVars>>

enable == Program("enable", "rx_config", [chip EXCEPT !.cmd = {"RE", "TE"}])

\* 0x70a accepts frames for the card and broadcasts.
set_config ==
  Program("rx_config", "rx_buffer", [chip EXCEPT !.accept = {"APM", "AB"}, !.rblen = 0])

\* The buffer is zeroed and given to the card.
set_rx_buffer == Program("rx_buffer", "rx_filter", [chip EXCEPT !.rbstart = "rx_buffer"])

\* (mutant) bit 11 selects a ring of 16 KB
PromiscuousLong == [chip EXCEPT !.accept = {"AB", "AM", "APM", "AAP"}, !.rblen = 1]

\* 0x8f: every frame, and frames are not wrapped at the end of the ring.
Promiscuous == [chip EXCEPT !.accept = {"AB", "AM", "APM", "AAP"}, !.rblen = 0]

set_filter == Program("rx_filter", "fill", Promiscuous)

fill_tx_buffer ==
  /\ pc = "fill"
  /\ tx' = "AAA"
  /\ pc' = "tx_address"
  /\ UNCHANGED <<scanVars, romVars, chip, busVars>>

\* (mutant) the address goes to the register of the next descriptor
AddressNext == chip

AddressCurrent == [chip EXCEPT !.tsad = "tx_buffer"]

set_tx_address == Program("tx_address", "tx_start", AddressCurrent)

\* OWN = 0 and the length: the card may fetch the frame.
start_tx == Program("tx_start", "tx_status", [chip EXCEPT !.tsd = "owned", !.len = 256])

\* transmit_ok & (1 << 15) == 0 means transmit_ok & 0.
Waits == FALSE

\* The status is read once; init_pcilist returns and its buffers are gone.
finish ==
  /\ pc = "tx_status" /\ ~ Waits
  /\ pc' = "returned"
  /\ tx' = "gone"
  /\ UNCHANGED <<scanVars, romVars, chip, busVars>>

Driver ==
  \/ scan_function \/ scan_done \/ enable_bus_mastering
  \/ ee_select \/ ee_shift_out \/ ee_shift_in \/ ee_done
  \/ reset \/ await_reset \/ enable \/ set_config \/ set_rx_buffer \/ set_filter
  \/ fill_tx_buffer \/ set_tx_address \/ start_tx \/ finish

-----------------------------------------------------------------------------
\* The card.
IsMaster == BUS_MASTER \in config[scan.at].command
Card == UNCHANGED <<scanVars, pc, romVars, tx>>

finish_reset ==
  /\ "RST" \in chip.cmd
  /\ chip' = ResetChip
  /\ Card /\ UNCHANGED busVars

Ring == RX_RING * 2 ^ chip.rblen

\* A frame that matches the filter is written behind the last one if there is
\* room up to the read pointer, which the driver never moves.
receive(filter, size) ==
  /\ "RE" \in chip.cmd /\ IsMaster
  /\ filter \in chip.accept
  /\ size < Ring - chip.cbr
  /\ dma' = [to |-> chip.rbstart, first |-> chip.cbr, last |-> chip.cbr + size - 1]
  /\ chip' = [chip EXCEPT !.cbr = @ + size]
  /\ Card /\ UNCHANGED wire

fetch ==
  /\ "TE" \in chip.cmd /\ IsMaster
  /\ chip.tsd = "owned"
  /\ chip' = [chip EXCEPT !.tsd = "fetched"]
  /\ wire' = [to |-> "wire", from |-> chip.tsad, len |-> chip.len, bytes |-> tx]
  /\ Card /\ UNCHANGED dma

transmit(outcome) ==
  /\ chip.tsd = "fetched"
  /\ chip' = [chip EXCEPT !.tsd = outcome]
  /\ Card /\ UNCHANGED busVars

SendCard == fetch \/ \E outcome \in {"sent", "aborted"} : transmit(outcome)
ReceiveCard == \E filter \in {"AB", "AM", "APM", "AAP"}, size \in PacketSizes : receive(filter, size)

Init ==
  /\ config \in Machines
  /\ rom \in Contents
  /\ pc = "scan"
  /\ scan = [n |-> 0, found |-> FALSE, at |-> <<0, 0, 0>>]
  /\ ee = Standby(0)
  /\ reading = Begin(0)
  /\ mac = [i \in 0 .. 5 |-> 0]
  /\ chip = ResetChip
  /\ tx = "gone"
  /\ dma = None /\ wire = None

Next == Driver \/ finish_reset \/ ReceiveCard \/ SendCard

\* The driver runs on; the card ends a reset and sends what it was given.
Spec ==
  /\ Init /\ [][Next]_vars
  /\ WF_vars(Driver) /\ WF_vars(finish_reset) /\ WF_vars(SendCard)

-----------------------------------------------------------------------------
(* read_eeprom delivers the word that is stored at the location, bit by    *)
(* bit over three lines and once for every word, and the address of the    *)
(* card is put together from the words 7 to 9 in the order of its bytes.   *)
EepromExact ==
  /\ pc = "ee_done" => reading.retval = rom[reading.location]
  /\ pc = "reset" /\ rom[0] # Blank =>
       \A i \in 0 .. 2 : mac[2 * i] + 256 * mac[2 * i + 1] = rom[7 + i]

(* Enabling bus mastering through the shared index and data ports touches  *)
(* no function but the network card the scan ended with, and of its        *)
(* command word only the one bit.                                          *)
OnlyNicConfigured ==
  [][\A slot \in Slots : config'[slot] # config[slot] =>
       /\ config[slot].id = Rtl8139Id
       /\ config'[slot].command = config[slot].command \cup {BUS_MASTER}]_vars

(* Frames may arrive from the moment the receiver is on, in any number,    *)
(* and the driver never reads them: what the card writes to the receive    *)
(* buffer stays inside its 8192 + 16 bytes.                                *)
RxContained == dma.to = "rx_buffer" => dma.last < RX_BUFFER

(* A frame that the card fetches while the driver still runs is the one    *)
(* the driver has prepared: the right buffer, filled, with its length.     *)
SentPrepared ==
  [][wire' # wire /\ pc # "returned" =>
       /\ wire'.from = "tx_buffer" /\ wire'.len = 256 /\ wire'.bytes = "AAA"]_vars

(* The card is ready when it is told to send: transmitter, bus mastering   *)
(* and descriptor are set up and have survived the reset, so the frame is  *)
(* fetched and sent or given up.                                           *)
TransmitEnds == pc = "tx_status" ~> chip.tsd \in {"sent", "aborted"}

\* The network card is the last function that the scan meets.
CardIsLast ==
  \E n \in 0 .. ScanCount - 1 :
    /\ config[SlotAt(n)].id = Rtl8139Id
    /\ \A m \in n + 1 .. ScanCount - 1 : config[SlotAt(m)].id = Nobody

(* init_pcilist returns, with or without a card, provided that the card    *)
(* ends its reset: the wait for it has no other end.  By then the driver   *)
(* has told the card to send exactly if the card was the last function of  *)
(* the scan, wherever that is: no empty slot behind it makes the scan      *)
(* forget the card ("RTL8139 found!", pci.c:339), but any other function   *)
(* does, because pci.c:330 resets realtek8319Found for each.               *)
DriverEnds ==
  <>(pc = "returned" /\ (chip.tsd # "idle" <=> CardIsLast))

-----------------------------------------------------------------------------
(* "Waiting for transmit_ok done" and "Sending done.": the card has        *)
(* reported the end of the transmission when the driver goes on.           *)
SendingDone ==
  pc = "returned" /\ scan.found => chip.tsd \in {"sent", "aborted"}
=============================================================================
