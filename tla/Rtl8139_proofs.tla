---------------------------- MODULE Rtl8139_proofs -----------------------------
(***************************************************************************)
(* Proofs about Rtl8139, for every PCI bus, every contents of the EEPROM   *)
(* and every size of the receive ring and of packets.                      *)
(***************************************************************************)
EXTENDS Rtl8139, Arithmetic

-----------------------------------------------------------------------------
\* The inductive invariant, in four parts

EepromPlaces == {"ee_select", "ee_command", "ee_data", "ee_done"}

Places ==
  EepromPlaces \cup
  {"scan", "start", "reset", "resetting", "enable", "rx_config", "rx_buffer",
   "rx_filter", "fill", "tx_address", "tx_start", "tx_status", "returned"}

(* The scan remembers a network card, and the driver runs with one only.   *)
ScanInv ==
  /\ pc \in Places
  /\ config \in [Slots -> PciFunctions]
  /\ scan \in [n : 0 .. ScanCount, found : BOOLEAN, at : Slots]
  /\ scan.found => config[scan.at].id = Rtl8139Id
  /\ pc \notin {"scan", "returned"} => scan.found

(* The card is idle until it is reset and enabled, and keeps to its ring.  *)
ChipInv ==
  /\ chip \in [cmd : SUBSET {"RST", "RE", "TE"},
               accept : SUBSET {"AB", "AM", "APM", "AAP"},
               rblen : {0}, rbstart : {"zero", "rx_buffer"}, cbr : 0 .. RX_RING,
               tsad : {"zero", "tx_buffer"},
               tsd : {"idle", "owned", "fetched", "sent", "aborted"},
               len : {0, 256}]
  /\ "RST" \in chip.cmd => pc = "resetting"
  /\ dma.to = "rx_buffer" => dma.last \in 0 .. RX_RING - 1

(* The frame is prepared before the card may fetch it.                     *)
SendInv ==
  /\ pc \notin {"tx_status", "returned"} => chip.tsd = "idle"
  /\ pc \in {"tx_address", "tx_start", "tx_status"} => tx = "AAA"
  /\ pc \in {"tx_start", "tx_status"} => chip.tsad = "tx_buffer"
  /\ pc = "tx_status" => chip.len = 256

Word == rom[reading.location]

(* What the driver has still to shift out or in, and what the chip holds.  *)
WireInv ==
  /\ pc = "ee_select" => reading.i = 11 /\ reading.retval = 0
  /\ pc = "ee_command" =>
       /\ reading.i \in 1 .. 11 /\ reading.retval = 0
       /\ reading.i > 8 => ee.mode = "standby" /\ ee.shift = 0 /\ ee.count = 0
       /\ reading.i <= 8 =>
            /\ ee.mode = "command" /\ ee.count = 8 - reading.i
            /\ ee.shift + 2 ^ (8 - reading.i) = read_cmd \div 2 ^ reading.i
  /\ pc = "ee_data" =>
       /\ reading.i \in 1 .. 16
       /\ ee.mode = "output" /\ ee.clk = 0
       /\ ee.shift = (Word % 2 ^ reading.i) * 2 ^ (16 - reading.i)
       /\ reading.retval = Word \div 2 ^ reading.i
  /\ pc = "ee_done" => reading.retval = Word

(* The words of the address that have been read are in mac_address.        *)
MacWord(i) == mac[2 * i] + 256 * mac[2 * i + 1] = rom[7 + i]

EepromChip == [mode : {"standby", "command", "output"}, clk : {0, 1}, shift : Nat,
               count : Nat, out : Nat]

EepromInv ==
  /\ rom \in [Locations -> Words]
  /\ ee \in EepromChip
  /\ reading \in [location : {0, 7, 8, 9}, i : 0 .. 16, retval : Nat]
  /\ mac \in [0 .. 5 -> Nat]
  /\ WireInv
  /\ pc \in EepromPlaces => \A i \in 0 .. 2 : 7 + i < reading.location => MacWord(i)
  /\ pc = "reset" /\ rom[0] # Blank => \A i \in 0 .. 2 : MacWord(i)

CardInv == ScanInv /\ ChipInv /\ SendInv /\ EepromInv

-----------------------------------------------------------------------------
\* The configuration space

(* The scanned ranges are not empty and fit the fields of an address.      *)
LEMMA Sizes ==
  /\ BUSES \in Nat /\ DEVICES \in Nat /\ FUNCTIONS \in Nat
  /\ 0 < BUSES /\ 0 < DEVICES /\ 0 < FUNCTIONS
  /\ BUSES <= 256 /\ DEVICES <= 32 /\ FUNCTIONS <= 8
BY PciAssumption

(* A slot of the scan is a bus, a device and a function of PCI's widths.   *)
LEMMA SlotParts ==
  ASSUME NEW slot \in Slots
  PROVE  /\ slot[1] \in 0 .. 255 /\ slot[2] \in 0 .. 31 /\ slot[3] \in 0 .. 7
         /\ slot = <<slot[1], slot[2], slot[3]>>
BY Sizes DEF Slots

(* The host bridge takes apart what the code has packed.                   *)
LEMMA IndexSelects ==
  ASSUME NEW slot \in Slots, NEW offset \in {0, COMMAND}
  PROVE  /\ Selected(Index(slot[1], slot[2], slot[3], offset)) = slot
         /\ RegisterOf(Index(slot[1], slot[2], slot[3], offset)) = offset \div 4
<1>1. (offset \div 4) * 4 = offset /\ offset \in {0, 4}
  BY DEF COMMAND
<1>2. PICK b \in 0 .. 255, d \in 0 .. 31, f \in 0 .. 7 :
        slot[1] = b /\ slot[2] = d /\ slot[3] = f /\ slot = <<b, d, f>>
  BY SlotParts
<1>3. PICK index : index = Index(b, d, f, offset)
  OBVIOUS
<1>4. index = b * 65536 + d * 2048 + f * 256 + offset
  BY <1>1, <1>3 DEF Index
<1>5. /\ index \div 65536 = b
      /\ index \div 2048 = b * 32 + d
      /\ index \div 256 = b * 256 + d * 8 + f
      /\ index % 256 = offset
  <2>1. index \div 65536 = b
    BY <1>1, <1>4
  <2>2. index \div 2048 = b * 32 + d
    BY <1>1, <1>4
  <2>3. index \div 256 = b * 256 + d * 8 + f
    BY <1>1, <1>4
  <2>4. index % 256 = offset
    BY <1>1, <1>4
  <2> QED
    BY <2>1, <2>2, <2>3, <2>4
<1>6. b % 256 = b /\ (b * 32 + d) % 32 = d /\ (b * 256 + d * 8 + f) % 8 = f
  OBVIOUS
<1>7. Selected(index) = <<b, d, f>> /\ RegisterOf(index) = offset \div 4
  BY <1>5, <1>6 DEF Selected, RegisterOf
<1> QED
  BY <1>2, <1>3, <1>7

(* What the data port shows of a function.                                 *)
LEMMA DataPortShows ==
  ASSUME NEW slot \in Slots, IsPresent(slot)
  PROVE  /\ r_pci_32(slot[1], slot[2], slot[3], 0) = config[slot].id
         /\ DataPort(Index(slot[1], slot[2], slot[3], COMMAND))
              = [low |-> config[slot].command, high |-> config[slot].status]
<1>1. 0 * 4 = 0 /\ 0 \div 4 = 0 /\ COMMAND \div 4 = 1
  BY DEF COMMAND
<1> QED
  BY <1>1, IndexSelects DEF r_pci_32, DataPort

(* A slot without a device answers with all bits set.                      *)
LEMMA NobodyThere ==
  ASSUME NEW slot \in Slots, ~ IsPresent(slot)
  PROVE  r_pci_32(slot[1], slot[2], slot[3], 0) = Nobody
<1>1. 0 * 4 = 0
  OBVIOUS
<1> QED
  BY <1>1, IndexSelects DEF r_pci_32, DataPort

(* The number of slots the scan visits is a natural number.                *)
LEMMA CountType == ScanCount \in Nat
BY Sizes DEF ScanCount

(* The loops of the scan stay inside the buses.                            *)
LEMMA ScanSlots ==
  ASSUME NEW n \in 0 .. ScanCount - 1
  PROVE  SlotAt(n) \in Slots
<1> DEFINE df == DEVICES * FUNCTIONS
<1>1. df \in Nat \ {0} /\ ScanCount = (BUSES - 1) * df /\ n \in Nat
  <2>1. DEVICES * FUNCTIONS \in Nat \ {0}
    BY Sizes
  <2>2. (BUSES - 1) * DEVICES * FUNCTIONS = (BUSES - 1) * (DEVICES * FUNCTIONS)
    BY Sizes
  <2> QED
    BY <2>1, <2>2 DEF ScanCount
<1>2. n \div df \in 0 .. (BUSES - 1) - 1
  <2> HIDE DEF df
  <2>1. BUSES - 1 \in Nat /\ n \in 0 .. (BUSES - 1) * df - 1
    BY <1>1, Sizes
  <2> QED
    BY <1>1, <2>1, DivBelow
<1>3. (n \div FUNCTIONS) % DEVICES \in 0 .. DEVICES - 1
  <2>1. n \div FUNCTIONS \in Int /\ DEVICES \in Nat \ {0}
    BY <1>1, Sizes, DivMod
  <2> QED
    BY <2>1, DivMod
<1>4. n % FUNCTIONS \in 0 .. FUNCTIONS - 1
  <2>1. n \in Int /\ FUNCTIONS \in Nat \ {0}
    BY <1>1, Sizes
  <2> QED
    BY <2>1, DivMod
<1>5. 0 .. (BUSES - 1) - 1 \subseteq 0 .. BUSES - 1
  BY Sizes
<1> QED
  BY <1>2, <1>3, <1>4, <1>5 DEF SlotAt, Slots

-----------------------------------------------------------------------------
\* The scan

(* Probing one function keeps the scan's invariant: the card is configured
   exactly when the scan has passed its slot.                              *)
LEMMA ScanFunction ==
  ASSUME ScanInv, scan_function
  PROVE  ScanInv'
<1> DEFINE slot == SlotAt(scan.n)
           data == r_pci_32(slot[1], slot[2], slot[3], 0)
<1>1. /\ pc = "scan" /\ scan.n \in 0 .. ScanCount - 1
      /\ scan' = [Noted(slot, data) EXCEPT !.n = @ + 1]
      /\ config' = config /\ pc' = pc
  BY CountType DEF scan_function, ScanInv
<1>2. slot \in Slots
  BY <1>1, ScanSlots
<1>3. data = Rtl8139Id => config[slot].id = Rtl8139Id
  <2>1. CASE IsPresent(slot)
    BY <1>2, <2>1, DataPortShows
  <2>2. CASE ~ IsPresent(slot)
    <3>1. data = Nobody
      BY <1>2, <2>2, NobodyThere
    <3> QED
      BY <3>1 DEF Nobody, Rtl8139Id
  <2> QED
    BY <2>1, <2>2
<1> HIDE DEF slot, data
<1>4. /\ data = Nobody => Noted(slot, data) = scan
      /\ data = Rtl8139Id => Noted(slot, data) = [scan EXCEPT !.found = TRUE, !.at = slot]
      /\ data # Nobody /\ data # Rtl8139Id => Noted(slot, data) = [scan EXCEPT !.found = FALSE]
  BY DEF Noted, Nobody, Rtl8139Id
<1>5. scan.n + 1 \in 0 .. ScanCount
  BY <1>1, CountType
<1>6. scan' \in [n : 0 .. ScanCount, found : BOOLEAN, at : Slots]
  BY <1>1, <1>2, <1>4, <1>5 DEF ScanInv
<1>7. scan'.found => config'[scan'.at].id = Rtl8139Id
  BY <1>1, <1>2, <1>3, <1>4 DEF ScanInv
<1> QED
  BY <1>1, <1>6, <1>7 DEF ScanInv

(* Only the card is written to, and of its command word one bit set.       *)
LEMMA EnableBusMastering ==
  ASSUME ScanInv, enable_bus_mastering
  PROVE  /\ ScanInv'
         /\ \A slot \in Slots : config'[slot] # config[slot] =>
              /\ config[slot].id = Rtl8139Id
              /\ config'[slot].command = config[slot].command \cup {BUS_MASTER}
<1> DEFINE at == scan.at
           index == Index(at[1], at[2], at[3], COMMAND)
<1>1. at \in Slots /\ config[at].id = Rtl8139Id /\ config[at] \in PciFunctions
  BY DEF ScanInv, enable_bus_mastering
<1>2. IsPresent(at)
  BY <1>1 DEF IsPresent, Nobody, Rtl8139Id
<1>3. /\ DataPort(index) = [low |-> config[at].command, high |-> config[at].status]
      /\ Selected(index) = at /\ IsLowWord(COMMAND)
  BY <1>1, <1>2, DataPortShows, IndexSelects DEF IsLowWord, COMMAND
<1> DEFINE command == config[at].command \cup {BUS_MASTER}
           errors == config[at].status \cap ErrorBits
           dword == [[low |-> config[at].command, high |-> config[at].status]
                       EXCEPT !.low = command]
<1>4. config' = [config EXCEPT ![at].command = command,
                               ![at].status = @ \ errors]
  <2>1. config' = Written(index, dword)
    BY <1>3 DEF enable_bus_mastering, pci_write_word, pci_read_word, WithBusMaster
  <2>2. /\ dword.low = command
        /\ dword.high = config[at].status
    OBVIOUS
  <2> HIDE DEF dword, index, command
  <2> QED
    BY <1>2, <1>3, <2>1, <2>2 DEF Written, errors
<1>5. /\ pc' = "ee_select" /\ scan' = scan /\ scan.found
  BY DEF enable_bus_mastering, ScanInv
<1>6. config[at].command \in WordBits /\ config[at].status \in WordBits
  BY <1>1 DEF PciFunctions
<1>7. command \in WordBits /\ config[at].status \ errors \in WordBits
  BY <1>6 DEF WordBits, BUS_MASTER
<1>8. PICK f, g : f = config /\ g = config'
  OBVIOUS
<1>9. /\ f \in [Slots -> [id : Ids, command : WordBits, status : WordBits]]
      /\ g = [f EXCEPT ![at].command = command, ![at].status = @ \ errors]
  BY <1>4, <1>8 DEF ScanInv, PciFunctions
<1>10. f[at].status \ errors \in WordBits
  BY <1>7, <1>8
<1>11. /\ g \in [Slots -> PciFunctions]
       /\ g[at].id = f[at].id /\ g[at].command = command
       /\ \A slot \in Slots : slot # at => g[slot] = f[slot]
  <2> HIDE DEF command, at, errors
  <2> DEFINE new == [f[at] EXCEPT !.command = command, !.status = @ \ errors]
  <2>1. g = [f EXCEPT ![at] = new]
    BY <1>1, <1>9
  <2>2. new \in PciFunctions /\ new.id = f[at].id /\ new.command = command
    BY <1>1, <1>7, <1>9, <1>10 DEF PciFunctions
  <2> HIDE DEF new
  <2> QED
    BY <1>1, <1>9, <2>1, <2>2 DEF PciFunctions
<1>12. ScanInv'
  BY <1>1, <1>5, <1>8, <1>11 DEF ScanInv, Places, EepromPlaces
<1> QED
  BY <1>1, <1>8, <1>11, <1>12

(* The end of the three loops leaves the scan's invariant alone.           *)
LEMMA ScanDone ==
  ASSUME ScanInv, scan_done
  PROVE  ScanInv'
<1>1. /\ config' = config /\ scan' = scan
      /\ pc' = IF scan.found THEN "start" ELSE "returned"
  BY DEF scan_done, scanVars
<1> QED
  BY <1>1 DEF ScanInv, Places

(* Behind the scan neither the card nor the driver touches its variables.  *)
LEMMA ScanKept ==
  ASSUME ScanInv, UNCHANGED scanVars, pc' \in Places,
         pc' \notin {"scan", "returned"} => pc \notin {"scan", "returned"}
  PROVE  ScanInv'
BY DEF ScanInv, scanVars

-----------------------------------------------------------------------------
\* The card

EepromActions == ee_select \/ ee_shift_out \/ ee_shift_in \/ ee_done

(* Steps before the reset leave the card as it is.                         *)
LEMMA BeforeReset ==
  ASSUME ScanInv, ChipInv, SendInv,
         scan_function \/ scan_done \/ enable_bus_mastering \/ EepromActions
  PROVE  /\ ChipInv' /\ SendInv' /\ UNCHANGED wire
<1>1. /\ UNCHANGED <<chip, tx, dma, wire>>
      /\ pc \in {"scan", "start"} \cup EepromPlaces
      /\ pc' \in {"scan", "start", "returned", "reset"} \cup EepromPlaces
  BY DEF scan_function, scan_done, enable_bus_mastering, EepromActions, EepromPlaces,
         ee_select, ee_shift_out, ee_shift_in, ee_done, busVars
<1>2. "RST" \notin chip.cmd /\ chip.tsd = "idle"
  BY <1>1 DEF ChipInv, SendInv, EepromPlaces
<1> QED
  BY <1>1, <1>2 DEF ChipInv, SendInv, EepromPlaces

\* What the driver does from the reset on.
SetupActions ==
  \/ reset \/ await_reset \/ enable \/ set_config \/ set_rx_buffer \/ set_filter
  \/ fill_tx_buffer \/ set_tx_address \/ start_tx \/ finish

(* Every register that a frame depends on is set before the card may fetch *)
(* it, and after the reset that would clear it.                            *)
LEMMA Setup ==
  ASSUME ScanInv, ChipInv, SendInv, SetupActions
  PROVE  /\ ScanInv' /\ ChipInv' /\ SendInv' /\ UNCHANGED wire
         /\ pc \notin EepromPlaces /\ pc' \notin EepromPlaces /\ pc' # "reset"
<1>1. CASE reset
  BY <1>1, ScanKept DEF reset, ChipInv, SendInv, ScanInv, busVars, Places, EepromPlaces
<1>2. CASE await_reset
  BY <1>2, ScanKept
  DEF await_reset, ResetOver, ChipInv, SendInv, ScanInv, busVars, Places, EepromPlaces
<1>3. CASE enable
  BY <1>3, ScanKept
  DEF enable, Program, ChipInv, SendInv, ScanInv, busVars, Places, EepromPlaces
<1>4. CASE set_config
  BY <1>4, ScanKept
  DEF set_config, Program, ChipInv, SendInv, ScanInv, busVars, Places, EepromPlaces
<1>5. CASE set_rx_buffer
  BY <1>5, ScanKept
  DEF set_rx_buffer, Program, ChipInv, SendInv, ScanInv, busVars, Places, EepromPlaces
<1>6. CASE set_filter
  BY <1>6, ScanKept
  DEF set_filter, Promiscuous, Program, ChipInv, SendInv, ScanInv, busVars, Places,
      EepromPlaces
<1>7. CASE fill_tx_buffer
  BY <1>7, ScanKept
  DEF fill_tx_buffer, ChipInv, SendInv, ScanInv, busVars, Places, EepromPlaces
<1>8. CASE set_tx_address
  BY <1>8, ScanKept
  DEF set_tx_address, AddressCurrent, Program, ChipInv, SendInv, ScanInv, busVars, Places,
      EepromPlaces
<1>9. CASE start_tx
  <2>1. /\ pc = "tx_start" /\ pc' = "tx_status" /\ UNCHANGED scanVars
        /\ chip' = [chip EXCEPT !.tsd = "owned", !.len = 256]
        /\ tx' = tx /\ dma' = dma /\ wire' = wire
    BY <1>9 DEF start_tx, Program, busVars
  <2>2. ScanInv'
    BY <2>1, ScanKept DEF Places
  <2>3. /\ chip' = [cmd |-> chip.cmd, accept |-> chip.accept, rblen |-> chip.rblen,
                      rbstart |-> chip.rbstart, cbr |-> chip.cbr, tsad |-> chip.tsad,
                      tsd |-> "owned", len |-> 256]
        /\ "RST" \notin chip.cmd
    BY <2>1 DEF ChipInv
  <2>4. ChipInv'
    BY <2>1, <2>3 DEF ChipInv
  <2>5. SendInv'
    BY <2>1, <2>3 DEF SendInv
  <2> QED
    BY <2>1, <2>2, <2>4, <2>5 DEF EepromPlaces
<1>10. CASE finish
  BY <1>10, ScanKept
  DEF finish, ChipInv, SendInv, ScanInv, busVars, Places, EepromPlaces
<1> QED
  BY <1>1, <1>2, <1>3, <1>4, <1>5, <1>6, <1>7, <1>8, <1>9, <1>10 DEF SetupActions

CardActions == finish_reset \/ ReceiveCard \/ SendCard

(* The card writes to its ring only, and fetches only what was prepared.   *)
LEMMA CardStep ==
  ASSUME ScanInv, ChipInv, SendInv, CardActions
  PROVE  /\ ScanInv' /\ ChipInv' /\ SendInv'
         /\ wire' # wire /\ pc # "returned" =>
              wire'.from = "tx_buffer" /\ wire'.len = 256 /\ wire'.bytes = "AAA"
<1>1. UNCHANGED <<pc, tx>> /\ ScanInv'
  BY ScanKept
  DEF CardActions, finish_reset, ReceiveCard, receive, SendCard, fetch, transmit, Card,
      ScanInv
<1>2. CASE finish_reset
  <2>1. pc = "resetting" /\ 0 \in 0 .. RX_RING
    BY <1>2, Rtl8139Assumption DEF finish_reset, ChipInv
  <2>2. chip' = ResetChip /\ dma' = dma /\ wire' = wire
    BY <1>2 DEF finish_reset, busVars
  <2>3. ChipInv'
    BY <1>1, <2>1, <2>2 DEF ResetChip, ChipInv
  <2>4. SendInv'
    BY <1>1, <2>1, <2>2 DEF ResetChip, SendInv
  <2> QED
    BY <1>1, <2>2, <2>3, <2>4
<1>3. CASE ReceiveCard
  <2>1. PICK filter \in {"AB", "AM", "APM", "AAP"}, size \in PacketSizes :
               receive(filter, size)
    BY <1>3 DEF ReceiveCard
  <2>2. size \in Nat \ {0} /\ RX_RING \in Nat
    BY Rtl8139Assumption
  <2>3. Ring = RX_RING
    <3>1. 2 ^ 0 = 1 /\ chip.rblen = 0
      BY DEF ChipInv
    <3> QED
      BY <2>2, <3>1 DEF Ring
  <2>4. /\ chip.cbr \in 0 .. RX_RING /\ size < RX_RING - chip.cbr
        /\ chip' = [chip EXCEPT !.cbr = chip.cbr + size]
        /\ dma' = [to |-> chip.rbstart, first |-> chip.cbr, last |-> chip.cbr + size - 1]
        /\ wire' = wire
    BY <2>1, <2>3 DEF receive, ChipInv
  <2>5. chip.cbr + size \in 0 .. RX_RING /\ dma'.last \in 0 .. RX_RING - 1
    BY <2>2, <2>4
  <2> QED
    BY <1>1, <2>4, <2>5 DEF ChipInv, SendInv
<1>4. CASE fetch
  <2>1. /\ chip.tsd = "owned" /\ dma' = dma
        /\ chip' = [chip EXCEPT !.tsd = "fetched"]
        /\ wire' = [to |-> "wire", from |-> chip.tsad, len |-> chip.len, bytes |-> tx]
    BY <1>4 DEF fetch
  <2>2. pc \in {"tx_status", "returned"}
    BY <2>1 DEF SendInv
  <2> QED
    BY <1>1, <2>1, <2>2 DEF ChipInv, SendInv
<1>5. CASE \E outcome \in {"sent", "aborted"} : transmit(outcome)
  <2>1. PICK outcome \in {"sent", "aborted"} : transmit(outcome)
    BY <1>5
  <2>2. pc \in {"tx_status", "returned"}
    BY <2>1 DEF transmit, SendInv
  <2> QED
    BY <1>1, <2>1, <2>2 DEF transmit, ChipInv, SendInv, busVars
<1> QED
  BY <1>2, <1>3, <1>4, <1>5 DEF CardActions, SendCard

-----------------------------------------------------------------------------
\* The EEPROM

(* A word of the EEPROM has 16 bits.                                       *)
LEMMA WordRange == \A w \in Words : w \in Nat /\ w <= 65535
BY DEF Words, WORD_BITS

(* The EEPROM has 64 words, the addresses of six bits.                     *)
LEMMA LocationRange == Locations = 0 .. 63
BY DEF Locations, ADDRESS_BITS

(* What the EEPROM holds at an address is a 16-bit number.                 *)
LEMMA WordStored ==
  ASSUME NEW l \in 0 .. 63, rom \in [Locations -> Words]
  PROVE  rom[l] \in Nat /\ rom[l] <= 65535
<1>1. rom[l] \in Words
  BY LocationRange
<1> QED
  BY <1>1, WordRange

(* The driver raises the clock behind a low level, so every pulse is an    *)
(* edge for the chip.                                                      *)
LEMMA PulseStandby ==
  ASSUME NEW e \in EepromChip, e.mode = "standby", NEW bit \in {0, 1}
  PROVE  Pulse(e, bit) =
           [e EXCEPT !.clk = 1, !.mode = IF bit = 1 THEN "command" ELSE "standby"]
<1> DEFINE low == [e EXCEPT !.clk = 0]
<1>1. Lines(e, 1, 0, bit) = low
  BY DEF Lines, Driven, IsEdge
<1>2. low \in EepromChip /\ low.mode = "standby" /\ low.clk = 0
  BY DEF EepromChip
<1>3. Lines(low, 1, 1, bit) = IF bit = 1 THEN [[low EXCEPT !.clk = 1] EXCEPT !.mode = "command"]
                                         ELSE [low EXCEPT !.clk = 1]
  BY <1>2 DEF Lines, Driven, IsEdge
<1>4. /\ [[low EXCEPT !.clk = 1] EXCEPT !.mode = "command"] = [e EXCEPT !.clk = 1, !.mode = "command"]
      /\ [low EXCEPT !.clk = 1] = [e EXCEPT !.clk = 1, !.mode = "standby"]
  BY DEF EepromChip
<1> QED
  BY <1>1, <1>3, <1>4 DEF Pulse

(* A clock pulse in command mode hands the chip exactly one bit.           *)
LEMMA PulseCommand ==
  ASSUME NEW e \in EepromChip, e.mode = "command", NEW bit \in {0, 1}
  PROVE  Pulse(e, bit) = Collect([e EXCEPT !.clk = 1], rom, bit)
<1> DEFINE low == [e EXCEPT !.clk = 0]
<1>1. Lines(e, 1, 0, bit) = low
  BY DEF Lines, Driven, IsEdge
<1>2. low \in EepromChip /\ low.mode = "command" /\ low.clk = 0
  BY DEF EepromChip
<1>3. Lines(low, 1, 1, bit) = Collect([low EXCEPT !.clk = 1], rom, bit)
  BY <1>2 DEF Lines, Driven, IsEdge
<1>4. [low EXCEPT !.clk = 1] = [e EXCEPT !.clk = 1]
  BY DEF EepromChip
<1> QED
  BY <1>1, <1>3, <1>4 DEF Pulse

(* A clock pulse in output mode makes the chip present its next bit, and the
   driver samples that bit.                                                *)
LEMMA PulseOutput ==
  ASSUME NEW e \in EepromChip, e.mode = "output", e.clk = 0
  PROVE  /\ Pulse(e, 0) = PutOut([e EXCEPT !.clk = 1])
         /\ Sampled(e) = PutOut([e EXCEPT !.clk = 1]).out
<1> DEFINE low == [e EXCEPT !.clk = 0]
<1>1. Lines(e, 1, 0, 0) = low
  BY DEF Lines, Driven, IsEdge
<1>2. low = e
  BY DEF EepromChip
<1>3. Lines(e, 1, 1, 0) = PutOut([e EXCEPT !.clk = 1])
  BY DEF Lines, Driven, IsEdge
<1> QED
  BY <1>1, <1>2, <1>3 DEF Pulse, Sampled

(* A falling clock changes nothing else.                                   *)
LEMMA ClockFalls ==
  ASSUME NEW e \in EepromChip
  PROVE  Lines(e, 1, 0, 0) = [e EXCEPT !.clk = 0]
BY DEF Lines, Driven, IsEdge

(* Raising chip select starts the chip in command mode with nothing collected. *)
LEMMA EeSelect ==
  ASSUME ScanInv, EepromInv, ee_select
  PROVE  ScanInv' /\ EepromInv'
<1>1. /\ pc = "ee_select" /\ pc' = "ee_command"
      /\ UNCHANGED <<config, scan, rom, reading, mac>>
      /\ ee' = Lines(Lines(ee, 0, 0, 0), 1, 0, 0)
  BY DEF ee_select, scanVars
<1>2. ScanInv'
  BY <1>1, ScanKept DEF scanVars, Places, EepromPlaces
<1>3. Lines(ee, 0, 0, 0) = Standby(0) /\ Standby(0) \in EepromChip
  BY DEF Lines, Driven, Standby, EepromChip
<1>4. ee' = [Standby(0) EXCEPT !.clk = 0]
  BY <1>1, <1>3, ClockFalls
<1>5. ee' \in EepromChip /\ ee'.mode = "standby" /\ ee'.shift = 0 /\ ee'.count = 0
  BY <1>3, <1>4 DEF Standby, EepromChip
<1>6. reading.i = 11 /\ reading.retval = 0
  BY <1>1 DEF EepromInv, WireInv
<1>7. WireInv'
  BY <1>1, <1>5, <1>6 DEF WireInv
<1> QED
  BY <1>1, <1>2, <1>5, <1>7 DEF EepromInv, MacWord, EepromPlaces

(* Bit by bit the chip collects the operation and the location, and it     *)
(* starts to put out the word of this location with the last bit.          *)
LEMMA EeShiftOut ==
  ASSUME ScanInv, EepromInv, ee_shift_out
  PROVE  ScanInv' /\ EepromInv'
<1> DEFINE i == reading.i - 1
           bit == (read_cmd \div 2 ^ i) % 2
           sent == Pulse(ee, bit)
<1>1. /\ pc = "ee_command" /\ UNCHANGED <<config, scan, rom, mac>>
      /\ ee' = IF i = 0 THEN Lines(sent, 1, 0, 0) ELSE sent
      /\ reading' = [reading EXCEPT !.i = IF i = 0 THEN 16 ELSE i]
      /\ pc' = IF i = 0 THEN "ee_data" ELSE "ee_command"
  BY DEF ee_shift_out, scanVars
<1>2. /\ reading.i \in 1 .. 11 /\ reading.retval = 0 /\ ee \in EepromChip
      /\ reading.location \in {0, 7, 8, 9} /\ rom \in [Locations -> Words]
      /\ reading \in [location : {0, 7, 8, 9}, i : 0 .. 16, retval : Nat]
      /\ reading.i > 8 => ee.mode = "standby" /\ ee.shift = 0 /\ ee.count = 0
      /\ reading.i <= 8 =>
           /\ ee.mode = "command" /\ ee.count = 8 - reading.i
           /\ ee.shift + 2 ^ (8 - reading.i) = read_cmd \div 2 ^ reading.i
  BY <1>1 DEF EepromInv, WireInv
<1>3. ScanInv'
  BY <1>1, ScanKept DEF scanVars, Places, EepromPlaces
<1>4. /\ read_cmd = reading.location + 384
      /\ i \in 0 .. 10 /\ i + 1 = reading.i
      /\ reading'.location = reading.location /\ reading'.retval = 0
      /\ reading'.i = IF i = 0 THEN 16 ELSE i
      /\ reading' \in [location : {0, 7, 8, 9}, i : 0 .. 16, retval : Nat]
  BY <1>1, <1>2 DEF read_cmd
<1> HIDE DEF i, bit, sent
<1>5. /\ bit \in {0, 1}
      /\ read_cmd \div 2 ^ i = 2 * (read_cmd \div 2 ^ (i + 1)) + bit
  <2>0. i \in 0 .. 31
    BY <1>4
  <2>1. 2 ^ i \in Nat \ {0} /\ 2 ^ (i + 1) = 2 * 2 ^ i
    BY <2>0, Powers
  <2>2. read_cmd \in Nat
    BY <1>2, <1>4
  <2> QED
    BY <2>1, <2>2, NextBit DEF bit
<1>6. CASE i \in {9, 10}
  <2>1. bit = 0
    <3>1. read_cmd \in 384 .. 393
      BY <1>2, <1>4
    <3>2. CASE i = 9
      BY <3>1, <3>2 DEF bit
    <3>3. CASE i = 10
      BY <3>1, <3>3 DEF bit
    <3> QED
      BY <1>6, <3>2, <3>3
  <2>0. ee.mode = "standby" /\ ee.shift = 0 /\ ee.count = 0
    BY <1>2, <1>4, <1>6
  <2>2. sent = [ee EXCEPT !.clk = 1, !.mode = "standby"]
    <3>1. sent = [ee EXCEPT !.clk = 1, !.mode = IF bit = 1 THEN "command" ELSE "standby"]
      BY <1>2, <1>5, <2>0, PulseStandby DEF sent
    <3> QED
      BY <2>1, <3>1
  <2>3. ee' \in EepromChip /\ ee'.mode = "standby" /\ ee'.shift = 0 /\ ee'.count = 0
    <3>1. ee' = [ee EXCEPT !.clk = 1, !.mode = "standby"]
      BY <1>1, <1>6, <2>2
    <3> QED
      BY <1>2, <2>0, <3>1 DEF EepromChip
  <2>4. pc' = "ee_command" /\ reading'.i \in {9, 10}
    BY <1>1, <1>4, <1>6
  <2>5. WireInv'
    BY <1>4, <2>3, <2>4 DEF WireInv
  <2> QED
    BY <1>1, <1>2, <1>3, <1>4, <2>3, <2>4, <2>5 DEF EepromInv, MacWord, EepromPlaces
<1>7. CASE i = 8
  <2>1. bit = 1 /\ read_cmd' = read_cmd /\ read_cmd \div 2 ^ 8 = 1
    <3>1. read_cmd \in 384 .. 393 /\ read_cmd' = read_cmd
      BY <1>2, <1>4 DEF read_cmd
    <3> QED
      BY <1>7, <3>1 DEF bit
  <2>0. ee.mode = "standby" /\ ee.shift = 0 /\ ee.count = 0
    BY <1>2, <1>4, <1>7
  <2>2. sent = [ee EXCEPT !.clk = 1, !.mode = "command"]
    <3>1. sent = [ee EXCEPT !.clk = 1, !.mode = IF bit = 1 THEN "command" ELSE "standby"]
      BY <1>2, <1>5, <2>0, PulseStandby DEF sent
    <3> QED
      BY <2>1, <3>1
  <2>3. ee' \in EepromChip /\ ee'.mode = "command" /\ ee'.shift = 0 /\ ee'.count = 0
    <3>1. ee' = [ee EXCEPT !.clk = 1, !.mode = "command"]
      BY <1>1, <1>7, <2>2
    <3> QED
      BY <1>2, <2>0, <3>1 DEF EepromChip
  <2>4. pc' = "ee_command" /\ reading'.i = 8
    BY <1>1, <1>4, <1>7
  <2>5. 2 ^ (8 - 8) = 1
    OBVIOUS
  <2>6. WireInv'
    <3>1. /\ reading'.i = 8 /\ reading'.retval = 0 /\ pc' = "ee_command"
          /\ ee'.shift + 2 ^ (8 - reading'.i) = read_cmd' \div 2 ^ reading'.i
          /\ ee'.count = 8 - reading'.i /\ ee'.mode = "command"
      <4>1. reading'.i = 8 /\ reading'.retval = 0
        BY <1>4, <2>4
      <4>2. 8 - reading'.i = 0 /\ 2 ^ (8 - reading'.i) = 1
        BY <4>1
      <4>3. read_cmd' \div 2 ^ reading'.i = 1
        BY <2>1, <4>1
      <4> QED
        BY <2>3, <2>4, <4>1, <4>2, <4>3
    <3> QED
      BY <3>1 DEF WireInv
  <2> QED
    BY <1>1, <1>2, <1>3, <1>4, <2>3, <2>4, <2>6 DEF EepromInv, MacWord, EepromPlaces
<1>8. ASSUME i \in 0 .. 7
      PROVE  /\ sent = Collect([ee EXCEPT !.clk = 1], rom, bit)
             /\ ee.count = 7 - i
             /\ 2 * ee.shift + bit + 2 ^ (8 - i) = read_cmd \div 2 ^ i
  <2>1. ee.mode = "command" /\ ee.count = 8 - reading.i /\ i + 1 = reading.i
        /\ ee.shift + 2 ^ (8 - reading.i) = read_cmd \div 2 ^ reading.i
    BY <1>2, <1>4, <1>8
  <2>2. sent = Collect([ee EXCEPT !.clk = 1], rom, bit)
    BY <1>2, <1>5, <2>1, PulseCommand DEF sent
  <2>3. 7 - i \in 0 .. 31 /\ 8 - i = (7 - i) + 1 /\ 8 - reading.i = 7 - i
    BY <1>4, <1>8
  <2>4. 2 ^ (8 - i) = 2 * 2 ^ (7 - i) /\ 2 ^ (7 - i) \in Nat
    BY <2>3, Powers
  <2>5. PICK s, p, q, r : s = ee.shift /\ p = 2 ^ (7 - i) /\ q = read_cmd \div 2 ^ (i + 1)
                          /\ r = read_cmd \div 2 ^ i
    OBVIOUS
  <2>6. s \in Nat /\ p \in Nat /\ s + p = q /\ r = 2 * q + bit
    BY <1>2, <1>5, <2>1, <2>3, <2>4, <2>5 DEF EepromChip
  <2>7. 2 * s + bit + 2 * p = r
    BY <1>5, <2>6
  <2> QED
    BY <2>1, <2>2, <2>3, <2>4, <2>5, <2>7
<1>9. CASE i \in 1 .. 7
  <2>1. /\ sent = Collect([ee EXCEPT !.clk = 1], rom, bit)
        /\ ee.count = 7 - i
        /\ 2 * ee.shift + bit + 2 ^ (8 - i) = read_cmd \div 2 ^ i
    BY <1>8, <1>9
  <2>2. sent = [[ee EXCEPT !.clk = 1] EXCEPT !.shift = 2 * ee.shift + bit, !.count = @ + 1]
    BY <1>2, <1>9, <2>1 DEF Collect, EepromChip, ADDRESS_BITS
  <2>3. /\ ee' \in EepromChip /\ ee'.mode = "command" /\ ee'.count = 8 - i
        /\ ee'.shift = 2 * ee.shift + bit
    <3>1. ee' = sent
      BY <1>1, <1>9
    <3>2. PICK s : s = 2 * ee.shift + bit
      OBVIOUS
    <3>3. s \in Nat /\ ee.count \in Nat /\ ee.count + 1 = 8 - i
      BY <1>2, <1>4, <1>5, <2>1, <3>2 DEF EepromChip
    <3>4. ee.mode = "command"
      BY <1>2, <1>4, <1>9
    <3> QED
      <4>1. PICK e, n, c : e = ee /\ n = ee' /\ c = ee.count + 1
        OBVIOUS
      <4>2. n = [[e EXCEPT !.clk = 1] EXCEPT !.shift = s, !.count = c]
        BY <1>2, <2>2, <3>1, <3>2, <4>1 DEF EepromChip
      <4>3. n \in EepromChip /\ n.mode = "command" /\ n.count = c /\ n.shift = s
        <5>1. e \in EepromChip /\ e.mode = "command" /\ s \in Nat /\ c \in Nat
          BY <1>2, <3>3, <3>4, <4>1
        <5> QED
          BY <4>2, <5>1 DEF EepromChip
      <4> QED
        BY <3>2, <3>3, <4>1, <4>3
  <2>4. pc' = "ee_command" /\ reading'.i = i /\ read_cmd' = read_cmd
    BY <1>1, <1>4, <1>9 DEF read_cmd
  <2>5. WireInv'
    BY <1>4, <1>9, <2>1, <2>3, <2>4 DEF WireInv
  <2> QED
    BY <1>1, <1>2, <1>3, <1>4, <2>3, <2>4, <2>5 DEF EepromInv, MacWord, EepromPlaces
<1>10. CASE i = 0
  <2>1. /\ sent = Collect([ee EXCEPT !.clk = 1], rom, bit)
        /\ ee.count = 7
        /\ 2 * ee.shift + bit = reading.location + 128
    <3>1. 2 ^ (8 - 0) = 256 /\ read_cmd \div 2 ^ 0 = read_cmd
      BY <1>2, <1>4
    <3>2. ee.shift \in Nat
      BY <1>2 DEF EepromChip
    <3> QED
      BY <1>2, <1>4, <1>5, <1>8, <1>10, <3>1, <3>2
  <2>2. PICK bits : bits = 2 * ee.shift + bit
    OBVIOUS
  <2>3. bits % 64 = reading.location /\ bits \div 64 = 2
    BY <1>2, <2>1, <2>2
  <2>4. sent = [[ee EXCEPT !.clk = 1] EXCEPT !.mode = "output", !.shift = Word, !.out = 0]
    <3>1. PICK e : e = [ee EXCEPT !.clk = 1]
      OBVIOUS
    <3>2. e.shift = ee.shift /\ e.count = 7
      BY <1>2, <2>1, <3>1 DEF EepromChip
    <3>3. 2 * e.shift + bit = bits /\ ~ e.count + 1 < 2 + 6 /\ 2 ^ 6 = 64
      BY <2>2, <3>2
    <3>4. Collect(e, rom, bit) = [e EXCEPT !.mode = "output", !.shift = rom[reading.location],
                                            !.out = 0]
      BY <2>3, <3>3 DEF Collect, ADDRESS_BITS, READ
    <3> QED
      BY <2>1, <3>1, <3>4 DEF Word
  <2>5. Word \in Nat /\ Word <= 65535 /\ Word' = Word
    <3>1. reading.location \in 0 .. 63 /\ rom \in [Locations -> Words]
      BY <1>2
    <3>2. rom' = rom /\ reading'.location = reading.location
      BY <1>1, <1>4
    <3>3. Word = rom[reading.location] /\ Word' = rom'[reading'.location]
      BY DEF Word
    <3>4. PICK w : w = rom[reading.location]
      OBVIOUS
    <3>5. w \in Nat /\ w <= 65535
      BY <3>1, <3>4, WordStored
    <3>6. Word = w /\ Word' = w
      BY <3>2, <3>3, <3>4
    <3> QED
      BY <3>5, <3>6
  <2>0. PICK w : w = Word
    OBVIOUS
  <2>6. sent \in EepromChip /\ sent.mode = "output" /\ sent.shift = w
    <3>1. PICK e : e = ee
      OBVIOUS
    <3>2. sent = [[e EXCEPT !.clk = 1] EXCEPT !.mode = "output", !.shift = w, !.out = 0]
      BY <2>0, <2>4, <3>1
    <3>3. w \in Nat /\ e \in EepromChip
      BY <1>2, <2>0, <2>5, <3>1
    <3> QED
      BY <3>2, <3>3 DEF EepromChip
  <2>7. ee' = [sent EXCEPT !.clk = 0]
    BY <1>1, <1>10, <2>6, ClockFalls
  <2>8. ee' \in EepromChip /\ ee'.mode = "output" /\ ee'.clk = 0 /\ ee'.shift = Word
    BY <2>0, <2>6, <2>7 DEF EepromChip
  <2>9. pc' = "ee_data" /\ reading'.i = 16
    BY <1>1, <1>4, <1>10
  <2>10. (Word % 2 ^ 16) * 2 ^ (16 - 16) = Word /\ Word \div 2 ^ 16 = 0
    BY <2>5
  <2>11. WireInv'
    BY <1>4, <2>5, <2>8, <2>9, <2>10 DEF WireInv
  <2> QED
    BY <1>1, <1>2, <1>3, <1>4, <2>8, <2>9, <2>11 DEF EepromInv, MacWord, EepromPlaces
<1> QED
  BY <1>4, <1>6, <1>7, <1>9, <1>10

(* What the chip has still to put out, one bit later.                      *)
LEMMA OneBitOut ==
  ASSUME NEW w \in Nat, NEW i \in 1 .. 16, NEW shift
  PROVE  shift = (w % 2 ^ i) * 2 ^ (16 - i) =>
         /\ shift \div 2 ^ 15 = (w \div 2 ^ (i - 1)) % 2
         /\ (2 * shift) % 2 ^ 16 = (w % 2 ^ (i - 1)) * 2 ^ (16 - (i - 1))
         /\ w \div 2 ^ (i - 1) = 2 * (w \div 2 ^ i) + ((w \div 2 ^ (i - 1)) % 2)
<1>1. SUFFICES ASSUME shift = (w % 2 ^ i) * 2 ^ (16 - i)
               PROVE  /\ shift \div 2 ^ 15 = (w \div 2 ^ (i - 1)) % 2
                      /\ (2 * shift) % 2 ^ 16 = (w % 2 ^ (i - 1)) * 2 ^ (16 - (i - 1))
                      /\ w \div 2 ^ (i - 1) = 2 * (w \div 2 ^ i)
                                                  + ((w \div 2 ^ (i - 1)) % 2)
  OBVIOUS
<1>2. PICK b, c : b = 2 ^ (i - 1) /\ c = 2 ^ (16 - i)
  OBVIOUS
<1>3. b \in Nat \ {0} /\ c \in Nat \ {0}
  <2>1. i - 1 \in 0 .. 31 /\ 16 - i \in 0 .. 31
    OBVIOUS
  <2> QED
    BY <1>2, <2>1, Powers
<1>4. b * c = 32768
  <2>1. Power(i - 1) * Power(16 - i) = 32768
    BY PowerPairs
  <2>2. b = Power(i - 1) /\ c = Power(16 - i)
    BY <1>2 DEF Power
  <2> QED
    BY <2>1, <2>2
<1>5. 2 ^ i = 2 * b /\ 2 ^ (16 - (i - 1)) = 2 * c
  <2>1. i - 1 \in 0 .. 31 /\ 16 - i \in 0 .. 31 /\ (i - 1) + 1 = i
        /\ (16 - i) + 1 = 16 - (i - 1)
    OBVIOUS
  <2> QED
    BY <1>2, <2>1, Powers
<1>6. PICK bit, low : bit = (w \div b) % 2 /\ low = w % b
  OBVIOUS
<1>7. bit \in {0, 1} /\ w \div b = 2 * (w \div (2 * b)) + bit /\ w % (2 * b) = b * bit + low
  <2>1. /\ (w \div b) % 2 \in {0, 1}
        /\ w \div b = 2 * (w \div (2 * b)) + ((w \div b) % 2)
        /\ w % (2 * b) = b * ((w \div b) % 2) + (w % b)
    BY <1>3, NextBit
  <2> QED
    BY <1>6, <2>1
<1>8. low \in 0 .. b - 1
  BY <1>3, <1>6, DivMod
<1>9. PICK rest : rest = low * c
  OBVIOUS
<1>10. rest \in Nat /\ rest <= 32767 /\ shift = 32768 * bit + rest
  <2>1. rest \in Nat
    BY <1>3, <1>8, <1>9
  <2>2. low * c <= (b - 1) * c
    BY <1>3, <1>8
  <2>3. (b - 1) * c = b * c - c
    BY <1>3
  <2>4. rest <= 32767
    BY <1>3, <1>4, <1>9, <2>1, <2>2, <2>3
  <2>5. (b * bit + low) * c = (b * c) * bit + low * c
    BY <1>3, <1>7, <1>8
  <2>6. shift = (b * bit + low) * c
    BY <1>1, <1>2, <1>5, <1>7
  <2>7. shift = 32768 * bit + rest
    BY <1>4, <1>7, <1>9, <2>5, <2>6
  <2> QED
    BY <2>1, <2>4, <2>7
<1>11. shift \div 32768 = bit /\ (2 * shift) % 65536 = 2 * rest
  BY <1>7, <1>10
<1>12. low * (2 * c) = 2 * rest
  BY <1>3, <1>8, <1>9
<1>13. 2 ^ 15 = 32768 /\ 2 ^ 16 = 65536
  OBVIOUS
<1>14. shift \div 2 ^ 15 = (w \div 2 ^ (i - 1)) % 2
  BY <1>2, <1>6, <1>11, <1>13
<1>15. (2 * shift) % 2 ^ 16 = (w % 2 ^ (i - 1)) * 2 ^ (16 - (i - 1))
  BY <1>2, <1>5, <1>6, <1>11, <1>12, <1>13
<1>16. w \div 2 ^ (i - 1) = 2 * (w \div 2 ^ i) + ((w \div 2 ^ (i - 1)) % 2)
  BY <1>2, <1>5, <1>6, <1>7
<1> QED
  BY <1>14, <1>15, <1>16

(* Each sampled bit extends retval by the next bit of the addressed word.  *)
LEMMA EeShiftIn ==
  ASSUME ScanInv, EepromInv, ee_shift_in
  PROVE  ScanInv' /\ EepromInv'
<1>1. /\ pc = "ee_data" /\ UNCHANGED <<config, scan, rom, mac>>
      /\ reading' = [reading EXCEPT !.retval = 2 * @ + Sampled(ee), !.i = @ - 1]
      /\ ee' = Lines(Pulse(ee, 0), 1, 0, 0)
      /\ pc' = IF reading.i = 1 THEN "ee_done" ELSE "ee_data"
  BY DEF ee_shift_in, scanVars
<1>2. /\ reading \in [location : {0, 7, 8, 9}, i : 0 .. 16, retval : Nat]
      /\ rom \in [Locations -> Words] /\ ee \in EepromChip
  BY DEF EepromInv
<1>3. /\ reading.i \in 1 .. 16
      /\ ee.mode = "output" /\ ee.clk = 0
      /\ ee.shift = (Word % 2 ^ reading.i) * 2 ^ (16 - reading.i)
      /\ reading.retval = Word \div 2 ^ reading.i
  BY <1>1 DEF EepromInv, WireInv
<1>4. ScanInv'
  BY <1>1, ScanKept DEF scanVars, Places, EepromPlaces
<1>5. PICK w, i, shift, out : /\ w = Word /\ i = reading.i /\ shift = ee.shift
                              /\ out = (w \div 2 ^ (i - 1)) % 2
  OBVIOUS
<1>6. w \in Nat /\ i \in 1 .. 16
  <2>1. reading.location \in 0 .. 63
    BY <1>2
  <2> QED
    BY <1>2, <1>3, <1>5, <2>1, WordStored DEF Word
<1>7. /\ shift \div 2 ^ 15 = out
      /\ (2 * shift) % 2 ^ 16 = (w % 2 ^ (i - 1)) * 2 ^ (16 - (i - 1))
      /\ w \div 2 ^ (i - 1) = 2 * (w \div 2 ^ i) + out
  <2>1. shift = (w % 2 ^ i) * 2 ^ (16 - i)
    BY <1>3, <1>5
  <2> QED
    BY <1>5, <1>6, <2>1, OneBitOut
<1>8. PICK left : left = (2 * shift) % 2 ^ 16
  OBVIOUS
<1>9. out \in Nat /\ left \in Nat
  <2>1. 2 ^ (i - 1) \in Nat \ {0} /\ shift \in Nat
    <3>0. i - 1 \in 0 .. 31
      BY <1>6
    <3>1. 2 ^ (i - 1) \in Nat \ {0}
      BY <3>0, Powers
    <3>2. shift \in Nat
      BY <1>2, <1>5 DEF EepromChip
    <3> QED
      BY <3>1, <3>2
  <2>2. w \div 2 ^ (i - 1) \in Int
    BY <1>6, <2>1, DivMod
  <2> QED
    BY <1>5, <1>8, <2>1, <2>2
<1>10. PutOut([ee EXCEPT !.clk = 1]) = [[ee EXCEPT !.clk = 1] EXCEPT !.out = out, !.shift = left]
  <2>1. PICK e : e = [ee EXCEPT !.clk = 1]
    OBVIOUS
  <2>2. e.shift = shift /\ e \in EepromChip
    BY <1>2, <1>5, <2>1 DEF EepromChip
  <2>3. PutOut(e) = [e EXCEPT !.out = e.shift \div 2 ^ 15, !.shift = (2 * e.shift) % 2 ^ 16]
    BY <2>2 DEF PutOut, WORD_BITS, EepromChip
  <2>4. PutOut(e) = [e EXCEPT !.out = out, !.shift = left]
    BY <1>7, <1>8, <2>2, <2>3
  <2> QED
    BY <2>1, <2>4
<1>11. PICK s : s = Pulse(ee, 0)
  OBVIOUS
<1>12. /\ s \in EepromChip /\ s.mode = "output" /\ s.shift = left
       /\ Sampled(ee) = out /\ s = Pulse(ee, 0)
  <2>1. PICK e : e = ee
    OBVIOUS
  <2>2. s = [[e EXCEPT !.clk = 1] EXCEPT !.out = out, !.shift = left] /\ Sampled(ee) = s.out
    BY <1>2, <1>3, <1>10, <1>11, <2>1, PulseOutput
  <2>3. e \in EepromChip /\ e.mode = "output"
    BY <1>2, <1>3, <2>1
  <2> QED
    BY <1>9, <1>11, <2>2, <2>3 DEF EepromChip
<1>13. ee' \in EepromChip /\ ee'.mode = "output" /\ ee'.clk = 0 /\ ee'.shift = left
  <2>1. ee' = [s EXCEPT !.clk = 0]
    BY <1>1, <1>12, ClockFalls
  <2> QED
    BY <1>12, <2>1 DEF EepromChip
<1>14. PICK r, v : r = reading /\ v = 2 * reading.retval + out
  OBVIOUS
<1>15. /\ reading' = [r EXCEPT !.retval = v, !.i = i - 1]
       /\ r \in [location : {0, 7, 8, 9}, i : 0 .. 16, retval : Nat]
       /\ v \in Nat /\ i - 1 \in 0 .. 16 /\ v = w \div 2 ^ (i - 1)
  <2>1. reading' = [r EXCEPT !.retval = v, !.i = i - 1]
    BY <1>1, <1>2, <1>5, <1>12, <1>14
  <2>2. v \in Nat /\ v = w \div 2 ^ (i - 1)
    BY <1>2, <1>3, <1>5, <1>7, <1>9, <1>14
  <2> QED
    BY <1>2, <1>6, <1>14, <2>1, <2>2
<1>16. /\ reading' \in [location : {0, 7, 8, 9}, i : 0 .. 16, retval : Nat]
       /\ reading'.i = i - 1 /\ reading'.retval = v
       /\ reading'.location = reading.location
  BY <1>14, <1>15
<1>17. Word' = w
  BY <1>1, <1>5, <1>16 DEF Word
<1>18. CASE i = 1
  <2>1. v = w /\ pc' = "ee_done"
    BY <1>1, <1>5, <1>6, <1>15, <1>18
  <2>2. WireInv'
    BY <1>16, <1>17, <2>1 DEF WireInv
  <2> QED
    BY <1>1, <1>2, <1>4, <1>13, <1>16, <2>1, <2>2 DEF EepromInv, MacWord, EepromPlaces
<1>19. CASE i # 1
  <2>1. pc' = "ee_data" /\ i - 1 \in 1 .. 16
    BY <1>1, <1>5, <1>6, <1>19
  <2>2. /\ reading'.i \in 1 .. 16 /\ ee'.mode = "output" /\ ee'.clk = 0
        /\ ee'.shift = (Word' % 2 ^ reading'.i) * 2 ^ (16 - reading'.i)
        /\ reading'.retval = Word' \div 2 ^ reading'.i
    BY <1>7, <1>8, <1>13, <1>15, <1>16, <1>17, <2>1
  <2>3. WireInv'
    BY <2>1, <2>2 DEF WireInv
  <2> QED
    BY <1>1, <1>2, <1>4, <1>13, <1>16, <2>1, <2>3 DEF EepromInv, MacWord, EepromPlaces
<1> QED
  BY <1>18, <1>19

(* The two bytes of a word make up the word again.                         *)
LEMMA Stored ==
  ASSUME NEW i \in 0 .. 2, NEW w \in Nat, mac \in [0 .. 5 -> Nat], mac' = StoredMac(7 + i, w)
  PROVE  /\ mac' \in [0 .. 5 -> Nat]
         /\ mac'[2 * i] + 256 * mac'[2 * i + 1] = w
         /\ \A k \in 0 .. 2 : k # i => mac'[2 * k] = mac[2 * k] /\ mac'[2 * k + 1] = mac[2 * k + 1]
<1>1. PICK low, high : low = w % 256 /\ high = w \div 256
  OBVIOUS
<1>2. low \in Nat /\ high \in Nat /\ low + 256 * high = w
  BY <1>1
<1>3. mac' = [mac EXCEPT ![2 * i] = low, ![2 * i + 1] = high]
  <2>1. (7 + i) - 7 = i
    OBVIOUS
  <2> QED
    BY <1>1, <2>1 DEF StoredMac
<1>4. \A k \in 0 .. 2 : 2 * k \in 0 .. 5 /\ 2 * k + 1 \in 0 .. 5
  OBVIOUS
<1>5. mac' \in [0 .. 5 -> Nat] /\ mac'[2 * i] = low /\ mac'[2 * i + 1] = high
  BY <1>2, <1>3, <1>4
<1>6. \A k \in 0 .. 2 : k # i => mac'[2 * k] = mac[2 * k] /\ mac'[2 * k + 1] = mac[2 * k + 1]
  BY <1>3, <1>4
<1> QED
  BY <1>2, <1>5, <1>6

(* A read starts with the eleven bits of its command still to send.        *)
LEMMA BeginType ==
  ASSUME NEW location \in {0, 7, 8, 9}
  PROVE  /\ Begin(location) \in [location : {0, 7, 8, 9}, i : 0 .. 16, retval : Nat]
         /\ Begin(location).location = location
         /\ Begin(location).i = 11 /\ Begin(location).retval = 0
BY DEF Begin

(* The end of a read stores the word that the chip was asked for.          *)
LEMMA EeDone ==
  ASSUME ScanInv, EepromInv, ee_done
  PROVE  ScanInv' /\ EepromInv'
<1>1. /\ pc = "ee_done" /\ UNCHANGED <<config, scan, rom>>
      /\ ee' = Lines(ee, 0, 1, 1) /\ pc' \in {"ee_select", "reset"}
  BY DEF ee_done, scanVars
<1>2. /\ reading \in [location : {0, 7, 8, 9}, i : 0 .. 16, retval : Nat]
      /\ rom \in [Locations -> Words] /\ ee \in EepromChip /\ mac \in [0 .. 5 -> Nat]
  BY DEF EepromInv
<1>3. /\ reading.retval = Word
      /\ \A i \in 0 .. 2 : 7 + i < reading.location => MacWord(i)
  BY <1>1 DEF EepromInv, WireInv, EepromPlaces
<1>4. ScanInv'
  BY <1>1, ScanKept DEF scanVars, Places, EepromPlaces
<1>5. ee' \in EepromChip
  BY <1>1 DEF Lines, Driven, Standby, EepromChip
<1>6. CASE reading.location = 0 /\ reading.retval # Blank
  <2>1. reading' = Begin(7) /\ pc' = "ee_select" /\ mac' = mac
    BY <1>6 DEF ee_done
  <2>2. /\ reading' \in [location : {0, 7, 8, 9}, i : 0 .. 16, retval : Nat]
        /\ reading'.location = 7 /\ reading'.i = 11 /\ reading'.retval = 0
    BY <2>1, BeginType
  <2>3. WireInv'
    BY <2>1, <2>2 DEF WireInv
  <2>4. \A i \in 0 .. 2 : ~ 7 + i < reading'.location
    BY <2>2
  <2> QED
    BY <1>1, <1>2, <1>4, <1>5, <2>1, <2>2, <2>3, <2>4 DEF EepromInv
<1>7. CASE reading.location = 0 /\ reading.retval = Blank
  <2>1. pc' = "reset" /\ UNCHANGED <<reading, mac>>
    BY <1>7 DEF ee_done
  <2>2. rom'[0] = Blank /\ WireInv'
    BY <1>1, <1>3, <1>7, <2>1 DEF Word, WireInv
  <2> QED
    BY <1>1, <1>2, <1>4, <1>5, <2>1, <2>2 DEF EepromInv, EepromPlaces
<1>8. CASE reading.location \in 7 .. 9
  <2>1. PICK i \in 0 .. 2 : reading.location = 7 + i
    BY <1>8
  <2>2. mac' = StoredMac(7 + i, reading.retval)
    BY <1>8, <2>1 DEF ee_done
  <2>3. reading.retval \in Nat /\ reading.retval = rom[7 + i]
    BY <1>2, <1>3, <2>1 DEF Word
  <2>4. /\ mac' \in [0 .. 5 -> Nat]
        /\ mac'[2 * i] + 256 * mac'[2 * i + 1] = rom[7 + i]
        /\ \A k \in 0 .. 2 : k # i => /\ mac'[2 * k] = mac[2 * k]
                                      /\ mac'[2 * k + 1] = mac[2 * k + 1]
    BY <1>2, <2>2, <2>3, Stored
  <2>5. \A k \in 0 .. 2 : k <= i => MacWord(k)'
    <3> SUFFICES ASSUME NEW k \in 0 .. 2, k <= i PROVE MacWord(k)'
      OBVIOUS
    <3>1. CASE k = i
      BY <1>1, <2>4, <3>1 DEF MacWord
    <3>2. CASE k # i
      <4>1. 7 + k < reading.location
        BY <2>1, <3>2
      <4> QED
        BY <1>1, <1>3, <2>4, <3>2, <4>1 DEF MacWord
    <3> QED
      BY <3>1, <3>2
  <2>6. CASE i < 2
    <3>1. reading' = Begin(7 + i + 1) /\ pc' = "ee_select"
      BY <1>8, <2>1, <2>6 DEF ee_done
    <3>2. /\ reading' \in [location : {0, 7, 8, 9}, i : 0 .. 16, retval : Nat]
          /\ reading'.location = 7 + i + 1 /\ reading'.i = 11 /\ reading'.retval = 0
      <4>1. 7 + i + 1 \in {0, 7, 8, 9}
        BY <2>6
      <4> QED
        BY <3>1, <4>1, BeginType
    <3>3. WireInv'
      BY <3>1, <3>2 DEF WireInv
    <3>4. \A k \in 0 .. 2 : 7 + k < reading'.location => MacWord(k)'
      BY <2>5, <3>2
    <3> QED
      BY <1>1, <1>2, <1>4, <1>5, <2>4, <3>1, <3>2, <3>3, <3>4 DEF EepromInv
  <2>7. CASE i = 2
    <3>1. pc' = "reset" /\ reading' = reading
      BY <1>8, <2>1, <2>7 DEF ee_done
    <3>2. WireInv'
      BY <3>1 DEF WireInv
    <3>3. \A k \in 0 .. 2 : MacWord(k)'
      BY <2>5, <2>7
    <3> QED
      BY <1>1, <1>2, <1>4, <1>5, <2>4, <3>1, <3>2, <3>3 DEF EepromInv, EepromPlaces
  <2> QED
    BY <2>6, <2>7
<1> QED
  BY <1>2, <1>6, <1>7, <1>8

(* Nothing else touches the chip or what was read from it.                 *)
LEMMA EepromKept ==
  ASSUME EepromInv, UNCHANGED romVars, pc' \notin EepromPlaces, pc' # "reset"
  PROVE  EepromInv'
BY DEF EepromInv, WireInv, EepromPlaces, romVars

-----------------------------------------------------------------------------
\* The theorems

(* The invariant holds before the scan starts.                             *)
LEMMA InitInv == Init => CardInv
<1> SUFFICES ASSUME Init PROVE CardInv
  OBVIOUS
<1>1. ScanInv
  <2>1. config \in [Slots -> PciFunctions]
    BY Rtl8139Assumption DEF Init
  <2>2. <<0, 0, 0>> \in Slots
    BY Sizes DEF Slots
  <2>3. 0 \in 0 .. ScanCount
    <3>1. ScanCount \in Nat
      BY CountType
    <3> QED
      BY <3>1
  <2> QED
    BY <2>1, <2>2, <2>3 DEF Init, ScanInv, Places
<1>2. ChipInv
  <2>1. 0 \in 0 .. RX_RING
    BY Rtl8139Assumption
  <2> QED
    BY <2>1 DEF Init, ChipInv, ResetChip, None
<1>3. SendInv
  BY DEF Init, SendInv, ResetChip
<1>4. EepromInv
  <2>1. rom \in [Locations -> Words]
    BY Rtl8139Assumption DEF Init
  <2>2. reading \in [location : {0, 7, 8, 9}, i : 0 .. 16, retval : Nat]
    BY BeginType DEF Init
  <2> QED
    BY <2>1, <2>2 DEF Init, EepromInv, WireInv, EepromPlaces, Standby, EepromChip
<1> QED
  BY <1>1, <1>2, <1>3, <1>4 DEF CardInv

(* Every step of the driver and of the card keeps the invariant.           *)
LEMMA NextInv ==
  ASSUME CardInv, [Next]_vars
  PROVE  CardInv'
<1> USE DEF CardInv
<1>1. CASE scan_function
  <2>1. ScanInv' /\ ChipInv' /\ SendInv'
    BY <1>1, ScanFunction, BeforeReset
  <2>2. EepromInv'
    BY <1>1, EepromKept DEF scan_function, EepromPlaces
  <2> QED
    BY <2>1, <2>2
<1>2. CASE scan_done
  <2>1. ScanInv' /\ ChipInv' /\ SendInv'
    BY <1>2, ScanDone, BeforeReset
  <2>2. EepromInv'
    BY <1>2, EepromKept DEF scan_done, EepromPlaces
  <2> QED
    BY <2>1, <2>2
<1>3. CASE enable_bus_mastering
  <2>1. ScanInv' /\ ChipInv' /\ SendInv'
    BY <1>3, EnableBusMastering, BeforeReset
  <2>2. UNCHANGED <<rom, ee, mac>> /\ reading' = Begin(0) /\ pc' = "ee_select"
    BY <1>3 DEF enable_bus_mastering
  <2>3. /\ reading' \in [location : {0, 7, 8, 9}, i : 0 .. 16, retval : Nat]
        /\ reading'.location = 0 /\ reading'.i = 11 /\ reading'.retval = 0
    BY <2>2, BeginType
  <2>4. EepromInv'
    BY <2>2, <2>3 DEF EepromInv, WireInv, EepromPlaces
  <2> QED
    BY <2>1, <2>4
<1>4. CASE EepromActions
  <2>1. ChipInv' /\ SendInv'
    BY <1>4, BeforeReset
  <2>2. ScanInv' /\ EepromInv'
    BY <1>4, EeSelect, EeShiftOut, EeShiftIn, EeDone DEF EepromActions
  <2> QED
    BY <2>1, <2>2
<1>5. CASE SetupActions
  <2>1. ScanInv' /\ ChipInv' /\ SendInv' /\ pc' \notin EepromPlaces /\ pc' # "reset"
    BY <1>5, Setup
  <2>2. UNCHANGED romVars
    BY <1>5 DEF SetupActions, reset, await_reset, enable, set_config, set_rx_buffer, set_filter,
                fill_tx_buffer, set_tx_address, start_tx, finish, Program
  <2> QED
    BY <2>1, <2>2, EepromKept
<1>6. CASE CardActions
  <2>1. ScanInv' /\ ChipInv' /\ SendInv'
    BY <1>6, CardStep
  <2>2. UNCHANGED <<pc, rom, ee, reading, mac>>
    BY <1>6 DEF CardActions, finish_reset, ReceiveCard, receive, SendCard, fetch, transmit,
                Card, romVars
  <2>3. EepromInv'
    BY <2>2 DEF EepromInv, WireInv, MacWord, Word, read_cmd
  <2> QED
    BY <2>1, <2>3
<1>7. CASE UNCHANGED vars
  BY <1>7 DEF vars, ScanInv, ChipInv, SendInv, EepromInv, WireInv, MacWord, Word, read_cmd
<1> QED
  BY <1>1, <1>2, <1>3, <1>4, <1>5, <1>6, <1>7
  DEF Next, Driver, EepromActions, SetupActions, CardActions

(* For every bus, every EEPROM and every size of the ring, the parts of    *)
(* the invariant hold together.                                            *)
THEOREM Invariant == Spec => []CardInv
<1>1. Init => CardInv
  BY InitInv
<1>2. CardInv /\ [Next]_vars => CardInv'
  BY NextInv
<1> QED
  BY <1>1, <1>2, PTL DEF Spec

(* read_eeprom (pci.c) delivers the stored word bit by bit, and the        *)
(* address of the card is made of the words 7 to 9, whatever they are.     *)
THEOREM EepromDelivered == Spec => []EepromExact
<1>1. CardInv => EepromExact
  <2> SUFFICES ASSUME CardInv PROVE EepromExact
    OBVIOUS
  <2>1. pc = "ee_done" => reading.retval = rom[reading.location]
    BY DEF CardInv, EepromInv, WireInv, Word
  <2>2. pc = "reset" /\ rom[0] # Blank =>
          \A i \in 0 .. 2 : mac[2 * i] + 256 * mac[2 * i + 1] = rom[7 + i]
    BY DEF CardInv, EepromInv, MacWord
  <2> QED
    BY <2>1, <2>2 DEF EepromExact
<1> QED
  BY <1>1, Invariant, PTL

(* The receiver is never read (pci.c), and yet what the card writes stays  *)
(* inside rx_buffer, for every sequence of packets.                        *)
THEOREM ReceiveContained == Spec => []RxContained
<1>1. CardInv => RxContained
  <2> SUFFICES ASSUME CardInv, dma.to = "rx_buffer" PROVE dma.last < RX_BUFFER
    BY DEF RxContained
  <2>1. dma.last \in 0 .. RX_RING - 1 /\ RX_RING <= RX_BUFFER /\ RX_RING \in Nat /\ RX_BUFFER \in Nat
    BY Rtl8139Assumption DEF CardInv, ChipInv
  <2> QED
    BY <2>1
<1> QED
  BY <1>1, Invariant, PTL

(* Of all functions on all buses init_pcilist writes to the network card   *)
(* only, and sets one bit of its command word.                             *)
THEOREM NicConfigured == Spec => OnlyNicConfigured
<1>1. CardInv /\ [Next]_vars =>
        [\A slot \in Slots : config'[slot] # config[slot] =>
           /\ config[slot].id = Rtl8139Id
           /\ config'[slot].command = config[slot].command \cup {BUS_MASTER}]_vars
  <2> SUFFICES ASSUME CardInv, Next
               PROVE  \A slot \in Slots : config'[slot] # config[slot] =>
                        /\ config[slot].id = Rtl8139Id
                        /\ config'[slot].command = config[slot].command \cup {BUS_MASTER}
    OBVIOUS
  <2>1. CASE enable_bus_mastering
    BY <2>1, EnableBusMastering DEF CardInv
  <2>2. CASE ~ enable_bus_mastering
    <3>1. config' = config
      BY <2>2 DEF Next, Driver, scan_function, scan_done, ee_select, ee_shift_out, ee_shift_in,
                  ee_done, reset, await_reset, enable, set_config, set_rx_buffer, set_filter,
                  fill_tx_buffer, set_tx_address, start_tx, finish, Program, finish_reset,
                  ReceiveCard, receive, SendCard, fetch, transmit, Card, scanVars
    <3> QED
      BY <3>1
  <2> QED
    BY <2>1, <2>2
<1> QED
  BY <1>1, Invariant, PTL DEF Spec, OnlyNicConfigured

(* A frame that leaves while init_pcilist still runs is the prepared one:  *)
(* start_tx comes last, and behind the reset.                              *)
THEOREM FramePrepared == Spec => SentPrepared
<1>1. CardInv /\ [Next]_vars =>
        [wire' # wire /\ pc # "returned" =>
           /\ wire'.from = "tx_buffer" /\ wire'.len = 256 /\ wire'.bytes = "AAA"]_vars
  <2> SUFFICES ASSUME CardInv, Next, wire' # wire, pc # "returned"
               PROVE  wire'.from = "tx_buffer" /\ wire'.len = 256 /\ wire'.bytes = "AAA"
    OBVIOUS
  <2>1. CardActions
    <3>1. ~ (scan_function \/ scan_done \/ enable_bus_mastering \/ EepromActions)
      BY BeforeReset DEF CardInv
    <3>2. ~ SetupActions
      BY Setup DEF CardInv
    <3> QED
      BY <3>1, <3>2 DEF Next, Driver, EepromActions, SetupActions, CardActions
  <2> QED
    BY <2>1, CardStep DEF CardInv
<1> QED
  BY <1>1, Invariant, PTL DEF Spec, SentPrepared
=============================================================================
