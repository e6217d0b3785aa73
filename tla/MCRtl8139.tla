----------------------------- MODULE MCRtl8139 ------------------------------
(***************************************************************************)
(* Machines and EEPROMs for Rtl8139.                                       *)
(***************************************************************************)
EXTENDS Rtl8139, FiniteSets

\* A card as the firmware leaves it: I/O space on, bus mastering on or off, a
\* capability (4, read-only) and an error (13) noted in the status word or not.
Cards == [id : {Rtl8139Id}, command : {{0}, {0, 2}}, status : {{}, {4, 13}}]
Others == [id : {[low |-> 32902, high |-> 4663]}, command : {{0, 1}}, status : {{13}}]
Absent == [id |-> Nobody, command |-> {}, status |-> {}]

\* At most two functions are present.
MCMachines ==
  {[slot \in Slots |-> IF slot = a THEN f ELSE IF slot = b THEN g ELSE Absent] :
     a \in Slots, b \in Slots, f \in Cards \cup Others, g \in Cards \cup Others \cup {Absent}}

Filled(first, words) == [l \in Locations |-> IF l = 0 THEN first
                                             ELSE IF l \in 7 .. 9 THEN words[l - 6] ELSE l]

\* 52:54:00:12:34:56; a pattern of edges; no EEPROM at all.
MCContents ==
  {Filled(33065, <<21586, 4608, 22068>>), Filled(1, <<32769, 0, 65534>>),
   [l \in Locations |-> Blank]}
=============================================================================
