------------------------------- MODULE Eeprom -------------------------------
(***************************************************************************)
(* The serial EEPROM behind the register Cfg9346 of the network card: a    *)
(* chip select, a clock and one data line in each direction.  The chip     *)
(* acts on rising edges of the clock.  It waits for a start bit, collects  *)
(* two bits of operation and ADDRESS_BITS bits of address, and then puts   *)
(* out the word, most significant bit first, behind one zero.              *)
(***************************************************************************)
EXTENDS Naturals

ADDRESS_BITS == 6
WORD_BITS == 16
Locations == 0 .. 2 ^ ADDRESS_BITS - 1
Words == 0 .. 2 ^ WORD_BITS - 1
READ == 2

\* clk: the last level of the clock; shift: the bits collected, or still to
\* be put out; count: how many; out: the level of the data line.
Standby(clk) == [mode |-> "standby", clk |-> clk, shift |-> 0, count |-> 0, out |-> 1]

IsEdge(ee, clk) == clk = 1 /\ ee.clk = 0

Collect(ee, contents, bit) ==
  LET bits == 2 * ee.shift + bit
      location == bits % 2 ^ ADDRESS_BITS
  IN IF ee.count + 1 < 2 + ADDRESS_BITS
     THEN [ee EXCEPT !.shift = bits, !.count = @ + 1]
     ELSE IF bits \div 2 ^ ADDRESS_BITS = READ
          THEN [ee EXCEPT !.mode = "output", !.shift = contents[location], !.out = 0]
          ELSE Standby(1)

PutOut(ee) ==
  [ee EXCEPT !.out = ee.shift \div 2 ^ (WORD_BITS - 1),
             !.shift = (2 * @) % 2 ^ WORD_BITS]

\* The chip after the driver has set its three lines.
Driven(ee, contents, cs, clk, bit) ==
  IF cs = 0 THEN Standby(clk)
  ELSE IF ~ IsEdge(ee, clk) THEN [ee EXCEPT !.clk = clk]
  ELSE LET seen == [ee EXCEPT !.clk = 1] IN
       CASE ee.mode = "standby" ->
              IF bit = 1 THEN [seen EXCEPT !.mode = "command"] ELSE seen
         [] ee.mode = "command" -> Collect(seen, contents, bit)
         [] ee.mode = "output" -> PutOut(seen)
=============================================================================
