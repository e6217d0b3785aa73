------------------------------ MODULE Terminal ------------------------------
(***************************************************************************)
(* What the callers of k_printf rely on: the screen is a ring of cells,    *)
(* the elements of a message fill them one after the other, each with its  *)
(* own value, a line end goes on with the next row, and a number appears   *)
(* as its numeral.                                                         *)
(***************************************************************************)
EXTENDS Integers, Sequences

CONSTANTS
  COLUMNS, LINES,
  MODULUS,      \* the values of an unsigned int, 2^32 in the code
  Messages      \* sequences of characters and values to be shown

VARIABLES
  cells, position,
  todo,         \* the rest of the message
  pending       \* the rest of the text of the element before it

Size == COLUMNS * LINES

DigitChars ==
  <<"0", "1", "2", "3", "4", "5", "6", "7", "8", "9", "a", "b", "c", "d", "e", "f">>

Value(base, digits) ==
  LET value[i \in 0 .. Len(digits)] ==
        IF i = 0 THEN 0 ELSE base * value[i - 1] + digits[i]
  IN value[Len(digits)]

\* Without leading zeros; three digits are enough for MODULUS <= 1000.
Numerals(base) ==
  UNION {{d \in [1 .. k -> 0 .. base - 1] : k = 1 \/ d[1] # 0} : k \in 1 .. 3}

Numeral(base, v) ==
  LET digits == CHOOSE d \in Numerals(base) : Value(base, d) = v
  IN [i \in DOMAIN digits |-> DigitChars[digits[i] + 1]]

Text(e) ==
  CASE e.kind \in {"char", "%c"} -> <<e.content>>
    [] e.kind = "%s" ->
         IF e.content = <<"NULL">> THEN <<"(", "n", "u", "l", "l", ")">> ELSE e.content
    [] e.kind = "%x" -> Numeral(16, e.content % MODULUS)
    [] e.kind = "%u" -> Numeral(10, e.content % MODULUS)
    [] e.kind = "%d" -> IF e.content < 0 THEN <<"-">> \o Numeral(10, - e.content)
                        ELSE Numeral(10, e.content)

\* The texts, worked out once.
Texts == [e \in UNION {{m[i] : i \in DOMAIN m} : m \in Messages} |-> Text(e)]

Init ==
  /\ cells \in [0 .. Size - 1 -> {"junk"}]
  /\ position = 0
  /\ todo = <<>> /\ pending = <<>>

Clear ==
  /\ cells' = [i \in 0 .. Size - 1 |-> "blank"]
  /\ position' = 0
  /\ UNCHANGED <<todo, pending>>

Begin ==
  /\ todo = <<>> /\ pending = <<>>
  /\ todo' \in Messages
  /\ UNCHANGED <<cells, position, pending>>

Say ==
  /\ pending = <<>> /\ todo # <<>>
  /\ pending' = Texts[Head(todo)]
  /\ todo' = Tail(todo)
  /\ UNCHANGED <<cells, position>>

Put ==
  /\ pending # <<>>
  /\ IF Head(pending) \in {"\n", "\r"}
     THEN /\ position' = ((position \div COLUMNS + 1) * COLUMNS) % Size
          /\ UNCHANGED cells
     ELSE /\ cells' = [cells EXCEPT ![position] = Head(pending)]
          /\ position' = (position + 1) % Size
  /\ pending' = Tail(pending)
  /\ UNCHANGED todo

Spec == Init /\ [][Clear \/ Begin \/ Say \/ Put]_<<cells, position, todo, pending>>
=============================================================================
