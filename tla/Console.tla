------------------------------ MODULE Console -------------------------------
(***************************************************************************)
(* The console of common.c: k_cls, k_printf with k_itoa and k_putchar, and *)
(* panic.  A character is a string of length one; a format is a sequence   *)
(* of characters and specifiers.  The arguments lie on the stack as        *)
(* words, one or two for each, and k_printf takes one word for each        *)
(* specifier.  vga_index is left out: only k_print_string reads it, and    *)
(* nothing calls that.                                                     *)
(***************************************************************************)
EXTENDS Integers, FiniteSets, Sequences, SequencesExt

CONSTANTS
  COLUMNS, LINES,
  MODULUS,        \* the values of a word, 2^32 in the code
  Calls,          \* the calls of k_printf: format and arguments
  PanicCall,      \* what panic prints
  MaxCalls        \* how often k_printf is called

Specifiers == {"%d", "%u", "%x", "%s", "%c"}

SpecifiersUpTo(c, i) == Cardinality({j \in 1 .. i : c.format[j] \in Specifiers})

\* Only the last argument of a call may be a 64-bit number.  Behind another one a
\* specifier shows the upper word of that number, not its own argument: the case
\* that placement_memory.c:65 shows ("printf does not deal with two format strings
\* correctly") and common.c:198 warns of ("Is buggy when using more than one
\* format specifier").  No call in the program is of that kind.
ASSUME ConsoleAssumption ==
  /\ COLUMNS \in Nat \ {0} /\ LINES \in Nat \ {0} /\ MODULUS \in 2 .. 1000
  /\ \A c \in Calls \cup {PanicCall} :
       /\ Len(c.args) = SpecifiersUpTo(c, Len(c.format))
       /\ \A i \in 1 .. Len(c.args) - 1 : c.args[i].type # "wide"

VARIABLES
  video,         \* the video memory: a byte of character, a byte of attribute
  xpos, ypos,
  call,          \* the running or last call of k_printf
  format, arg,   \* the pointers into the format and into the words on the stack
  p,             \* the rest of the string that is being put on the screen
  conversion,    \* the variables of k_itoa
  status         \* boot, idle, printing or halted, and what comes after the call

screen == <<video, xpos, ypos>>
walk == <<call, format, arg>>
vars == <<video, xpos, ypos, call, format, arg, p, conversion, status>>

ATTRIBUTE == "grey"
Bytes == 0 .. COLUMNS * LINES * 2 - 1
Idle == [active |-> FALSE, ud |-> 0, divisor |-> 10, sign |-> <<>>, buf |-> <<>>]

-----------------------------------------------------------------------------
\* What the compiler pushes for an argument: a 64-bit number is two words, the
\* lower one first; an int, a character or a pointer to a string is one.
Pushed(a) ==
  CASE a.type = "int"  -> <<a.value % MODULUS>>
    [] a.type = "wide" -> <<a.value % MODULUS, (a.value \div MODULUS) % MODULUS>>
    [] OTHER           -> <<a.value>>

Words(c) == FlattenSeq([i \in DOMAIN c.args |-> Pushed(c.args[i])])

k_cls ==
  /\ status.at = "boot"
  /\ video' = [i \in Bytes |-> "blank"]
  /\ xpos' = 0 /\ ypos' = 0
  /\ status' = [status EXCEPT !.at = "idle"]
  /\ UNCHANGED <<walk, p, conversion>>

StartWalk(c) == call' = c /\ format' = 1 /\ arg' = 1

k_printf(c) ==
  /\ status.at = "idle" /\ status.calls < MaxCalls
  /\ StartWalk(c)
  /\ status' = [at |-> "printing", then |-> "idle", calls |-> status.calls + 1]
  /\ UNCHANGED <<screen, p, conversion>>

\* Prints and goes into an infinite loop.
panic ==
  /\ status.at = "idle"
  /\ StartWalk(PanicCall)
  /\ status' = [status EXCEPT !.at = "printing", !.then = "halted"]
  /\ UNCHANGED <<screen, p, conversion>>

Fetching ==
  /\ status.at = "printing" /\ p = <<>> /\ ~ conversion.active
  /\ format <= Len(call.format)

Element == call.format[format]
Word == Words(call)[arg]

format_char ==
  /\ Fetching /\ Element \notin Specifiers
  /\ p' = <<Element>>
  /\ format' = format + 1
  /\ UNCHANGED <<screen, call, arg, conversion, status>>

format_string ==
  /\ Fetching /\ Element = "%s"
  /\ p' = IF Word = <<"NULL">> THEN <<"(", "n", "u", "l", "l", ")">> ELSE Word
  /\ format' = format + 1 /\ arg' = arg + 1
  /\ UNCHANGED <<screen, call, conversion, status>>

\* (mutant) arg is read but not moved on
format_default_stays ==
  /\ Fetching /\ Element = "%c"
  /\ p' = <<Word>>
  /\ format' = format + 1
  /\ UNCHANGED <<screen, call, arg, conversion, status>>

\* The default branch: every other letter prints its argument as a character.
format_default ==
  /\ Fetching /\ Element = "%c"
  /\ p' = <<Word>>
  /\ format' = format + 1 /\ arg' = arg + 1
  /\ UNCHANGED <<screen, call, conversion, status>>

\* d < 0, for the word as an int
IsNegative(base, d) == base = "%d" /\ 2 * d >= MODULUS

\* k_itoa up to its loop
format_number ==
  LET negative == IsNegative(Element, Word) IN
  /\ Fetching /\ Element \in {"%d", "%u", "%x"}
  /\ conversion' = [active |-> TRUE,
                    ud |-> IF negative THEN MODULUS - Word ELSE Word,
                    divisor |-> IF Element = "%x" THEN 16 ELSE 10,
                    sign |-> IF negative THEN <<"-">> ELSE <<>>,
                    buf |-> <<>>]
  /\ format' = format + 1 /\ arg' = arg + 1
  /\ UNCHANGED <<screen, call, p, status>>

DigitOf(remainder) ==
  <<"0", "1", "2", "3", "4", "5", "6", "7", "8", "9", "a", "b", "c", "d", "e", "f">>[remainder + 1]

\* One round of the loop; the last one is followed by the reversal.
k_itoa ==
  LET buf == Append(conversion.buf, DigitOf(conversion.ud % conversion.divisor))
      ud == conversion.ud \div conversion.divisor
  IN
  /\ conversion.active
  /\ IF ud # 0 THEN conversion' = [conversion EXCEPT !.buf = buf, !.ud = ud] /\ UNCHANGED p
     ELSE conversion' = Idle /\ p' = conversion.sign \o Reverse(buf)
  /\ UNCHANGED <<screen, walk, status>>

RowAfter(y) == IF y + 1 >= LINES THEN 0 ELSE y + 1

newline == xpos' = 0 /\ ypos' = RowAfter(ypos)

k_putchar ==
  LET offset == (xpos + ypos * COLUMNS) * 2 IN
  /\ p # <<>>
  /\ \/ /\ Head(p) \in {"\n", "\r"}
        /\ newline /\ UNCHANGED video
     \/ /\ Head(p) \notin {"\n", "\r"}
        /\ video' = [video EXCEPT ![offset] = Head(p), ![offset + 1] = ATTRIBUTE]
        /\ IF xpos + 1 >= COLUMNS THEN newline ELSE xpos' = xpos + 1 /\ UNCHANGED ypos
  /\ p' = Tail(p)
  /\ UNCHANGED <<walk, conversion, status>>

printf_return ==
  /\ status.at = "printing" /\ p = <<>> /\ ~ conversion.active
  /\ format > Len(call.format)
  /\ status' = [status EXCEPT !.at = status.then]
  /\ UNCHANGED <<screen, walk, p, conversion>>

Init ==
  /\ video = [i \in Bytes |-> "junk"]
  /\ xpos = 0 /\ ypos = 0
  /\ call = [format |-> <<>>, args |-> <<>>] /\ format = 1 /\ arg = 1
  /\ p = <<>> /\ conversion = Idle
  /\ status = [at |-> "boot", then |-> "idle", calls |-> 0]

Next ==
  \/ k_cls \/ panic \/ \E c \in Calls : k_printf(c)
  \/ format_char \/ format_string \/ format_default \/ format_number
  \/ k_itoa \/ k_putchar \/ printf_return

Spec == Init /\ [][Next]_vars

-----------------------------------------------------------------------------
\* The argument that belongs to the specifier at place i of the format.
ArgumentOf(c, i) == c.args[SpecifiersUpTo(c, i)]

\* What a call is meant to show: its characters, and for each specifier the value
\* of the argument that belongs to it.
Message(c) ==
  [i \in DOMAIN c.format |->
     IF c.format[i] \in Specifiers
     THEN [kind |-> c.format[i], content |-> ArgumentOf(c, i).value]
     ELSE [kind |-> "char", content |-> c.format[i]]]

\* A number that is being converted is still to be shown.
ToShow ==
  SubSeq(Message(call), IF conversion.active THEN format - 1 ELSE format,
         Len(call.format))

Shown == INSTANCE Terminal WITH
  Messages <- {Message(c) : c \in Calls \cup {PanicCall}},
  cells <- [i \in 0 .. COLUMNS * LINES - 1 |-> video[2 * i]],
  position <- xpos + ypos * COLUMNS,
  todo <- ToShow,
  pending <- p

(* The walk of k_printf over format and arguments, the two-dimensional     *)
(* cursor with its jump into the newline branch, and the digits that come  *)
(* out of k_itoa last first, amount to a ring of cells that shows the      *)
(* elements of each call in order, every specifier with the argument that  *)
(* belongs to it: no character is lost, doubled or put outside the screen  *)
(* when a text crosses the end of a row or of the screen, and the ends of  *)
(* the number range print right.  For calls of several specifiers this is  *)
(* more than the comments of k_printf promise, and ConsoleAssumption says  *)
(* where they are right.                                                   *)
ImplementsTerminal == Shown!Spec
=============================================================================
