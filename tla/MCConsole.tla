----------------------------- MODULE MCConsole ------------------------------
(***************************************************************************)
(* Calls of k_printf for Console, on words of 8 bits.                      *)
(***************************************************************************)
EXTENDS Console

Printf(f, as) == [format |-> f, args |-> as]
Number(n) == [type |-> "int", value |-> n]
Wide(n) == [type |-> "wide", value |-> n]
Letter(c) == [type |-> "char", value |-> c]
Str(s) == [type |-> "string", value |-> s]

\* 258 is a number with an upper word.  Letters and strings take one word.
MCCalls ==
  {Printf(<<>>, <<>>),
   Printf(<<"A", "\n", "B">>, <<>>),
   Printf(<<"%s", "C">>, <<Str(<<>>)>>),
   Printf(<<"%s">>, <<Str(<<"NULL">>)>>),
   Printf(<<"%s", "%d">>, <<Str(<<"E", "\r">>), Number(7)>>),
   Printf(<<"%c", "%c">>, <<Letter("F"), Letter("G")>>),
   Printf(<<"%x", " ", "%d", "\n">>, <<Number(26), Number(26)>>)}
  \cup {Printf(<<s>>, <<Number(n)>>) : s \in {"%d", "%u", "%x"}, n \in {-128, -1, 0, 9, 10, 127}}
  \cup {Printf(<<"[", "%d", ",">>, <<Wide(5)>>), Printf(<<"%x">>, <<Wide(258)>>),
        Printf(<<"%u", "%x">>, <<Number(3), Wide(258)>>)}

MCPanicCall == Printf(<<"P", "%s", "%d", "\n">>, <<Str(<<"m">>), Number(42)>>)
=============================================================================
