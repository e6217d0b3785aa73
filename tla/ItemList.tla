------------------------------ MODULE ItemList ------------------------------
(***************************************************************************)
(* What linked_list.h promises: a sequence of payloads that grows at its   *)
(* end and is deleted as a whole, walked from its front and counted.       *)
(***************************************************************************)
EXTENDS Sequences, Naturals

CONSTANT Payloads

VARIABLES list, answer

vars == <<list, answer>>

Init == list = <<>> /\ answer = <<"none">>

\* There is memory for another item, or the list stays as it is.
Add(payload) == list' = Append(list, payload) /\ answer' = <<"added">>
AddFails == answer' = <<"no memory">> /\ UNCHANGED list

Delete == list' = <<>> /\ answer' = <<"deleted">>
Length == answer' = <<"length", Len(list)>> /\ UNCHANGED list
Iterate == answer' = <<"visited", list>> /\ UNCHANGED list

Next ==
  \/ \E payload \in Payloads : Add(payload)
  \/ AddFails
  \/ Delete \/ Length \/ Iterate

Spec == Init /\ [][Next]_vars
=============================================================================
