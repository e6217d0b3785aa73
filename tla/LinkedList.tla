----------------------------- MODULE LinkedList -----------------------------
(***************************************************************************)
(* The circular doubly linked list (collections/linked_list.c) over the    *)
(* heap.  The loops of delete_list, length and iterate_over_list take one  *)
(* step per iteration; run holds their local variables.  malloc returns    *)
(* any item that is not live, or NULL.                                     *)
(***************************************************************************)
EXTENDS Integers, FiniteSets, Sequences

CONSTANTS
  Items,     \* the blocks that malloc can return
  Payloads,  \* what the callers store
  NULL

ASSUME ListAssumption == NULL \notin Items

VARIABLES
  linked_list,          \* the head
  next, prev, payload,  \* the fields of all items
  live,                 \* the items that malloc has returned and free has not taken
  run                   \* pc, ptr and partial result of the running call, last answer

fields == <<next, prev, payload>>
vars == <<linked_list, fields, live, run>>

Idle == run.pc = "idle"
Finish(answer) == run' = [pc |-> "idle", ptr |-> NULL, sofar |-> 0, answer |-> answer]
Step(pc, ptr, sofar) ==
  run' = [pc |-> pc, ptr |-> ptr, sofar |-> sofar, answer |-> run.answer]

-----------------------------------------------------------------------------
add_without_memory ==
  /\ Idle
  /\ Finish(<<"no memory">>)
  /\ UNCHANGED <<linked_list, fields, live>>

\* The list is empty: the new item is linked to itself.
add_first(new) ==
  /\ linked_list = NULL
  /\ linked_list' = new
  /\ next' = [next EXCEPT ![new] = new]
  /\ prev' = [prev EXCEPT ![new] = new]

\* (mutant) the prev pointer of the head is forgotten
PrevOneWay(new) == [prev EXCEPT ![new] = prev[linked_list]]

PrevWith(new) == [prev EXCEPT ![new] = prev[linked_list], ![linked_list] = new]

add_last(new) ==
  /\ linked_list # NULL
  /\ next' = [next EXCEPT ![new] = linked_list, ![prev[linked_list]] = new]
  /\ prev' = PrevWith(new)
  /\ UNCHANGED linked_list

add_to_list(new, value) ==
  /\ Idle /\ new \notin live
  /\ add_first(new) \/ add_last(new)
  /\ payload' = [payload EXCEPT ![new] = value]
  /\ live' = live \cup {new}
  /\ Finish(<<"added">>)

-----------------------------------------------------------------------------
delete_empty ==
  /\ Idle
  /\ linked_list = NULL
  /\ Finish(<<"deleted">>)
  /\ UNCHANGED <<linked_list, fields, live>>

delete_single ==
  /\ Idle
  /\ linked_list # NULL /\ next[linked_list] = linked_list
  /\ live' = live \ {linked_list}
  /\ linked_list' = NULL
  /\ Finish(<<"deleted">>)
  /\ UNCHANGED fields

\* The ring is opened in front of the head.
delete_begin ==
  /\ Idle
  /\ linked_list # NULL /\ next[linked_list] # linked_list
  /\ next' = [next EXCEPT ![prev[linked_list]] = NULL]
  /\ prev' = [prev EXCEPT ![linked_list] = NULL]
  /\ Step("delete", linked_list, 0)
  /\ UNCHANGED <<linked_list, payload, live>>

\* (mutant) ptr = ptr->next forgotten
Stay(ptr) == ptr

Advance(ptr) == next[ptr]

\* (mutant) the item just reached
FreedTooFar(ptr) == ptr

\* The item that is freed when ptr has moved on.
FreedBehind(ptr) == prev[ptr]

delete_next ==
  LET ptr == Advance(run.ptr) IN
  /\ run.pc = "delete"
  /\ ptr # NULL
  /\ live' = live \ {FreedBehind(ptr)}
  /\ prev' = [prev EXCEPT ![ptr] = NULL]
  /\ Step("delete", ptr, 0)
  /\ UNCHANGED <<linked_list, next, payload>>

delete_last ==
  /\ run.pc = "delete"
  /\ next[run.ptr] = NULL
  /\ live' = live \ {run.ptr}
  /\ linked_list' = NULL
  /\ Finish(<<"deleted">>)
  /\ UNCHANGED fields

-----------------------------------------------------------------------------
\* (mutant) the count starts at 0
EmptyCount == 0

FirstCount == 1

length_begin ==
  /\ Idle
  /\ IF linked_list = NULL THEN Finish(<<"length", 0>>)
     ELSE Step("length", next[linked_list], FirstCount)
  /\ UNCHANGED <<linked_list, fields, live>>

length_next ==
  /\ run.pc = "length"
  /\ IF run.ptr = linked_list THEN Finish(<<"length", run.sofar>>)
     ELSE Step("length", next[run.ptr], run.sofar + 1)
  /\ UNCHANGED <<linked_list, fields, live>>

\* The function that is called with every item sees the payload, as
\* output_list_item of kernel.c does, and leaves the list alone.
iterate_begin ==
  /\ Idle
  /\ IF linked_list = NULL THEN Finish(<<"visited", <<>>>>)
     ELSE Step("iterate", next[linked_list], <<payload[linked_list]>>)
  /\ UNCHANGED <<linked_list, fields, live>>

iterate_next ==
  /\ run.pc = "iterate"
  /\ IF run.ptr = linked_list THEN Finish(<<"visited", run.sofar>>)
     ELSE Step("iterate", next[run.ptr], Append(run.sofar, payload[run.ptr]))
  /\ UNCHANGED <<linked_list, fields, live>>

-----------------------------------------------------------------------------
Init ==
  /\ linked_list = NULL
  /\ next = [i \in Items |-> NULL]
  /\ prev = [i \in Items |-> NULL]
  /\ payload = [i \in Items |-> NULL]
  /\ live = {}
  /\ run = [pc |-> "idle", ptr |-> NULL, sofar |-> 0, answer |-> <<"none">>]

Continue == delete_next \/ delete_last \/ length_next \/ iterate_next

Next ==
  \/ add_without_memory
  \/ \E new \in Items, value \in Payloads : add_to_list(new, value)
  \/ delete_empty \/ delete_single \/ delete_begin
  \/ length_begin \/ iterate_begin
  \/ Continue

\* A call that has begun goes on until it returns.
Spec == Init /\ [][Next]_vars /\ WF_vars(Continue)

-----------------------------------------------------------------------------
\* walk[n] is reached by n steps from the head.
walk[n \in Nat] == IF n = 0 THEN linked_list ELSE next[walk[n - 1]]

(* The list is one ring through exactly the live items, the same in both   *)
(* directions, so add_to_list finds its end at prev of the head and no     *)
(* item that malloc has returned is lost.                                  *)
Ring ==
  run.pc # "delete" /\ live # {} =>
    /\ live = {walk[n] : n \in 0 .. Cardinality(live) - 1}
    /\ \A i \in live : next[i] \in live /\ prev[next[i]] = i

(* No loop touches an item that has been freed: ptr is live, and while     *)
(* delete_list runs the list in front of ptr is intact.                    *)
NoDangling ==
  run.pc # "idle" =>
    /\ run.ptr \in live
    /\ run.pc = "delete" =>
         \A i \in live : next[i] \in live \cup {NULL} /\ (i # run.ptr => prev[i] \in live)

(* Every call returns: the loops meet the head or the NULL again.          *)
Returns == run.pc # "idle" ~> run.pc = "idle"

(* The list is a sequence of payloads: added at the end, counted, visited  *)
(* once each and in order, and deleted as a whole, all items with it.      *)
Sequence == INSTANCE ItemList
  WITH list <- IF run.pc = "delete" THEN <<>>
               ELSE [n \in 1 .. Cardinality(live) |-> payload[walk[n - 1]]],
       answer <- IF run.pc = "delete" THEN <<"deleted">> ELSE run.answer
ImplementsSequence == Sequence!Spec
=============================================================================
