----------------------------- MODULE Allocator -----------------------------
(***************************************************************************)
(* What a heap promises its callers: live maps the address of every        *)
(* allocation that has not been freed to its size.                         *)
(***************************************************************************)
EXTENDS Integers

CONSTANTS Space, Requests

VARIABLE live

\* Allocation p of the given size has no byte in common with allocation q.
Apart(p, size, q) == p + size <= q \/ q + live[q] <= p

Init == live = [p \in {} |-> 0]

Malloc(request) ==
  \E p \in 0 .. Space - request :
    /\ p \notin DOMAIN live
    /\ \A q \in DOMAIN live : Apart(p, request, q)
    /\ live' = [q \in DOMAIN live \cup {p} |-> IF q = p THEN request ELSE live[q]]

Free(p) == live' = [q \in DOMAIN live \ {p} |-> live[q]]

Next ==
  \/ \E request \in Requests : Malloc(request)
  \/ \E p \in DOMAIN live : Free(p)

Spec == Init /\ [][Next]_live
=============================================================================
