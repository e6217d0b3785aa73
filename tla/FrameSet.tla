------------------------------ MODULE FrameSet ------------------------------
(***************************************************************************)
(* What the frame bitmap (bitmap.h) promises: it remembers a set of used   *)
(* frames, answers whether a frame is used, and finds the lowest free one. *)
(***************************************************************************)
EXTENDS Integers, FiniteSetsExt

CONSTANTS FrameCount, FRAME_SIZE

VARIABLES used, call

vars == <<used, call>>

Frames == 0 .. FrameCount - 1

NextFree(taken) == IF Frames \subseteq taken THEN -1 ELSE Min(Frames \ taken)

Init == used = {} /\ call = [op |-> "none", arg |-> 0, ret |-> 0]

Answer(op, arg, ret) == call' = [op |-> op, arg |-> arg, ret |-> ret]

Reset == used' = {} /\ Answer("reset", 0, 0)

Mark(frame) == used' = used \cup {frame} /\ Answer("mark", frame, 0)
Unmark(frame) == used' = used \ {frame} /\ Answer("unmark", frame, 0)

Get(frame) ==
  /\ Answer("get", frame, IF frame \in used THEN 1 ELSE 0)
  /\ UNCHANGED used

\* A frame that does not exist is refused.
Refuse(op, frame) == Answer(op, frame, -1) /\ UNCHANGED used

\* The whole frames of the first bytes are used or, if they are too many, none.
UseFirst(bytes) ==
  LET count == bytes \div FRAME_SIZE IN
  IF count <= FrameCount
  THEN used' = used \cup 0 .. count - 1 /\ Answer("use", bytes, 0)
  ELSE Answer("use", bytes, -1) /\ UNCHANGED used

Next_free == Answer("next", 0, NextFree(used)) /\ UNCHANGED used

Next ==
  \/ Reset
  \/ \E frame \in Frames : Mark(frame) \/ Unmark(frame) \/ Get(frame)
  \/ \E op \in {"mark", "unmark", "get"}, frame \in {call'.arg} \ Frames :
       Refuse(op, frame)
  \/ \E bytes \in 0 .. (FrameCount + 1) * FRAME_SIZE : UseFirst(bytes)
  \/ Next_free

Spec == Init /\ [][Next]_vars
=============================================================================
