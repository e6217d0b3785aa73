----------------------------- MODULE FrameBitmap -----------------------------
(***************************************************************************)
(* The bitmap of used frames (bitmap.c).  A word is the set of its bits    *)
(* that are one; bit BITS - 1 is the most significant.  The array has one  *)
(* word more in the model than in the code: index ELEMENTS is whatever the *)
(* linker put behind the array, which the bound check of set and get does  *)
(* not exclude.                                                            *)
(***************************************************************************)
EXTENDS Integers, FiniteSetsExt

CONSTANTS
  FRAME_AMOUNT,  \* frames of the memory that is managed
  BITS,          \* bits in a word: 32
  FRAME_SIZE     \* bytes in a frame: 0x1000

ASSUME BitmapAssumption ==
  /\ FRAME_AMOUNT \in Nat /\ BITS \in Nat \ {0} /\ FRAME_SIZE \in Nat \ {0}

BITMAP_ELEMENT_COUNT == FRAME_AMOUNT \div BITS + 1

VARIABLES
  bitmap,  \* the words of the array and the one behind it
  call     \* operation, argument and result of the last call

vars == <<bitmap, call>>

Words == 0 .. BITMAP_ELEMENT_COUNT
FrameCount == BITMAP_ELEMENT_COUNT * BITS

Return(op, arg, ret) == call' = [op |-> op, arg |-> arg, ret |-> ret]

-----------------------------------------------------------------------------
\* (mutant) the least significant bit comes first
LowBit(frame_index) == frame_index % BITS

Element(frame_index) == frame_index \div BITS
Bit(frame_index) == BITS - 1 - (frame_index % BITS)

\* The test of set and get for a frame that does not exist.
Rejected(frame_index) == Element(frame_index) > BITMAP_ELEMENT_COUNT

\* bitmap after set(frame_index, value) succeeded
Assigned(words, frame_index, value) ==
  [words EXCEPT ![Element(frame_index)] =
     IF value # 0 THEN @ \cup {Bit(frame_index)} ELSE @ \ {Bit(frame_index)}]

reset_bitmap ==
  /\ bitmap' = [w \in Words |->
                  IF w < BITMAP_ELEMENT_COUNT THEN {} ELSE bitmap[w]]
  /\ Return("reset", 0, 0)

OpOf(value) == IF value # 0 THEN "mark" ELSE "unmark"

set_rejected(frame_index, value) ==
  /\ Rejected(frame_index)
  /\ Return(OpOf(value), frame_index, -1)
  /\ UNCHANGED bitmap

set(frame_index, value) ==
  /\ ~ Rejected(frame_index)
  /\ bitmap' = Assigned(bitmap, frame_index, value)
  /\ Return(OpOf(value), frame_index, 0)

get(frame_index) ==
  /\ Return("get", frame_index,
            IF Rejected(frame_index) THEN -1
            ELSE IF Bit(frame_index) \in bitmap[Element(frame_index)] THEN 1 ELSE 0)
  /\ UNCHANGED bitmap

\* size_in_bytes / 0x1000: a frame that is used in part does not count.
FramesIn(size_in_bytes) == size_in_bytes \div FRAME_SIZE

\* (mutant) the size is not compared with the bitmap
AlwaysFits(size_in_bytes) == TRUE

FitsBitmap(size_in_bytes) == BITMAP_ELEMENT_COUNT * BITS >= FramesIn(size_in_bytes)

use_rejected(size_in_bytes) ==
  /\ ~ FitsBitmap(size_in_bytes)
  /\ Return("use", size_in_bytes, -1)
  /\ UNCHANGED bitmap

use_frames_in_bytes(size_in_bytes) ==
  /\ FitsBitmap(size_in_bytes)
  /\ bitmap' = [w \in Words |->
                  bitmap[w] \cup {Bit(f) : f \in {g \in 0 .. FramesIn(size_in_bytes) - 1 :
                                                    Element(g) = w}}]
  /\ Return("use", size_in_bytes, 0)

\* Words i and shifts j for which bitmap[i] & (0x80000000 >> j) is zero.
FreePositions ==
  {p \in Words \X (0 .. BITS - 1) :
     p[1] < BITMAP_ELEMENT_COUNT /\ BITS - 1 - p[2] \notin bitmap[p[1]]}

\* The loops meet the position with the smallest index first.
next_free_frame_index ==
  /\ Return("next", 0,
            IF FreePositions = {} THEN -1
            ELSE Min({p[1] * BITS + p[2] : p \in FreePositions}))
  /\ UNCHANGED bitmap

-----------------------------------------------------------------------------
Init ==
  /\ bitmap = [w \in Words |-> {}]
  /\ call = [op |-> "none", arg |-> 0, ret |-> 0]

Operations(frames) ==
  \/ reset_bitmap
  \/ \E f \in frames, v \in {0, 1} : set(f, v) \/ set_rejected(f, v)
  \/ \E f \in frames : get(f)
  \/ \E size \in 0 .. (FrameCount + 1) * FRAME_SIZE :
       use_frames_in_bytes(size) \/ use_rejected(size)
  \/ next_free_frame_index

\* The callers in kernel.c and paging.c name frames the bitmap has, the test
\* (bitmap_test.c) one far behind it.
CallerFrames ==
  0 .. FrameCount - 1 \cup {(BITMAP_ELEMENT_COUNT + 1) * BITS}

Next == Operations(CallerFrames)

Spec == Init /\ [][Next]_vars

-----------------------------------------------------------------------------
(* Every word is a set of bit positions and the result of the last call is *)
(* -1, a bit or a frame of the array; with the callers' arguments the word *)
(* behind the array is never written.                                      *)
TypeOK ==
  /\ bitmap \in [Words -> SUBSET (0 .. BITS - 1)]
  /\ bitmap[BITMAP_ELEMENT_COUNT] = {}
  /\ call.ret \in {-1, 0, 1} \cup 0 .. FrameCount - 1

(* The words and bits act as one set of frames: set touches the frame it   *)
(* names and no other, use_frames_in_bytes the whole frames of the first   *)
(* bytes or nothing, and next_free_frame_index, which walks masks and not  *)
(* frame indices, finds the lowest frame that get reports free.            *)
Abstract == INSTANCE FrameSet
  WITH used <- {f \in 0 .. FrameCount - 1 : Bit(f) \in bitmap[Element(f)]}
ImplementsFrameSet == Abstract!Spec
=============================================================================
