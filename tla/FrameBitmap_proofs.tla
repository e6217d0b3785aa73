------------------------- MODULE FrameBitmap_proofs -------------------------
(***************************************************************************)
(* Proofs about FrameBitmap, for every amount of memory, word size and     *)
(* frame size: the words and masks of bitmap.c are the set of used frames  *)
(* that FrameSet describes.                                                *)
(***************************************************************************)
EXTENDS FrameBitmap, Arithmetic

-----------------------------------------------------------------------------
\* Frames and positions

(* The array has at least one word, and a frame that it has lies in one of *)
(* its words; the arguments of the callers beyond it are rejected.         *)
LEMMA Sizes ==
  /\ BITMAP_ELEMENT_COUNT \in Nat \ {0} /\ BITS \in Nat \ {0}
  /\ FrameCount \in Nat \ {0}
  /\ FrameCount = BITMAP_ELEMENT_COUNT * BITS
<1>1. FRAME_AMOUNT \div BITS \in Nat
  BY BitmapAssumption
<1>2. BITMAP_ELEMENT_COUNT \in Nat \ {0} /\ BITS \in Nat \ {0}
  BY <1>1, BitmapAssumption DEF BITMAP_ELEMENT_COUNT
<1> HIDE DEF BITMAP_ELEMENT_COUNT
<1> QED
  BY <1>2 DEF FrameCount

(* Every frame has a word and a bit of its own: no two frames share a bit. *)
LEMMA Position ==
  ASSUME NEW f \in 0 .. FrameCount - 1
  PROVE  /\ Element(f) \in 0 .. BITMAP_ELEMENT_COUNT - 1
         /\ Bit(f) \in 0 .. BITS - 1
         /\ f = Element(f) * BITS + (BITS - 1 - Bit(f))
<1>1. f \in 0 .. BITMAP_ELEMENT_COUNT * BITS - 1
  BY Sizes
<1>2. Element(f) \in 0 .. BITMAP_ELEMENT_COUNT - 1
  BY <1>1, DivBelow, Sizes DEF Element
<1>3. /\ f % BITS \in 0 .. BITS - 1
      /\ f = BITS * Element(f) + (f % BITS)
  BY <1>1, DivMod, Sizes DEF Element
<1>4. Bit(f) \in 0 .. BITS - 1 /\ BITS - 1 - Bit(f) = f % BITS
  BY <1>3, Sizes DEF Bit
<1>5. BITS * Element(f) = Element(f) * BITS
  BY <1>2, Sizes
<1> QED
  BY <1>2, <1>3, <1>4, <1>5

(* And every bit of the array belongs to a frame.                          *)
LEMMA FrameAt ==
  ASSUME NEW w \in 0 .. BITMAP_ELEMENT_COUNT - 1, NEW b \in 0 .. BITS - 1
  PROVE  /\ w * BITS + b \in 0 .. FrameCount - 1
         /\ Element(w * BITS + b) = w
         /\ Bit(w * BITS + b) = BITS - 1 - b
<1>1. Element(w * BITS + b) = w /\ (w * BITS + b) % BITS = b
  BY Sizes, DivModUnique DEF Element
<1>2. w * BITS + b \in Nat /\ (w + 1) * BITS <= BITMAP_ELEMENT_COUNT * BITS
  BY Sizes
<1>3. (w + 1) * BITS = w * BITS + BITS
  BY Sizes
<1> QED
  BY <1>1, <1>2, <1>3, Sizes DEF Bit

(* The arguments of the callers either name a frame of the array or are    *)
(* rejected.                                                               *)
LEMMA CallerFrame ==
  ASSUME NEW f \in CallerFrames
  PROVE  /\ f \in Nat
         /\ Rejected(f) <=> f \notin 0 .. FrameCount - 1
<1>1. CASE f \in 0 .. FrameCount - 1
  BY <1>1, Position, Sizes DEF Rejected
<1>2. CASE f = (BITMAP_ELEMENT_COUNT + 1) * BITS
  <2>1. f = (BITMAP_ELEMENT_COUNT + 1) * BITS + 0
    BY <1>2, Sizes
  <2>2. Element(f) = BITMAP_ELEMENT_COUNT + 1
    BY <2>1, Sizes, DivModUnique DEF Element
  <2>3. f \in Nat /\ f > FrameCount
    BY <1>2, Sizes
  <2> QED
    BY <2>2, <2>3, Sizes DEF Rejected
<1> QED
  BY <1>1, <1>2 DEF CallerFrames

-----------------------------------------------------------------------------
\* Type correctness

(* set writes the word of a frame that exists, and no other one.           *)
LEMMA AssignedType ==
  ASSUME TypeOK, NEW f \in 0 .. FrameCount - 1, NEW v \in {0, 1}
  PROVE  /\ Assigned(bitmap, f, v) \in [Words -> SUBSET (0 .. BITS - 1)]
         /\ Assigned(bitmap, f, v)[BITMAP_ELEMENT_COUNT] = {}
<1>1. /\ Element(f) \in Words /\ Element(f) # BITMAP_ELEMENT_COUNT
      /\ Bit(f) \in 0 .. BITS - 1
      /\ BITMAP_ELEMENT_COUNT \in Words
  BY Position, Sizes DEF Words
<1> QED
  BY <1>1 DEF TypeOK, Assigned

(* use_frames_in_bytes writes the bits of the frames it counts.            *)
LEMMA UsedType ==
  ASSUME TypeOK, NEW size \in 0 .. (FrameCount + 1) * FRAME_SIZE,
         use_frames_in_bytes(size)
  PROVE  TypeOK'
<1>1. FramesIn(size) \in Nat /\ FramesIn(size) <= FrameCount
  BY BitmapAssumption, Sizes DEF FramesIn, use_frames_in_bytes, FitsBitmap
<1>2. ASSUME NEW g \in 0 .. FramesIn(size) - 1
      PROVE  /\ Element(g) \in 0 .. BITMAP_ELEMENT_COUNT - 1
             /\ Bit(g) \in 0 .. BITS - 1
  BY <1>1, <1>2, Position, Sizes
<1>3. \A g \in 0 .. FramesIn(size) - 1 :
        Bit(g) \in 0 .. BITS - 1 /\ Element(g) # BITMAP_ELEMENT_COUNT
  BY <1>2, Sizes
<1>4. bitmap' \in [Words -> SUBSET (0 .. BITS - 1)]
  BY <1>3 DEF TypeOK, use_frames_in_bytes
<1>5. bitmap'[BITMAP_ELEMENT_COUNT] = {}
  BY <1>3, Sizes DEF TypeOK, use_frames_in_bytes, Words
<1> QED
  BY <1>4, <1>5 DEF TypeOK, use_frames_in_bytes, Return

(* The masks of next_free_frame_index find the lowest free frame.          *)
LEMMA Lowest ==
  ASSUME TypeOK, FreePositions # {}
  PROVE  LET free == {f \in 0 .. FrameCount - 1 : Bit(f) \notin bitmap[Element(f)]}
             found == Min({p[1] * BITS + p[2] : p \in FreePositions})
         IN  /\ {p[1] * BITS + p[2] : p \in FreePositions} = free
             /\ found \in free
             /\ \A f \in free : found <= f
<1> DEFINE free == {f \in 0 .. FrameCount - 1 : Bit(f) \notin bitmap[Element(f)]}
           positions == {p[1] * BITS + p[2] : p \in FreePositions}
<1>1. ASSUME NEW p \in FreePositions
      PROVE  p[1] * BITS + p[2] \in free
  <2>1. /\ p[1] \in 0 .. BITMAP_ELEMENT_COUNT - 1 /\ p[2] \in 0 .. BITS - 1
        /\ BITS - 1 - p[2] \notin bitmap[p[1]]
    BY Sizes DEF FreePositions, Words
  <2> QED
    BY <2>1, FrameAt
<1>2. ASSUME NEW f \in free
      PROVE  f \in positions
  <2>1. /\ Element(f) \in 0 .. BITMAP_ELEMENT_COUNT - 1
        /\ Bit(f) \in 0 .. BITS - 1
        /\ f = Element(f) * BITS + (BITS - 1 - Bit(f))
    BY Position
  <2>2. BITS - 1 - Bit(f) \in 0 .. BITS - 1 /\ BITS - 1 - (BITS - 1 - Bit(f)) = Bit(f)
    BY <2>1, Sizes
  <2>3. <<Element(f), BITS - 1 - Bit(f)>> \in FreePositions
    BY <2>1, <2>2, Sizes DEF FreePositions, Words
  <2> QED
    BY <2>1, <2>3
<1>3. positions = free
  BY <1>1, <1>2
<1>4. free \in SUBSET Nat /\ free # {}
  BY <1>1, <1>3, Sizes
<1> HIDE DEF free, positions
<1>5. Min(free) \in free /\ \A f \in free : Min(free) <= f
  BY <1>4, LeastNatural DEF Min
<1> QED
  BY <1>3, <1>5 DEF free, positions

(* The frame that next_free_frame_index returns is a frame of the bitmap,  *)
(* or -1.                                                                  *)
LEMMA NextFreeType ==
  ASSUME TypeOK, next_free_frame_index
  PROVE  TypeOK'
<1>1. call'.ret \in {-1} \cup 0 .. FrameCount - 1
  BY Lowest DEF next_free_frame_index, Return
<1> QED
  BY <1>1 DEF TypeOK, next_free_frame_index

(* A call of any operation keeps the words words.                          *)
LEMMA NextType ==
  ASSUME TypeOK, [Next]_vars
  PROVE  TypeOK'
<1>1. CASE reset_bitmap
  BY <1>1, Sizes DEF reset_bitmap, TypeOK, Words, Return
<1>2. ASSUME NEW f \in CallerFrames, NEW v \in {0, 1}, set(f, v)
      PROVE  TypeOK'
  BY <1>2, CallerFrame, AssignedType DEF set, TypeOK, Return
<1>3. ASSUME NEW f \in CallerFrames, NEW v \in {0, 1}, set_rejected(f, v)
      PROVE  TypeOK'
  BY <1>3 DEF set_rejected, TypeOK, Return
<1>4. ASSUME NEW f \in CallerFrames, get(f)
      PROVE  TypeOK'
  BY <1>4 DEF get, TypeOK, Return
<1>5. ASSUME NEW size \in 0 .. (FrameCount + 1) * FRAME_SIZE,
             use_frames_in_bytes(size) \/ use_rejected(size)
      PROVE  TypeOK'
  BY <1>5, UsedType DEF use_rejected, TypeOK, Return
<1>6. CASE next_free_frame_index
  BY <1>6, NextFreeType
<1>7. CASE UNCHANGED vars
  BY <1>7 DEF vars, TypeOK
<1> QED
  BY <1>1, <1>2, <1>3, <1>4, <1>5, <1>6, <1>7 DEF Next, Operations

(* For every amount of memory: with the callers' arguments no operation    *)
(* writes the word behind the array or a bit a word does not have, and     *)
(* every answer is -1, a bit or a frame that exists.                       *)
THEOREM TypeCorrect == Spec => []TypeOK
<1>1. Init => TypeOK
  BY Sizes DEF Init, TypeOK, Words
<1> QED
  BY <1>1, NextType, PTL DEF Spec

-----------------------------------------------------------------------------
\* The refinement of FrameSet

UsedFrames == {f \in 0 .. FrameCount - 1 : Bit(f) \in bitmap[Element(f)]}

(* set changes the frame it names and no other.                            *)
LEMMA SetRefines ==
  ASSUME TypeOK, NEW f \in 0 .. FrameCount - 1, NEW v \in {0, 1}, set(f, v)
  PROVE  Abstract!Mark(f) \/ Abstract!Unmark(f)
<1>1. Element(f) \in Words
  BY Position, Sizes DEF Words
<1>2. ASSUME NEW g \in 0 .. FrameCount - 1, g # f
      PROVE  Element(g) = Element(f) => Bit(g) # Bit(f)
  BY <1>2, Position, Sizes
<1>3. ASSUME NEW g \in 0 .. FrameCount - 1
      PROVE  Element(g) \in Words
  BY Position, Sizes DEF Words
<1>4. ASSUME NEW g \in 0 .. FrameCount - 1
      PROVE  Bit(g) \in bitmap'[Element(g)]
               <=> IF g = f THEN v = 1 ELSE Bit(g) \in bitmap[Element(g)]
  BY <1>1, <1>2, <1>3 DEF set, Assigned, TypeOK
<1>5. UsedFrames' = IF v = 1 THEN UsedFrames \cup {f} ELSE UsedFrames \ {f}
  BY <1>4 DEF UsedFrames
<1>6. call' = [op |-> IF v = 1 THEN "mark" ELSE "unmark", arg |-> f, ret |-> 0]
  BY DEF set, Return, OpOf
<1> QED
  BY <1>5, <1>6 DEF UsedFrames, Abstract!Mark, Abstract!Unmark, Abstract!Answer

(* A frame that does not exist is refused.                                 *)
LEMMA RefusalRefines ==
  ASSUME TypeOK, NEW f \in CallerFrames, f \notin 0 .. FrameCount - 1,
         NEW op \in {"mark", "unmark", "get"},
         call' = [op |-> op, arg |-> f, ret |-> -1], UNCHANGED bitmap
  PROVE  Abstract!Next
<1>1. f \in {call'.arg} \ Abstract!Frames
  BY DEF Abstract!Frames
<1>2. Abstract!Refuse(op, f)
  BY DEF Abstract!Refuse, Abstract!Answer
<1> QED
  BY <1>1, <1>2 DEF Abstract!Next

(* get tells a frame that is used from one that is free.                   *)
LEMMA GetRefines ==
  ASSUME TypeOK, NEW f \in CallerFrames, get(f)
  PROVE  Abstract!Next
<1>1. CASE f \in 0 .. FrameCount - 1
  <2>1. Abstract!Get(f)
    BY <1>1, CallerFrame DEF get, Return, Abstract!Get, Abstract!Answer
  <2> QED
    BY <1>1, <2>1 DEF Abstract!Next, Abstract!Frames
<1>2. CASE f \notin 0 .. FrameCount - 1
  BY <1>2, CallerFrame, RefusalRefines DEF get, Return
<1> QED
  BY <1>1, <1>2

(* use_frames_in_bytes marks the first frames, whole words or not.         *)
LEMMA UseRefines ==
  ASSUME TypeOK, NEW size \in 0 .. (FrameCount + 1) * FRAME_SIZE,
         use_frames_in_bytes(size) \/ use_rejected(size)
  PROVE  Abstract!UseFirst(size)
<1>1. FramesIn(size) \in Nat /\ (FitsBitmap(size) <=> FramesIn(size) <= FrameCount)
  BY BitmapAssumption, Sizes DEF FramesIn, FitsBitmap
<1>2. CASE use_frames_in_bytes(size)
  <2>1. FramesIn(size) <= FrameCount
    BY <1>1, <1>2 DEF use_frames_in_bytes
  <2>2. ASSUME NEW f \in 0 .. FrameCount - 1
        PROVE  Bit(f) \in bitmap'[Element(f)]
                 <=> Bit(f) \in bitmap[Element(f)] \/ f \in 0 .. FramesIn(size) - 1
    <3>1. Element(f) \in Words
      BY Position, Sizes DEF Words
    <3>2. ASSUME NEW g \in 0 .. FramesIn(size) - 1,
                 Element(g) = Element(f), Bit(g) = Bit(f)
          PROVE  g = f
      <4>1. g \in 0 .. FrameCount - 1
        BY <1>1, <2>1, Sizes
      <4> QED
        BY <3>2, <4>1, Position
    <3> QED
      BY <1>2, <3>1, <3>2 DEF use_frames_in_bytes
  <2>3. UsedFrames' = UsedFrames \cup 0 .. FramesIn(size) - 1
    BY <1>1, <2>1, <2>2, Sizes DEF UsedFrames
  <2> QED
    BY <1>2, <2>1, <2>3
    DEF UsedFrames, use_frames_in_bytes, Return, FramesIn,
        Abstract!UseFirst, Abstract!Answer
<1>3. CASE use_rejected(size)
  BY <1>1, <1>3
  DEF use_rejected, Return, FramesIn, Abstract!UseFirst, Abstract!Answer
<1> QED
  BY <1>2, <1>3

(* next_free_frame_index answers with the lowest frame that is not used.   *)
LEMMA NextFreeRefines ==
  ASSUME TypeOK, next_free_frame_index
  PROVE  Abstract!Next_free
<1> DEFINE free == {f \in 0 .. FrameCount - 1 : Bit(f) \notin bitmap[Element(f)]}
<1>1. Abstract!Frames \ UsedFrames = free
  BY DEF Abstract!Frames, UsedFrames
<1>2. CASE FreePositions = {}
  <2>1. ASSUME NEW f \in free PROVE FALSE
    <3>1. /\ Element(f) \in 0 .. BITMAP_ELEMENT_COUNT - 1
          /\ BITS - 1 - Bit(f) \in 0 .. BITS - 1
          /\ BITS - 1 - (BITS - 1 - Bit(f)) = Bit(f)
      BY Position, Sizes
    <3>2. <<Element(f), BITS - 1 - Bit(f)>> \in FreePositions
      BY <3>1, Sizes DEF FreePositions, Words
    <3> QED
      BY <1>2, <3>2
  <2>2. Abstract!Frames \subseteq UsedFrames
    BY <1>1, <2>1
  <2> QED
    BY <1>2, <2>2
    DEF next_free_frame_index, Return, UsedFrames,
        Abstract!Next_free, Abstract!Answer, Abstract!NextFree
<1>3. CASE FreePositions # {}
  <2>1. /\ {p[1] * BITS + p[2] : p \in FreePositions} = free
        /\ Min(free) \in free
    BY <1>3, Lowest
  <2>2. ~ Abstract!Frames \subseteq UsedFrames
    BY <1>1, <2>1
  <2>3. Abstract!NextFree(UsedFrames) = Min(free)
    BY <1>1, <2>2 DEF Abstract!NextFree, Abstract!Min, Min
  <2> QED
    BY <1>3, <2>1, <2>3
    DEF next_free_frame_index, Return, UsedFrames, Abstract!Next_free, Abstract!Answer
<1> QED
  BY <1>2, <1>3

(* Every operation of bitmap.c is one of the set, or a stutter.            *)
LEMMA StepRefines ==
  ASSUME TypeOK, [Next]_vars
  PROVE  [Abstract!Next]_(Abstract!vars)
<1>1. CASE reset_bitmap
  <2>1. ASSUME NEW f \in 0 .. FrameCount - 1
        PROVE  bitmap'[Element(f)] = {}
    BY <1>1, Position, Sizes DEF reset_bitmap, Words
  <2>2. UsedFrames' = {}
    BY <2>1 DEF UsedFrames
  <2> QED
    BY <1>1, <2>2
    DEF reset_bitmap, Return, UsedFrames, Abstract!Next, Abstract!Reset, Abstract!Answer
<1>2. ASSUME NEW f \in CallerFrames, NEW v \in {0, 1}, set(f, v)
      PROVE  Abstract!Next
  <2>1. f \in 0 .. FrameCount - 1
    BY <1>2, CallerFrame DEF set
  <2> QED
    BY <1>2, <2>1, SetRefines DEF Abstract!Next, Abstract!Frames
<1>3. ASSUME NEW f \in CallerFrames, NEW v \in {0, 1}, set_rejected(f, v)
      PROVE  Abstract!Next
  BY <1>3, CallerFrame, RefusalRefines DEF set_rejected, Return, OpOf
<1>4. ASSUME NEW f \in CallerFrames, get(f)
      PROVE  Abstract!Next
  BY <1>4, GetRefines
<1>5. ASSUME NEW size \in 0 .. (FrameCount + 1) * FRAME_SIZE,
             use_frames_in_bytes(size) \/ use_rejected(size)
      PROVE  Abstract!Next
  BY <1>5, UseRefines DEF Abstract!Next
<1>6. CASE next_free_frame_index
  BY <1>6, NextFreeRefines DEF Abstract!Next
<1>7. CASE UNCHANGED vars
  BY <1>7 DEF vars, Abstract!vars
<1> QED
  BY <1>1, <1>2, <1>3, <1>4, <1>5, <1>6, <1>7 DEF Next, Operations

(* For every amount of memory and word size, the bitmap with its words,    *)
(* masks and shifts is a set of used frames: every operation has the       *)
(* effect and the answer it has on the set.                                *)
THEOREM Refinement == Spec => ImplementsFrameSet
<1>1. Init => Abstract!Init
  BY Position, Sizes DEF Init, Abstract!Init, Words
<1> QED
  BY <1>1, StepRefines, TypeCorrect, PTL DEF Spec, ImplementsFrameSet, Abstract!Spec
=============================================================================
