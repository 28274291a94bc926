----------------------------- MODULE FrameProofs -----------------------------
(***************************************************************************)
(* The packing of frames, for every word size, pixel size and frame.       *)
(***************************************************************************)
EXTENDS FramePacking, TLAPS

-----------------------------------------------------------------------------
(* Arithmetic.                                                              *)

LEMMA MulMono ==
    ASSUME NEW a \in Nat, NEW b \in Nat, NEW c \in Nat, a <= b
    PROVE  a * c <= b * c
OBVIOUS

LEMMA MulSucc ==
    ASSUME NEW a \in Nat, NEW b \in Nat
    PROVE  (a + 1) * b = a * b + b
OBVIOUS

LEMMA MulNat ==
    ASSUME NEW a \in Nat, NEW b \in Nat
    PROVE  a * b \in Nat
OBVIOUS

LEMMA ModRange ==
    ASSUME NEW a \in Nat, NEW w \in Nat, w > 0
    PROVE  a % w \in 0..w - 1
OBVIOUS

LEMMA ModSmall ==
    ASSUME NEW a \in Nat, NEW w \in Nat, a < w
    PROVE  a % w = a
OBVIOUS

\* A number below half a word is not changed by the cast.
LEMMA CastKeeps ==
    ASSUME NEW n \in Nat, n < Word \div 2
    PROVE  AsI32(n) = n
<1>1. Word \in Nat /\ Word > 1
  BY FrameAssumption
<1>2. Word \div 2 <= Word /\ Word \div 2 \in Nat
  BY <1>1
<1>3. n % Word = n
  BY <1>1, <1>2, ModSmall
<1> QED BY <1>3 DEF AsI32

LEMMA FrameTypes ==
    ASSUME NEW f \in Frames
    PROVE  /\ f.width \in Nat /\ f.height \in Nat /\ f.stride \in Nat /\ f.len \in Nat
           /\ f.width < Word /\ f.height < Word
           /\ RowBytes(f) \in Nat /\ RequiredLen(f) \in Nat
           /\ DstStride(f) \in Nat /\ SlotSize(f) \in Nat /\ PoolBytes(f) \in Nat
<1>1. f \in FrameDesc /\ Word \in Nat /\ Word > 1 /\ BPP \in Nat /\ SLOTS \in Nat
  BY FrameAssumption
<1>2. /\ f.width \in Nat /\ f.height \in Nat /\ f.stride \in Nat /\ f.len \in Nat
      /\ f.width < Word /\ f.height < Word
  BY <1>1 DEF FrameDesc
<1>3. RowBytes(f) \in Nat /\ RequiredLen(f) \in Nat
  BY <1>1, <1>2, MulNat DEF RowBytes, RequiredLen
<1>4. DstStride(f) \in Nat
  BY <1>1, <1>3, ModRange DEF RowBytes, DstStride
<1>5. SlotSize(f) \in Nat
  BY <1>2, <1>4, MulNat DEF SlotSize
<1>6. PoolBytes(f) \in Nat
  BY <1>1, <1>5, MulNat DEF PoolBytes
<1> QED BY <1>2, <1>3, <1>4, <1>5, <1>6

\* A row whose length a u32 holds has that length in the slot as well.
LEMMA StrideKept ==
    ASSUME NEW f \in Frames, RowBytes(f) < Word
    PROVE  DstStride(f) = RowBytes(f)
BY FrameTypes, FrameAssumption, ModSmall DEF RowBytes, DstStride

-----------------------------------------------------------------------------
(* The loop.                                                                *)

\* The rows copied are those before the counter; packing starts only with a source that
\* is long enough, and ends only for a reason.
LoopInv ==
    /\ copied = 0..row - 1
    /\ written = row * RowBytes(frame)
    /\ phase \in {"packing", "done"} => RequiredLen(frame) <= frame.len
    /\ phase = "done" => ~(RowsLeft /\ Fits(row))

PackInv == TypeOK /\ LoopInv

LEMMA PackInit == Init => PackInv
<1> SUFFICES ASSUME Init PROVE PackInv
  OBVIOUS
<1>1. frame \in Frames /\ row = 0 /\ copied = {} /\ written = 0 /\ phase = "pushed"
  BY DEF Init
<1>2. frame.height \in Nat /\ RowBytes(frame) \in Nat
  BY <1>1, FrameTypes
<1> QED BY <1>1, <1>2 DEF PackInv, TypeOK, LoopInv

LEMMA PackNext == PackInv /\ [Next]_vars => PackInv'
<1> SUFFICES ASSUME PackInv, [Next]_vars PROVE PackInv'
  OBVIOUS
<1> USE DEF PackInv
<1>1. frame \in Frames /\ frame.height \in Nat /\ frame.len \in Nat
      /\ RowBytes(frame) \in Nat /\ RequiredLen(frame) \in Nat
  BY FrameTypes DEF TypeOK
<1>2. CASE Push
  <2>1. TypeOK'
    BY <1>2 DEF Push, TypeOK
  <2>2. LoopInv'
    BY <1>1, <1>2 DEF Push, LoopInv, RowBytes, RequiredLen
  <2> QED BY <2>1, <2>2
<1>3. CASE CopyRow
  <2>1. /\ frame' = frame /\ phase' = phase /\ phase = "packing" /\ row' = row + 1
        /\ copied' = copied \union {row} /\ written' = written + RowBytes(frame)
        /\ row < frame.height /\ Fits(row)
    BY <1>3 DEF CopyRow, RowsLeft
  <2>2. row \in Nat
    BY <1>1 DEF TypeOK
  <2>3. TypeOK'
    BY <1>1, <2>1, <2>2 DEF TypeOK
  <2>4. written' = row' * RowBytes(frame')
    <3>1. written = row * RowBytes(frame)
      BY DEF LoopInv
    <3>2. (row + 1) * RowBytes(frame) = row * RowBytes(frame) + RowBytes(frame)
      BY <1>1, <2>2, MulSucc
    <3> QED BY <2>1, <3>1, <3>2
  <2>5. LoopInv'
    BY <2>1, <2>2, <2>4 DEF LoopInv, RowBytes, RequiredLen
  <2> QED BY <2>3, <2>5
<1>4. CASE EndRows
  <2>1. TypeOK'
    BY <1>4 DEF EndRows, TypeOK
  <2>2. LoopInv'
    BY <1>4 DEF EndRows, LoopInv, RowBytes, RequiredLen, RowsLeft, Fits, DstStride, SlotSize
  <2> QED BY <2>1, <2>2
<1>5. CASE UNCHANGED vars
  BY <1>5 DEF vars, TypeOK, LoopInv, RowBytes, RequiredLen, RowsLeft, Fits, DstStride,
                    SlotSize
<1> QED BY <1>2, <1>3, <1>4, <1>5 DEF Next, Finished

\* Every row of a sound frame fits.
LEMMA SoundRowFits ==
    ASSUME frame \in Frames, Sound(frame), RequiredLen(frame) <= frame.len,
           NEW r \in Nat, r < frame.height
    PROVE  Fits(r)
<1> DEFINE h == frame.height
           s == frame.stride
           b == RowBytes(frame)
<1>1. h \in Nat /\ s \in Nat /\ b \in Nat /\ frame.len \in Nat
  BY FrameTypes
<1>2. b <= s /\ DstStride(frame) = b
  BY StrideKept DEF Sound
<1>3. r + 1 \in Nat /\ r + 1 <= h
  BY <1>1
<1>4. (r + 1) * s <= h * s /\ (r + 1) * b <= h * b
  BY <1>1, <1>3, MulMono
<1>5. (r + 1) * s = r * s + s /\ (r + 1) * b = r * b + b
  BY <1>1, MulSucc
<1>6. h * s = RequiredLen(frame) /\ h * b = SlotSize(frame)
  BY <1>1, <1>2 DEF RequiredLen, SlotSize
<1>7. r * s \in Nat /\ r * b \in Nat /\ h * s \in Nat /\ h * b \in Nat
  BY <1>1, MulNat
<1>8. r * s + b <= frame.len
  <2> HIDE DEF h, s, b
  <2>1. RequiredLen(frame) <= frame.len
    OBVIOUS
  <2> QED BY <1>1, <1>2, <1>4, <1>5, <1>6, <1>7, <2>1
<1>9. r * b + b <= SlotSize(frame)
  <2> HIDE DEF h, s, b
  <2> QED BY <1>4, <1>5, <1>6, <1>7
<1> QED BY <1>2, <1>8, <1>9 DEF Fits

LEMMA InvPacksWhole == PackInv => PackedWhole
<1> SUFFICES ASSUME PackInv, phase = "done", Sound(frame)
             PROVE  /\ copied = 0..frame.height - 1
                    /\ \A r \in copied :
                          (r + 1) * DstStride(frame) = r * DstStride(frame) + RowBytes(frame)
                    /\ written = SlotSize(frame)
  BY DEF PackedWhole
<1>1. /\ frame \in Frames /\ frame.height \in Nat /\ row \in Nat /\ row <= frame.height
      /\ RowBytes(frame) \in Nat
  BY FrameTypes DEF PackInv, TypeOK
<1>2. row = frame.height
  <2> SUFFICES ASSUME row < frame.height PROVE FALSE
    BY <1>1
  <2>1. Fits(row)
    BY <1>1, SoundRowFits DEF PackInv, LoopInv
  <2> QED BY <2>1 DEF PackInv, LoopInv, RowsLeft
<1>3. DstStride(frame) = RowBytes(frame)
  BY <1>1, StrideKept DEF Sound
<1>4. copied = 0..frame.height - 1 /\ written = frame.height * RowBytes(frame)
  BY <1>2 DEF PackInv, LoopInv
<1>5. ASSUME NEW r \in copied
      PROVE  (r + 1) * DstStride(frame) = r * DstStride(frame) + RowBytes(frame)
  <2>1. r \in Nat
    BY <1>1, <1>4
  <2> QED BY <1>1, <1>3, <2>1
<1>6. written = SlotSize(frame)
  BY <1>1, <1>3, <1>4 DEF SlotSize
<1> QED BY <1>4, <1>5, <1>6

-----------------------------------------------------------------------------
(* The pool.                                                                *)

LEMMA PresentableFits ==
    ASSUME NEW f \in Frames, Presentable(f), NEW s \in 0..SLOTS - 1
    PROVE  /\ ServerAccepts(f, s)
           /\ Offset(f, s) = s * SlotSize(f)
           /\ Offset(f, s) + SlotSize(f) <= PoolSize(f)
<1> DEFINE w == f.width
           h == f.height
           d == DstStride(f)
           z == SlotSize(f)
           p == PoolBytes(f)
           half == Word \div 2
<1>1. /\ w \in Nat /\ h \in Nat /\ d \in Nat /\ z \in Nat /\ p \in Nat
      /\ s \in Nat /\ s + 1 <= SLOTS /\ SLOTS \in Nat /\ BPP \in Nat \ {0} /\ half \in Nat
  BY FrameTypes, FrameAssumption
<1>2. w > 0 /\ h > 0 /\ p < half
  BY DEF Presentable
<1>3. d = w * BPP
  BY StrideKept DEF Presentable, RowBytes
<1>4. w <= d
  BY <1>1, <1>3, MulMono
<1>5. z = d * h /\ p = z * SLOTS
  BY DEF SlotSize, PoolBytes
<1>6. d <= z /\ h <= z
  <2>1. d > 0
    BY <1>1, <1>2, <1>4
  <2>2. d * 1 <= d * h
    <3> HIDE DEF d, h
    <3> QED BY <1>1, <1>2
  <2>3. 1 * h <= d * h
    <3> HIDE DEF d, h
    <3> QED BY <1>1, <2>1
  <2> QED BY <1>1, <1>5, <2>2, <2>3
<1>7. s * z + z <= p
  <2>1. (s + 1) * z <= SLOTS * z
    BY <1>1, MulMono
  <2>2. (s + 1) * z = s * z + z /\ SLOTS * z = z * SLOTS
    BY <1>1, MulSucc
  <2> QED BY <1>5, <2>1, <2>2
<1>8. s * z \in Nat /\ z > 0
  BY <1>1, <1>2, <1>4, <1>6, MulNat
<1>9. s * z < half /\ z < half /\ d < half /\ h < half /\ w < half
  <2> HIDE DEF w, h, d, z, p, half
  <2> QED BY <1>1, <1>2, <1>4, <1>6, <1>7, <1>8
<1>10. /\ PoolSize(f) = p /\ Offset(f, s) = s * z
       /\ AsI32(w) = w /\ AsI32(h) = h /\ AsI32(d) = d
  BY <1>1, <1>2, <1>8, <1>9, CastKeeps DEF PoolSize, Offset
<1>11. s * z + z <= PoolSize(f) /\ PoolSize(f) > 0
  BY <1>1, <1>7, <1>8, <1>10
<1> QED
  <2>1. ServerAccepts(f, s)
    BY <1>1, <1>2, <1>4, <1>5, <1>8, <1>10, <1>11 DEF ServerAccepts
  <2> QED BY <1>10, <1>11, <2>1

-----------------------------------------------------------------------------

LEMMA PackInvHolds == Spec => []PackInv
BY PackInit, PackNext, PTL DEF Spec

\* The rows copied are rows of the frame, whatever its description: pack_rows counts no
\* further than the height.
THEOREM FramesTyped == Spec => []TypeOK
<1>1. PackInv => TypeOK
  BY DEF PackInv
<1> QED BY <1>1, PackInvHolds, PTL

\* A sound frame is shown whole.
THEOREM SoundFramesWhole == Spec => []PackedWhole
BY InvPacksWhole, PackInvHolds, PTL

\* Below half a word of pool, the casts are harmless and wl_shm has no objection.
THEOREM PoolsFit == Spec => []BuffersInPool
<1>1. PackInv => BuffersInPool
  BY PresentableFits DEF PackInv, TypeOK, BuffersInPool
<1> QED BY <1>1, PackInvHolds, PTL
=============================================================================
