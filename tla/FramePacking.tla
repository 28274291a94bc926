----------------------------- MODULE FramePacking -----------------------------
(***************************************************************************)
(* The arithmetic of one pushed frame (core/src/buffer.rs and the sizes in *)
(* Bridge::ensure_slots): u32 products, casts to i32, and the loop of      *)
(* pack_rows.  A destination byte is known by the row that was copied      *)
(* there; pixels have no values.                                           *)
(***************************************************************************)
EXTENDS Integers

CONSTANTS
    Word,     \* 2^32: the width of u32 and i32
    BPP,      \* bytes_per_pixel
    SLOTS,    \* buffers of one pool
    Frames    \* the frames that are pushed, each with the bytes that come with it

FrameDesc == [width: 0..Word-1, height: 0..Word-1, stride: 0..Word-1, len: Nat]

ASSUME FrameAssumption ==
    /\ Word \in Nat /\ Word > 1 /\ BPP \in Nat \ {0} /\ SLOTS \in Nat \ {0}
    /\ Frames \subseteq FrameDesc

VARIABLES
    frame,    \* the FrameDesc and the length of the source
    phase,    \* "pushed", "short" (refused), "packing" or "done"
    row,      \* the loop counter of pack_rows
    copied,   \* the rows copied
    written   \* the bytes copied

vars == <<frame, phase, row, copied, written>>

-----------------------------------------------------------------------------
(* usize is wide enough for every product below; u32 and i32 are not.       *)

RequiredLen(f) == f.stride * f.height
RowBytes(f)    == f.width * BPP
DstStride(f)   == (f.width * BPP) % Word
SlotSize(f)    == DstStride(f) * f.height

\* Faulty variant: the pool has room for one slot.
PoolBytesOfOne(f) == SlotSize(f)

PoolBytes(f) == SlotSize(f) * SLOTS

\* The cast `as i32`.
AsI32(n) == IF n % Word < Word \div 2 THEN n % Word ELSE (n % Word) - Word

\* The arguments of create_pool and create_buffer.
PoolSize(f)  == AsI32(PoolBytes(f))
Offset(f, s) == AsI32(s * SlotSize(f))

\* What wl_shm demands of a pool and of the buffer for a slot.
ServerAccepts(f, s) ==
    /\ PoolSize(f) > 0
    /\ AsI32(f.width) > 0 /\ AsI32(f.height) > 0
    /\ AsI32(DstStride(f)) >= AsI32(f.width)
    /\ Offset(f, s) >= 0
    /\ Offset(f, s) + AsI32(DstStride(f)) * AsI32(f.height) <= PoolSize(f)

-----------------------------------------------------------------------------

TypeOK ==
    /\ frame \in Frames
    /\ phase \in {"pushed", "short", "packing", "done"}
    /\ row \in 0..frame.height
    /\ copied \subseteq 0..frame.height - 1
    /\ written \in Nat

Init ==
    /\ frame \in Frames /\ phase = "pushed"
    /\ row = 0 /\ copied = {} /\ written = 0

\* push_frame refuses a source shorter than required_len.
Push ==
    /\ phase = "pushed"
    /\ phase' = IF frame.len < RequiredLen(frame) THEN "short" ELSE "packing"
    /\ UNCHANGED <<frame, row, copied, written>>

\* Faulty variant: a row that ends where the source or the slot ends does not fit.
FitsStrictly(r) ==
    /\ r * frame.stride + RowBytes(frame) < frame.len
    /\ r * DstStride(frame) + RowBytes(frame) < SlotSize(frame)

\* The row lies within the source and within the slot.
Fits(r) ==
    /\ r * frame.stride + RowBytes(frame) <= frame.len
    /\ r * DstStride(frame) + RowBytes(frame) <= SlotSize(frame)

RowsLeft == row < frame.height

CopyRow ==
    /\ phase = "packing" /\ RowsLeft /\ Fits(row)
    /\ copied' = copied \union {row}
    /\ written' = written + RowBytes(frame)
    /\ row' = row + 1
    /\ UNCHANGED <<frame, phase>>

EndRows ==
    /\ phase = "packing" /\ ~(RowsLeft /\ Fits(row))
    /\ phase' = "done"
    /\ UNCHANGED <<frame, row, copied, written>>

Finished == phase \in {"short", "done"} /\ UNCHANGED vars

Next == Push \/ CopyRow \/ EndRows \/ Finished

Spec == Init /\ [][Next]_vars

-----------------------------------------------------------------------------

\* The frames the callers are meant to push: rows no longer than the stride, and a row
\* length that a u32 holds.
Sound(f) == RowBytes(f) <= f.stride /\ RowBytes(f) < Word

\* Those whose pool is a size that the protocol can name.
Presentable(f) ==
    /\ f.width > 0 /\ f.height > 0 /\ RowBytes(f) < Word
    /\ PoolBytes(f) < Word \div 2

\* A sound frame that is not refused is packed whole: every row is copied, they do not
\* overlap, and together they fill the slot.
PackedWhole ==
    phase = "done" /\ Sound(frame) =>
        /\ copied = 0..frame.height - 1
        /\ \A r \in copied : (r + 1) * DstStride(frame) = r * DstStride(frame) + RowBytes(frame)
        /\ written = SlotSize(frame)

\* The buffers of a presentable frame are inside the pool, apart from each other, and
\* acceptable to wl_shm: no cast changes an offset or a size.
BuffersInPool ==
    Presentable(frame) =>
        \A s \in 0..SLOTS - 1 :
            /\ ServerAccepts(frame, s)
            /\ Offset(frame, s) = s * SlotSize(frame)
            /\ Offset(frame, s) + SlotSize(frame) <= PoolSize(frame)
=============================================================================
