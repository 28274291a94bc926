--------------------------- MODULE MCFramePacking ---------------------------
(***************************************************************************)
(* Frames around the boundaries of an 8-bit word: empty ones, pools just   *)
(* below and at half a word, rows just below, at and above a whole word,   *)
(* strides shorter and longer than a row, and sources around the required  *)
(* length.                                                                 *)
(***************************************************************************)
EXTENDS FramePacking

MCWidths  == {0, 1, 2, 15, 16, 63, 64, 65}
MCHeights == {0, 1, 2, 3, 70}

MCStrides(w) == {0, w * 4 - 1, w * 4, w * 4 + 3} \intersect 0..255

MCLengths(w, h, stride) ==
    {stride * h - 1, stride * h, stride * (h - 1) + w * 4, stride * h + 5} \intersect Nat

MCFramesOf(w, h, s) ==
    {[width |-> w, height |-> h, stride |-> s, len |-> n] : n \in MCLengths(w, h, s)}

MCFrames ==
    UNION {MCFramesOf(d[1], d[2], d[3]) :
           d \in {c \in MCWidths \X MCHeights \X (0..255) : c[3] \in MCStrides(c[1])}}
=============================================================================
