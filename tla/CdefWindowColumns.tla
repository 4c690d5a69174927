------------------------- MODULE CdefWindowColumns -------------------------
(***************************************************************************)
(* The column layout of the threaded CDEF pass (src/unnamed/part_000): the *)
(* window loop of ApplyCdefThreaded steps column4x4 by                     *)
(* window_buffer_width_ / 4; in each window ApplyCdefForOneRowInWindow     *)
(* steps by kStep64x64 while below min(window width, columns left), gives  *)
(* each unit block_width4x4 = min(16, columns4x4 - column4x4) and the      *)
(* strength index of the 64x64 block DivideBy16(column4x4); the copy-back  *)
(* copies min(columns left, window width) columns of the window buffer.    *)
(* The layout is a pure function of columns4x4 and the window width.       *)
(***************************************************************************)
EXTENDS Integers, FiniteSets

CONSTANTS
  ColumnsChoices,   \* frame_header_.columns4x4 values (even)
  WidthChoices      \* window_buffer_width_ / 4 values

kStep64x64 == 16

VARIABLES
  columns4x4,   \* frame_header_.columns4x4
  ww,           \* DivideBy4(window_buffer_width_)
  units,        \* the units run: [win, col, width] (column4x4 of the window,
                \* column4x4 of the unit, block_width4x4); {} before the pass
  copied        \* copied[w]: the columns copy-back writes for window w

vars == <<columns4x4, ww, units, copied>>

Min2(a, b) == IF a < b THEN a ELSE b

(* The column4x4 of every window of ApplyCdefThreaded's column loop.      *)
WindowStarts == {k * ww : k \in 0 .. ((columns4x4 - 1) \div ww)}

(* ApplyCdefForOneRowInWindow(row4x4, c0): its units.                     *)
(* RowInWindowUnitsUnclipped is a faulty variant whose block_width4x4 is  *)
(* not clipped at the frame's right edge.                                 *)
RowInWindowUnitsUnclipped(c0) ==
  {[win |-> c0, col |-> c0 + o, width |-> kStep64x64] :
     o \in {k * kStep64x64 : k \in 0 .. ((Min2(ww, columns4x4 - c0) - 1) \div kStep64x64)}}

RowInWindowUnits(c0) ==
  {[win |-> c0, col |-> c0 + o, width |-> Min2(kStep64x64, columns4x4 - (c0 + o))] :
     o \in {k * kStep64x64 : k \in 0 .. ((Min2(ww, columns4x4 - c0) - 1) \div kStep64x64)}}

(* The copy-back of the window at c0: copy_width columns from c0.         *)
CopyColumns(c0) == c0 .. (c0 + Min2(columns4x4 - c0, ww) - 1)

(* One pass over a row of windows: every window's units, then its copy.   *)
ApplyCdefThreadedColumns ==
  /\ units = {}
  /\ units' = UNION {RowInWindowUnits(c0) : c0 \in WindowStarts}
  /\ copied' = [c0 \in WindowStarts |-> CopyColumns(c0)]
  /\ UNCHANGED <<columns4x4, ww>>

Init ==
  /\ columns4x4 \in ColumnsChoices
  /\ ww \in WidthChoices
  /\ units = {}
  /\ copied = <<>>

Next == ApplyCdefThreadedColumns

Spec == Init /\ [][Next]_vars

-----------------------------------------------------------------------------
Cols(u) == u.col .. (u.col + u.width - 1)

(* The columns of the frame are filtered once each, by a unit that lies   *)
(* inside its window (so its output, written at column4x4 modulo the      *)
(* window width, stays in the window buffer and is copied back) and       *)
(* inside the one 64x64 block whose CDEF strength index it is filtered    *)
(* with.                                                                  *)
ColumnUnitsPartitionFrame ==
  units # {} =>
    /\ \A x \in 0 .. (columns4x4 - 1) : Cardinality({u \in units : x \in Cols(u)}) = 1
    /\ \A u \in units :
         /\ Cols(u) \subseteq copied[u.win]
         /\ \A x \in Cols(u) : x \div kStep64x64 = u.col \div kStep64x64
=============================================================================
