----------------------------- MODULE CdefBorder -----------------------------
(***************************************************************************)
(* Border synthesis of PrepareCdefBlock and CopyRowForCdef                 *)
(* (src/unnamed/part_000): which source sample each row and column of the  *)
(* bordered scratch block of one 64x64 unit holds, or kCdefLargeValue.     *)
(* Both are pure functions of the frame size, the plane's subsampling and  *)
(* the unit's position; the pixel values are left out, a scratch entry is  *)
(* the index of the source row or column it copies, or Large.              *)
(*                                                                         *)
(* The horizontal and vertical directions use different tests: a column   *)
(* is a border column from the unit's position in 4x4 units and the       *)
(* plane's width in pixels, a row likewise from its height.  The reference *)
(* definition says a sample is the sentinel exactly when it lies outside   *)
(* the frame's 4x4 grid (MiRows x MiCols), as for CdefAvailable in AV1.    *)
(***************************************************************************)
EXTENDS Integers

CONSTANTS
  Sizes,       \* frame widths / heights in pixels (width_, height_)
  Subsampling, \* plane subsampling in the direction considered
  Large        \* kCdefLargeValue

kStep64x64 == 16
kCdefBorder == 2

VARIABLES
  axis,        \* "col": CopyRowForCdef; "row": the row loops of PrepareCdefBlock
  size,        \* width_ or height_
  ss,          \* subsampling_x or subsampling_y of the plane
  pos,         \* column4x4 or row4x4 of the unit
  n,           \* block_width4x4 or block_height4x4 of the unit
  line         \* the scratch line built, or <<>> before the call

vars == <<axis, size, ss, pos, n, line>>

Min2(a, b) == IF a < b THEN a ELSE b

(* frame_header_.columns4x4 / rows4x4 (MiCols / MiRows, always even).     *)
Grid4x4(s) == 2 * ((s + 7) \div 8)

RightShiftWithRounding(v, bits) == (v + (2 ^ bits) \div 2) \div (2 ^ bits)
Align(v, a) == ((v + a - 1) \div a) * a

(* The units of ApplyCdefForOneSuperBlockRowHelper's column loop.         *)
ColumnUnits(s) ==
  {<<c, Min2(kStep64x64, Grid4x4(s) - c)>> :
     c \in {k * kStep64x64 : k \in 0 .. ((Grid4x4(s) - 1) \div kStep64x64)}}

(* The (row4x4, block_height4x4) calls of ApplyCdefForOneSuperBlockRow:   *)
(* the two lag rows above every 64-row half but the first, the current    *)
(* half minus its last two rows when more rows follow, and the whole half *)
(* in the last superblock row.                                            *)
RowCalls(s) ==
  LET rows == Grid4x4(s)
      starts == {k * kStep64x64 : k \in 0 .. ((rows - 1) \div kStep64x64)}
  IN  {<<r - 2, 2>> : r \in starts \ {0}}
      \cup {<<r, kStep64x64 - 2>> : r \in {t \in starts : t + kStep64x64 < rows}}
      \cup {<<r, Min2(kStep64x64, rows - r)>> : r \in starts}

-----------------------------------------------------------------------------
(* CopyRowForCdef for the unit at column4x4 p of width b4x4: the source   *)
(* column, relative to the plane, that scratch column x holds, x from     *)
(* -kCdefBorder to unit_width + kCdefBorder - 1.  ScratchColumnRightStrict *)
(* is a faulty variant whose is_frame_right test is strict.               *)
UnitWidth(sub, b4x4) == Align((4 * b4x4) \div (2 ^ sub), IF sub > 0 THEN 4 ELSE 8)

ScratchColumnRightStrict(s, sub, p, b4x4, x) ==
  LET startX == (4 * p) \div (2 ^ sub)
      blockWidth == (4 * b4x4) \div (2 ^ sub)
      planeWidth == RightShiftWithRounding(s, sub)
      isFrameLeft == p = 0
      isFrameRight == startX + blockWidth > planeWidth
  IN  IF x < 0 THEN (IF isFrameLeft THEN Large ELSE startX + x)
      ELSE IF x < blockWidth THEN startX + x
      ELSE IF isFrameRight THEN Large ELSE startX + x

ScratchColumn(s, sub, p, b4x4, x) ==
  LET startX == (4 * p) \div (2 ^ sub)
      blockWidth == (4 * b4x4) \div (2 ^ sub)
      planeWidth == RightShiftWithRounding(s, sub)
      isFrameLeft == p = 0
      isFrameRight == startX + blockWidth >= planeWidth
  IN  IF x < 0 THEN (IF isFrameLeft THEN Large ELSE startX + x)
      ELSE IF x < blockWidth THEN startX + x
      ELSE IF isFrameRight THEN Large ELSE startX + x

(* The row loops of PrepareCdefBlock: top border rows (Large at the frame  *)
(* top), the body, and kCdefBorder + unit_height - block_height bottom    *)
(* rows (Large when the unit reaches the frame bottom).                   *)
ScratchRow(s, sub, p, b4x4, y) ==
  LET startY == (4 * p) \div (2 ^ sub)
      blockHeight == (4 * b4x4) \div (2 ^ sub)
      planeHeight == RightShiftWithRounding(s, sub)
      isFrameTop == p = 0
      isFrameBottom == startY + blockHeight >= planeHeight
  IN  IF y < 0 THEN (IF isFrameTop THEN Large ELSE startY + y)
      ELSE IF y < blockHeight THEN startY + y
      ELSE IF isFrameBottom THEN Large ELSE startY + y

UnitHeight(sub, b4x4) == Align((4 * b4x4) \div (2 ^ sub), IF sub > 0 THEN 4 ELSE 8)

PrepareColumns ==
  /\ axis = "col" /\ line = <<>>
  /\ line' = [x \in -kCdefBorder .. (UnitWidth(ss, n) + kCdefBorder - 1) |->
                ScratchColumn(size, ss, pos, n, x)]
  /\ UNCHANGED <<axis, size, ss, pos, n>>

PrepareRows ==
  /\ axis = "row" /\ line = <<>>
  /\ line' = [y \in -kCdefBorder .. (UnitHeight(ss, n) + kCdefBorder - 1) |->
                ScratchRow(size, ss, pos, n, y)]
  /\ UNCHANGED <<axis, size, ss, pos, n>>

Init ==
  /\ size \in Sizes
  /\ ss \in Subsampling
  /\ \/ axis = "col" /\ \E u \in ColumnUnits(size) : pos = u[1] /\ n = u[2]
     \/ axis = "row" /\ \E u \in RowCalls(size) : pos = u[1] /\ n = u[2]
  /\ line = <<>>

Next == PrepareColumns \/ PrepareRows

Spec == Init /\ [][Next]_vars

-----------------------------------------------------------------------------
(* Reference: the plane sample at index i along this direction, or the    *)
(* sentinel when i lies outside the frame's 4x4 grid.                     *)
Available(s, sub, i) == 0 <= i /\ i < (4 * Grid4x4(s)) \div (2 ^ sub)
Expected(s, sub, i) == IF Available(s, sub, i) THEN i ELSE Large

(* Every scratch row and column PrepareCdefBlock builds holds the real    *)
(* sample exactly where the frame has one, and kCdefLargeValue exactly    *)
(* outside it, at every frame size and in subsampled planes: the          *)
(* is_frame_left/right/top/bottom tests, taken on pixel sizes rounded per *)
(* plane, agree with the 4x4 grid the units are laid out on.              *)
BorderMatchesAvailability ==
  line # <<>> =>
    LET start == (4 * pos) \div (2 ^ ss) IN
    \A k \in DOMAIN line : line[k] = Expected(size, ss, start + k)
=============================================================================
