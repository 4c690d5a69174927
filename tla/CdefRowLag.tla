----------------------------- MODULE CdefRowLag -----------------------------
(***************************************************************************)
(* The row-lag schedule of PostFilter::ApplyCdefForOneSuperBlockRow        *)
(* (src/unnamed/part_000).  The caller deblocks one superblock row and     *)
(* then calls ApplyCdefForOneSuperBlockRow for it; that call first filters *)
(* the last two 4x4 rows of the previous superblock row (whose pixels the  *)
(* deblocking of the current row's top edge has just finalised) and then   *)
(* the current row minus its own last two 4x4 rows, except in the last     *)
(* superblock row.  For 128x128 superblocks the call loops over two        *)
(* 64-row halves.                                                          *)
(*                                                                         *)
(* One step is one call of ApplyCdefForOneSuperBlockRowHelper, which runs  *)
(* ApplyCdefForOneUnit over every 64-column unit of the 4x4 rows           *)
(* [row, row + height); the unit walks them in 8x8 blocks, two 4x4 rows    *)
(* at a time.  The model records how often each 4x4 row is filtered and    *)
(* which source pixel rows each call reads (PrepareCdefBlock) in every     *)
(* plane, and compares them with the rows the deblocking filter has        *)
(* finished.                                                               *)
(***************************************************************************)
EXTENDS Integers, FiniteSets

CONSTANTS
  Heights,     \* frame heights in pixels to check
  SbSizes,     \* superblock sizes in 4x4 units: 16 (64x64) and/or 32 (128x128)
  Reach        \* Reach[ss]: pixel rows above a horizontal edge the deblocking
               \* filter may still modify, in a plane of vertical subsampling ss

ASSUME SbSizes \subseteq {16, 32} /\ Heights \subseteq Nat \ {0}

kStep64x64 == 16
kCdefBorder == 2

VARIABLES
  height,      \* frame_header_.height (pixels)
  sb4x4,       \* superblock size in 4x4 units
  start,       \* row4x4_start of the superblock row being processed
  y,           \* the loop variable y of ApplyCdefForOneSuperBlockRow
  stage,       \* "lag": at the loop head; "cur": lag rows done
  filtered,    \* filtered[i]: times 4x4 row i has been filtered
  call,        \* the latest helper call [row, height] of this superblock row
  done         \* the last superblock row has been processed

vars == <<height, sb4x4, start, y, stage, filtered, call, done>>

(* frame_header_.rows4x4 is MiRows, always even.                           *)
Rows4x4(h) == 2 * ((h + 7) \div 8)
rows4x4 == Rows4x4(height)

MaxRows == Rows4x4(CHOOSE h \in Heights : \A g \in Heights : g <= h) + 2
RowIdx == 0 .. MaxRows

Min2(a, b) == IF a < b THEN a ELSE b

(* The caller's is_last_row for the superblock row starting at `start`.    *)
IsLastRowAt(st) == st + sb4x4 >= rows4x4
IsLastRow == IsLastRowAt(start)

-----------------------------------------------------------------------------
(* ApplyCdefForOneSuperBlockRowHelper(row, h) and the row loop of         *)
(* ApplyCdefForOneUnit: 8x8 blocks starting at row, row + 2, ... while    *)
(* below row + h, each covering two 4x4 rows.                             *)
HelperRows(r, h) == {i \in RowIdx : r <= i /\ i < r + 2 * ((h + 1) \div 2)}

Helper(r, h) ==
  /\ filtered' = [i \in RowIdx |-> IF i \in HelperRows(r, h) THEN filtered[i] + 1
                                                            ELSE filtered[i]]
  /\ call' = [row |-> r, height |-> h, sbStart |-> start]

(* Pixel rows of the source plane (vertical subsampling ss) that          *)
(* PrepareCdefBlock reads for the unit [r, r + h): the two border rows    *)
(* above unless at the frame top, the block body, and the border rows     *)
(* below unless the unit reaches the frame bottom (then kCdefLargeValue). *)
ReadRows(ss, r, h) ==
  LET startY      == (4 * r) \div (2 ^ ss)
      blockHeight == (4 * h) \div (2 ^ ss)
      planeHeight == (height + ss) \div (2 ^ ss)
      top    == IF r = 0 THEN startY ELSE startY - kCdefBorder
      bottom == IF startY + blockHeight >= planeHeight
                THEN startY + blockHeight
                ELSE startY + blockHeight + kCdefBorder
  IN top .. (bottom - 1)

(* Pixel rows the deblocking filter has finished once superblock rows up  *)
(* to the current one are deblocked: all rows of the last superblock row, *)
(* otherwise all rows above the reach of the next row's top edge.         *)
FinalRows(ss, st) ==
  IF IsLastRowAt(st) THEN Nat
  ELSE 0 .. ((4 * (st + sb4x4)) \div (2 ^ ss) - Reach[ss] - 1)

-----------------------------------------------------------------------------
(* Loop head with row4x4 = start + y inside the frame: filter the last    *)
(* two 4x4 rows of the previous superblock row, except at the frame top   *)
(* and, in the last superblock row, after the first iteration.            *)
(* LagStepEveryIteration is a faulty variant without the last-row         *)
(* exception, LagStepNotInLastRow one that skips the lag in the whole     *)
(* last superblock row.                                                   *)
LagStepNotInLastRow ==
  LET row4x4 == start + y IN
  /\ stage = "lag" /\ ~done
  /\ row4x4 < rows4x4
  /\ IF row4x4 > 0 /\ ~IsLastRow
     THEN Helper(row4x4 - 2, 2)
     ELSE UNCHANGED <<filtered, call>>
  /\ stage' = "cur"
  /\ UNCHANGED <<height, sb4x4, start, y, done>>

LagStepEveryIteration ==
  LET row4x4 == start + y IN
  /\ stage = "lag" /\ ~done
  /\ row4x4 < rows4x4
  /\ IF row4x4 > 0 THEN Helper(row4x4 - 2, 2) ELSE UNCHANGED <<filtered, call>>
  /\ stage' = "cur"
  /\ UNCHANGED <<height, sb4x4, start, y, done>>

LagStep ==
  LET row4x4 == start + y IN
  /\ stage = "lag" /\ ~done
  /\ row4x4 < rows4x4
  /\ IF row4x4 > 0 /\ (~IsLastRow \/ y = 0)
     THEN Helper(row4x4 - 2, 2)
     ELSE UNCHANGED <<filtered, call>>
  /\ stage' = "cur"
  /\ UNCHANGED <<height, sb4x4, start, y, done>>

(* End of the call for this superblock row; the caller moves on to the    *)
(* next one, or stops after the last.                                     *)
NextSuperBlockRow ==
  /\ IF IsLastRow
     THEN /\ done' = TRUE
          /\ UNCHANGED start
     ELSE /\ start' = start + sb4x4
          /\ UNCHANGED done
  /\ y' = 0
  /\ stage' = "lag"

(* Filter the current rows, all of them in the last superblock row and    *)
(* all but the last two otherwise; then the next 64-row half or the end   *)
(* of the call.  CurStepNoLag is a faulty variant that never holds back   *)
(* the last two rows; CurStepLoopBoundInclusive one whose loop over the  *)
(* 64-row halves runs while y <= sb4x4.                                   *)
CurStepLoopBoundInclusive ==
  LET row4x4 == start + y
      blockHeight4x4 == Min2(kStep64x64, rows4x4 - row4x4)
      height4x4 == blockHeight4x4 - (IF IsLastRow THEN 0 ELSE 2)
  IN
  /\ stage = "cur"
  /\ IF height4x4 > 0 THEN Helper(row4x4, height4x4) ELSE UNCHANGED <<filtered, call>>
  /\ IF y + kStep64x64 <= sb4x4
     THEN /\ y' = y + kStep64x64
          /\ stage' = "lag"
          /\ UNCHANGED <<start, done>>
     ELSE /\ NextSuperBlockRow
  /\ UNCHANGED <<height, sb4x4>>

CurStepNoLag ==
  LET row4x4 == start + y
      blockHeight4x4 == Min2(kStep64x64, rows4x4 - row4x4)
      height4x4 == blockHeight4x4
  IN
  /\ stage = "cur"
  /\ IF height4x4 > 0 THEN Helper(row4x4, height4x4) ELSE UNCHANGED <<filtered, call>>
  /\ IF y + kStep64x64 < sb4x4
     THEN /\ y' = y + kStep64x64
          /\ stage' = "lag"
          /\ UNCHANGED <<start, done>>
     ELSE /\ NextSuperBlockRow
  /\ UNCHANGED <<height, sb4x4>>

CurStep ==
  LET row4x4 == start + y
      blockHeight4x4 == Min2(kStep64x64, rows4x4 - row4x4)
      height4x4 == blockHeight4x4 - (IF IsLastRow THEN 0 ELSE 2)
  IN
  /\ stage = "cur"
  /\ IF height4x4 > 0 THEN Helper(row4x4, height4x4) ELSE UNCHANGED <<filtered, call>>
  /\ IF y + kStep64x64 < sb4x4
     THEN /\ y' = y + kStep64x64
          /\ stage' = "lag"
          /\ UNCHANGED <<start, done>>
     ELSE /\ NextSuperBlockRow
  /\ UNCHANGED <<height, sb4x4>>

(* The early return: the second 64-row half of a 128x128 superblock row   *)
(* lies below the frame.                                                  *)
ReturnBelowFrame ==
  /\ stage = "lag" /\ ~done
  /\ start + y >= rows4x4
  /\ NextSuperBlockRow
  /\ UNCHANGED <<height, sb4x4, filtered, call>>

Init ==
  /\ height \in Heights
  /\ sb4x4 \in SbSizes
  /\ start = 0
  /\ y = 0
  /\ stage = "lag"
  /\ filtered = [i \in RowIdx |-> 0]
  /\ call = [row |-> -1, height |-> 0, sbStart |-> 0]
  /\ done = FALSE

Next == LagStep \/ CurStep \/ ReturnBelowFrame

Spec == Init /\ [][Next]_vars /\ WF_vars(Next)

-----------------------------------------------------------------------------
TypeOK ==
  /\ height \in Heights
  /\ sb4x4 \in SbSizes
  /\ start \in 0 .. MaxRows
  /\ y \in {0, 16}
  /\ stage \in {"lag", "cur"}
  /\ filtered \in [RowIdx -> Nat]
  /\ done \in BOOLEAN

(* No 4x4 row is filtered twice, in any plane: every pass of the filter  *)
(* writes over rows it would read again as a neighbour's border.          *)
FilteredAtMostOnce == \A i \in RowIdx : filtered[i] <= 1

(* When the last superblock row is done, every 4x4 row of the frame has   *)
(* been filtered (exactly once, with FilteredAtMostOnce).                 *)
AllRowsFiltered == done => \A i \in 0 .. (rows4x4 - 1) : filtered[i] = 1

(* Every source row a filter call reads, in the luma plane and in a       *)
(* vertically subsampled chroma plane, has already been finished by the   *)
(* deblocking filter: the two-row lag is exactly enough.                  *)
ReadsOnlyDeblockedRows ==
  call.row >= 0 =>
    \A ss \in {0, 1} : ReadRows(ss, call.row, call.height) \subseteq FinalRows(ss, call.sbStart)

(* The lag schedule implements the abstract CDEF pass: every 4x4 row is   *)
(* filtered exactly once, only after all the source rows it reads are     *)
(* final, and eventually.  The deblocking frontier is the end of the      *)
(* superblock row the caller has deblocked before this call.             *)
Abstract == INSTANCE CdefAbstract WITH
  Rows <- RowIdx,
  RowCounts <- {Rows4x4(h) : h \in Heights},
  nrows <- rows4x4,
  db <- Min2(start + sb4x4, rows4x4),
  times <- filtered

ImplementsCdefAbstract == Abstract!ASpec
=============================================================================
