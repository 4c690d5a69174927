---------------------------- MODULE CdefAbstract ----------------------------
(***************************************************************************)
(* What the CDEF pass promises (spec.md, sections 4.2 and 5), with no      *)
(* superblocks, 64-row halves or lag: the deblocking filter finishes the   *)
(* frame top-down, and the CDEF pass filters every 4x4 row of the frame    *)
(* exactly once, a contiguous range at a time, and only when every source  *)
(* pixel row the range reads (its own rows and kCdefBorder rows above and  *)
(* below, in every plane) is final.                                        *)
(***************************************************************************)
EXTENDS Integers

CONSTANTS
  Rows,        \* the 4x4 row indices of the largest frame considered
  RowCounts,   \* frame heights in 4x4 rows
  Reach        \* Reach[ss]: pixel rows above a horizontal edge the deblocking
               \* filter may still modify, in a plane of vertical subsampling ss

VARIABLES
  nrows,       \* rows4x4 of the frame
  db,          \* 4x4 rows of the frame the deblocking filter has processed
  times        \* times[i]: how often 4x4 row i has been filtered

avars == <<nrows, db, times>>

kCdefBorder == 2

(* A pixel row of a plane with vertical subsampling ss is final once the  *)
(* deblocking filter has processed the whole frame, or the 4x4 rows below *)
(* it that are not yet processed are out of the filter's reach.          *)
IsFinal(ss, p) == db = nrows \/ p < (4 * db) \div (2 ^ ss) - Reach[ss]

(* The last pixel row the filtering of 4x4 rows a..b reads in that plane. *)
LastRead(ss, b) == (4 * (b + 1)) \div (2 ^ ss) - 1 + kCdefBorder

(* The deblocking filter processes more rows of the frame.                *)
Deblock(d) ==
  /\ db < d /\ d <= nrows
  /\ db' = d
  /\ UNCHANGED <<nrows, times>>

(* The CDEF pass filters rows a..b of the frame, none filtered before and *)
(* all their inputs final; the deblocking filter may process further rows *)
(* right after.                                                           *)
Filter(a, b) ==
  /\ 0 <= a /\ a <= b /\ b < nrows
  /\ \A i \in a .. b : times[i] = 0
  /\ \A ss \in DOMAIN Reach : IsFinal(ss, LastRead(ss, b))
  /\ times' = [i \in Rows |-> IF i \in a .. b THEN times[i] + 1 ELSE times[i]]
  /\ db' \in db .. nrows
  /\ UNCHANGED nrows

AInit ==
  /\ nrows \in RowCounts
  /\ db \in 0 .. nrows
  /\ times = [i \in Rows |-> 0]

FilterStep == \E b \in 0 .. (nrows - 1) : \E a \in 0 .. b : Filter(a, b)
DeblockStep == \E d \in (db + 1) .. nrows : Deblock(d)

ANext == FilterStep \/ DeblockStep

(* Deblocking runs to the end of the frame and CDEF keeps up with it.     *)
ASpec == AInit /\ [][ANext]_avars /\ WF_avars(FilterStep) /\ WF_avars(DeblockStep)
=============================================================================
