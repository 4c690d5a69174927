------------------------------ MODULE CdefUnit ------------------------------
(***************************************************************************)
(* The per-8x8-block decisions of PostFilter::ApplyCdefForOneUnit          *)
(* (src/unnamed/part_000): whether the unit or the block is copied         *)
(* unfiltered, whether dsp_.cdef_direction is called, and, per plane, the  *)
(* primary and secondary strengths, damping and direction handed to        *)
(* dsp_.cdef_filter (or a copy when both strengths are zero).              *)
(*                                                                         *)
(* The inputs of one block are the state variables, chosen in Init from    *)
(* small sets; the single step ApplyBlock computes the outcome of every    *)
(* plane.  The filter backend is opaque: cdef_direction returns the        *)
(* direction Dir and the variance Var.  When cdef_direction is not called  *)
(* the local direction_y is uninitialized; reading it yields any value of  *)
(* 0..7, marked undefined.                                                 *)
(***************************************************************************)
EXTENDS Integers, Sequences

CONSTANTS
  SkipPatterns,        \* the skip flags of the four 4x4 blocks of an 8x8 block
  PrimaryStrengths,    \* y_primary_strength / uv_primary_strength values
  SecondaryStrengths,  \* y_secondary_strength / uv_secondary_strength values
  Variances,           \* variances cdef_direction may return
  Damping              \* frame_header_.cdef.damping

VARIABLES
  index,               \* cdef_index_ of the 64x64 unit (-1: no CDEF)
  skips,               \* (*bp0)->skip, (*(bp0+1))->skip, (*bp1)->skip, (*(bp1+1))->skip
  yPri, ySec, uvPri, uvSec,
  var, dir,            \* what dsp_.cdef_direction returns for this block
  ssx, ssy,            \* subsampling of the chroma planes
  planes,              \* planes_: 1 (monochrome) or 3
  out                  \* the outcome per plane, <<>> before the block is done

vars == <<index, skips, yPri, ySec, uvPri, uvSec, var, dir, ssx, ssy, planes, out>>

Directions == 0 .. 7

(* kCdefUvDirection[subsampling_x][subsampling_y][direction_y].            *)
kCdefUvDirection ==
  << << <<0, 1, 2, 3, 4, 5, 6, 7>>, <<1, 2, 2, 2, 3, 4, 6, 0>> >>,
     << <<7, 0, 2, 4, 5, 6, 6, 6>>, <<0, 1, 2, 3, 4, 5, 6, 7>> >> >>

UvDirection(sx, sy, d) == kCdefUvDirection[sx + 1][sy + 1][d + 1]

(* FloorLog2 of src/utils/common.h, for n > 0.                            *)
RECURSIVE FloorLog2(_)
FloorLog2(n) == IF n < 2 THEN 0 ELSE 1 + FloorLog2(n \div 2)

MinInt(a, b) == IF a < b THEN a ELSE b

(* The luma primary strength scaled by the block's variance.              *)
(* VarianceStrengthCap13 is a faulty variant with the cap off by one.     *)
VarianceStrengthCap13(v) ==
  IF v \div 64 # 0 THEN MinInt(FloorLog2(v \div 64), 13) ELSE 0

VarianceStrength(v) ==
  IF v \div 64 # 0 THEN MinInt(FloorLog2(v \div 64), 12) ELSE 0

ScaledPrimary(ps, v) ==
  IF v # 0 THEN (ps * (4 + VarianceStrength(v)) + 8) \div 16 ELSE 0

Copy == [kind |-> "copy"]

Filter(pri, sec, damp, d) ==
  [kind |-> "filter", pri |-> pri, sec |-> sec, damping |-> damp,
   dir |-> d.val, dirDefined |-> d.defined]

-----------------------------------------------------------------------------
(* compute_direction_and_variance: cdef_direction runs for the block when *)
(* either primary strength of the unit is nonzero.                        *)
(* ComputeDirectionLumaOnly is a faulty variant that looks only at the    *)
(* luma strength.                                                         *)
ComputeDirectionLumaOnly == yPri # 0

ComputeDirection == (yPri + uvPri) # 0   \* (y | uv) != 0 for strengths >= 0

(* The outcome of plane p given direction_y (a value and whether it was   *)
(* computed) and the variance local.                                      *)
PlaneOutcome(p, dirY, variance) ==
  IF p = 0
  THEN LET pri == ScaledPrimary(yPri, variance)
           d   == IF yPri = 0 THEN [val |-> 0, defined |-> TRUE] ELSE dirY
       IN IF pri + ySec = 0 THEN Copy ELSE Filter(pri, ySec, Damping, d)
  ELSE LET d == IF uvPri = 0 THEN [val |-> 0, defined |-> TRUE]
                ELSE [val |-> UvDirection(ssx, ssy, dirY.val), defined |-> dirY.defined]
       IN IF uvPri + uvSec = 0 THEN Copy ELSE Filter(uvPri, uvSec, Damping - 1, d)

(* One 8x8 block of ApplyCdefForOneUnit: the whole unit is copied when    *)
(* index is -1, the block when all four 4x4 blocks are skipped; otherwise *)
(* each plane gets its outcome.  `garbage` is what an uninitialized       *)
(* direction_y happens to hold.  ApplyBlockPlanesInclusive is a faulty   *)
(* variant whose plane loop runs while plane <= planes_.                   *)
ApplyBlockPlanesInclusive ==
  /\ out = <<>>
  /\ \E garbage \in Directions :
       LET computed == ComputeDirection
           dirY     == IF computed THEN [val |-> dir, defined |-> TRUE]
                       ELSE [val |-> garbage, defined |-> FALSE]
           variance == IF computed THEN var ELSE 0
           skip     == \A i \in 1 .. 4 : skips[i]
       IN out' = [p \in 0 .. planes |->
                    IF index = -1 \/ skip THEN Copy ELSE PlaneOutcome(p, dirY, variance)]
  /\ UNCHANGED <<index, skips, yPri, ySec, uvPri, uvSec, var, dir, ssx, ssy, planes>>

ApplyBlock ==
  /\ out = <<>>
  /\ \E garbage \in Directions :
       LET computed == ComputeDirection
           dirY     == IF computed THEN [val |-> dir, defined |-> TRUE]
                       ELSE [val |-> garbage, defined |-> FALSE]
           variance == IF computed THEN var ELSE 0
           skip     == \A i \in 1 .. 4 : skips[i]
       IN out' = [p \in 0 .. (planes - 1) |->
                    IF index = -1 \/ skip THEN Copy ELSE PlaneOutcome(p, dirY, variance)]
  /\ UNCHANGED <<index, skips, yPri, ySec, uvPri, uvSec, var, dir, ssx, ssy, planes>>

Init ==
  /\ index \in {-1, 0}
  /\ skips \in SkipPatterns
  /\ yPri \in PrimaryStrengths /\ uvPri \in PrimaryStrengths
  /\ ySec \in SecondaryStrengths /\ uvSec \in SecondaryStrengths
  /\ var \in Variances
  /\ dir \in Directions
  /\ ssx \in {0, 1} /\ ssy \in {0, 1}
  /\ planes \in {1, 3}
  /\ out = <<>>

Next == ApplyBlock

Spec == Init /\ [][Next]_vars

-----------------------------------------------------------------------------
TypeOK ==
  /\ index \in {-1, 0}
  /\ skips \in SkipPatterns
  /\ var \in Variances /\ dir \in Directions
  /\ out = <<>> \/ DOMAIN out = 0 .. (planes - 1)

Filtered == {p \in DOMAIN out : out[p].kind = "filter"}

(* No plane is filtered with a direction read from the uninitialized      *)
(* direction_y: whenever a plane's direction depends on it, cdef_direction *)
(* has run for the block.                                                 *)
NoUninitializedDirection == \A p \in Filtered : out[p].dirDefined

(* The variance scaling never raises the luma primary strength above the  *)
(* configured one, for any variance cdef_direction returns.               *)
LumaPrimaryWithinConfigured ==
  0 \in Filtered => out[0].pri <= yPri

(* spec.md, 4.2: for (x-subsampled, y-subsampled) = (1, 1) luma direction *)
(* 0 maps to chroma direction 7.                                          *)
ChromaDirectionAsSpecified ==
  \A p \in Filtered :
    (p > 0 /\ ssx = 1 /\ ssy = 1 /\ uvPri # 0 /\ ComputeDirection /\ dir = 0)
      => out[p].dir = 7
=============================================================================
