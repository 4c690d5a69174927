---------------------------- MODULE MCCdefRowLag ----------------------------
EXTENDS CdefRowLag

MCHeights == 1 .. 272
MCSbSizes == {16, 32}
(* The AV1 deblocking filter modifies at most 6 luma rows (its 13-tap     *)
(* filter) and 2 chroma rows (its 6-tap filter) on each side of an edge.  *)
MCReach == [ss \in {0, 1} |-> IF ss = 0 THEN 6 ELSE 2]
=============================================================================
