---------------------------- MODULE MCCdefBorder ----------------------------
EXTENDS CdefBorder

CONSTANT LargeValue

(* Every frame size from 1 to 200 pixels: all residues modulo 8 and 64,   *)
(* one, two and four 64-pixel units, and a partial last unit.             *)
MCSizes == 1 .. 200
=============================================================================
