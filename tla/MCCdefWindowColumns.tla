------------------------- MODULE MCCdefWindowColumns -------------------------
EXTENDS CdefWindowColumns

(* Frames 8 to 320 pixels wide: one to five 64-pixel units, partial last  *)
(* units and partial last windows.                                        *)
MCColumns == {2 * k : k \in 1 .. 40}

(* Window widths that are multiples of 64 pixels.                         *)
MCWidths64 == {16, 32, 48}

(* Window widths of 96 and 40 pixels: multiples of 4 pixels, as the window *)
(* height's 64-pixel constraint is the only one stated.                   *)
MCWidthsAny == {24, 10}
=============================================================================
