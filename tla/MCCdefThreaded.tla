--------------------------- MODULE MCCdefThreaded ---------------------------
EXTENDS CdefThreaded

CONSTANTS w1, w2

MCWorkers == {w1, w2}
(* Frames one window tall and three windows tall (the last one a partial  *)
(* 4x4 row band), one window wide and three wide (the last one partial).  *)
MCRows == {40, 100}
MCColumns == {16, 40}
=============================================================================
