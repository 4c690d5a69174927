\* Two pool threads, windows of 192x64 pixels (three 64-row bands, so two
\* bands go to the pool and one runs on the calling thread).
CONSTANTS
  w1 = w1
  w2 = w2
  NULL = NULL
  Workers <- MCWorkers
  WindowHeight4x4 = 48
  WindowWidth4x4 = 16
  RowsChoices <- MCRows
  ColumnsChoices <- MCColumns

SPECIFICATION Spec

INVARIANT TypeOK
INVARIANT RaceFree
INVARIANT FrameOutputCorrect
PROPERTY Terminates

\* The calling thread stops after the last window of the frame.
CHECK_DEADLOCK FALSE
