\* With cdef_buffer_ aliasing source_buffer_, a window reads border pixels
\* that an earlier window has already filtered and copied back.
CONSTANTS
  w1 = w1
  w2 = w2
  NULL = NULL
  Workers <- MCWorkers
  WindowHeight4x4 = 48
  WindowWidth4x4 = 16
  RowsChoices <- MCRows
  ColumnsChoices <- MCColumns

SPECIFICATION Spec

INVARIANT ReadsPrefilterSourceWhenAliased

\* The calling thread stops after the last window of the frame.
CHECK_DEADLOCK FALSE
