\* Every frame height from 1 to 272 pixels (rows4x4 2..68, so up to five
\* 64x64 or three 128x128 superblock rows), both superblock sizes; the
\* schedule against the abstract CDEF pass.
CONSTANTS
  Heights <- MCHeights
  SbSizes <- MCSbSizes
  Reach <- MCReach

SPECIFICATION Spec

INVARIANT TypeOK
INVARIANT FilteredAtMostOnce
INVARIANT AllRowsFiltered
INVARIANT ReadsOnlyDeblockedRows

PROPERTY ImplementsCdefAbstract

\* The schedule ends after the last superblock row of the frame.
CHECK_DEADLOCK FALSE
