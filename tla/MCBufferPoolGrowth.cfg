\* The pool grows only while every buffer in it is in use, as spec.md says
\* of acquire(); GetFreeBuffer's unlock between scan and push_back lets a
\* buffer be returned meanwhile.
CONSTANTS
  t1 = t1
  t2 = t2
  b1 = b1
  b2 = b2
  s1 = s1
  NULL = NULL
  Threads <- MCThreads
  Buffers <- MCBuffers
  Slots <- MCSlots
  MaxAcquires = 2
  MaxAborts = 0
  MainThread = t1

SPECIFICATION Spec

PROPERTY PoolGrowsOnlyWhenFull

CHECK_DEADLOCK FALSE
