\* Liveness of the pool (no leaked reference, no thread waits for mutex_
\* forever), refinement of PoolAbstract, and the destructor's assertion.
CONSTANTS
  t1 = t1
  t2 = t2
  b1 = b1
  b2 = b2
  s1 = s1
  NULL = NULL
  Threads <- MCThreads
  Buffers <- MCBuffers
  Slots <- MCSlots
  MaxAcquires = 3
  MaxAborts = 1
  MainThread = t1

SPECIFICATION Spec

PROPERTY NoLeak
PROPERTY OpsComplete
PROPERTY ImplementsPoolAbstract
PROPERTY DestroyNoneInUse

\* The decoders stop once MaxAcquires frames have been handed out, or once
\* the pool is destroyed.
CHECK_DEADLOCK FALSE
