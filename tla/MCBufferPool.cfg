\* Safety of the pool under two threads, two objects and one slot.
CONSTANTS
  t1 = t1
  t2 = t2
  b1 = b1
  b2 = b2
  s1 = s1
  NULL = NULL
  Threads <- MCThreads
  Buffers <- MCBuffers
  Slots <- MCSlots
  MaxAcquires = 4
  MaxAborts = 1
  MainThread = t1

SPECIFICATION Spec

INVARIANT TypeOK
INVARIANT ExclusiveHandout
INVARIANT ReturnOnlyInUse
INVARIANT ReallocOnUnbound
INVARIANT CallbacksSerialized

\* The decoders stop once MaxAcquires frames have been handed out.
CHECK_DEADLOCK FALSE
