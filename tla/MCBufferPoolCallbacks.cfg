\* All three frame-buffer callbacks, including the size-changed callback
\* that OnFrameBufferSizeChanged calls without mutex_.
CONSTANTS
  t1 = t1
  t2 = t2
  b1 = b1
  b2 = b2
  s1 = s1
  NULL = NULL
  Threads <- MCThreads
  Buffers <- MCBuffers
  Slots <- MCSlots
  MaxAcquires = 2
  MaxAborts = 0
  MainThread = t1

SPECIFICATION Spec

INVARIANT AllCallbacksSerialized

CHECK_DEADLOCK FALSE
