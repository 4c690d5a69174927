---------------------------- MODULE MCBufferPool ----------------------------
(* Instance of BufferPool for TLC: two decoder threads, two objects the   *)
(* allocator can hand out and one reference slot.                         *)
EXTENDS BufferPool, TLC

CONSTANTS t1, t2, b1, b2, s1

MCThreads == {t1, t2}
MCBuffers == {b1, b2}
MCSlots   == {s1}
=============================================================================
