----------------------------- MODULE BufferPool -----------------------------
(***************************************************************************)
(* The frame-buffer pool of src/buffer_pool.cc: BufferPool::GetFreeBuffer, *)
(* RefCountedBuffer::Realloc, BufferPool::ReturnUnusedBuffer (the deleter  *)
(* of the RefCountedBufferPtr handles) and BufferPool::Abort, run by       *)
(* several decoder threads that share handles through reference-frame      *)
(* slots.                                                                  *)
(*                                                                         *)
(* A RefCountedBuffer object is an element of Buffers (its address).  The  *)
(* vector buffers_ is the sequence `buffers`.  mutex_ is `lock`.  A        *)
(* RefCountedBufferPtr is a handle [buf, gen], where gen is a history      *)
(* count of the acquisitions of that object: a handle whose gen is not the *)
(* object's current gen is a handle left over from an earlier frame.  The  *)
(* shared_ptr use count is the number of live handles (Holders).           *)
(*                                                                         *)
(* Each section that runs under mutex_ without calling out is one atomic   *)
(* step; the two sections that call the frame-buffer callbacks while       *)
(* holding mutex_ are split at the callback so that the callback is a      *)
(* state (pc "realloc" or "release") other threads can interleave with.    *)
(***************************************************************************)
EXTENDS Integers, FiniteSets, Sequences, SequencesExt

CONSTANTS
  Threads,      \* decoder threads holding RefCountedBufferPtr handles
  Slots,        \* reference-frame slots, each holding at most one handle
  Buffers,      \* addresses `new RefCountedBuffer` can return
  MaxAcquires,  \* bound on GetFreeBuffer calls that return a buffer
  MaxAborts,    \* bound on BufferPool::Abort calls
  MainThread,   \* the decoder thread that parses sequence headers and so
                \* calls OnFrameBufferSizeChanged
  NULL

ASSUME Threads # {} /\ Buffers # {} /\ NULL \notin Buffers \cup Threads
ASSUME MaxAcquires \in Nat /\ MaxAborts \in Nat /\ MainThread \in Threads

VARIABLES
  buffers,      \* buffers_: the objects in the pool, in vector order
  inUse,        \* in_use_ of each object
  progress,     \* progress_row_ of each object
  frameState,   \* frame_state_ of each object
  hdrSet,       \* hdr_cll_set_ / hdr_mdcv_set_ / itut_t35_set_ (all alike)
  dataValid,    \* buffer_private_data_valid_: storage bound by the callback
  lock,         \* owner of mutex_, or NULL
  pc,           \* where each thread is
  cur,          \* the thread's own handle to the frame it decodes, or NULL
  newBuf,       \* the object a thread created in GetFreeBuffer, or NULL
  ret,          \* the object a thread is returning to the pool, or NULL
  cont,         \* where the thread resumes after returning `ret`
  slots,        \* reference-frame slots: a handle or NULL
  gen,          \* history: number of times each object was handed out
  acquired,     \* number of GetFreeBuffer calls that returned a buffer
  aborts,       \* number of Abort calls
  destroyed,    \* ~BufferPool has run
  sizeCb        \* on_frame_buffer_size_changed_ != nullptr (fixed at construction)

poolVars == <<buffers, inUse, progress, frameState, hdrSet, dataValid, lock, pc,
              cur, newBuf, ret, cont, slots, gen, acquired, aborts>>
vars == <<poolVars, destroyed, sizeCb>>

(* progress_row_ values: -1 is the reset value GetFreeBuffer stores, a     *)
(* decoded row is represented by 0, and an aborted frame by a sentinel.    *)
ProgressReset   == -1
ProgressRows    == 0
ProgressAborted == -2

FrameStates == {"unknown", "decoded"}   \* kFrameStateUnknown and the others

Handles == [buf : Buffers, gen : Nat]

PoolSet == Range(buffers)

(* The shared_ptr use count of an object: every live handle to it.        *)
Holders(b) ==
  Cardinality({t \in Threads : cur[t] # NULL /\ cur[t].buf = b})
    + Cardinality({s \in Slots : slots[s] # NULL /\ slots[s].buf = b})

(* Objects no thread owns: not in buffers_ and not being created.         *)
FreeObjects == Buffers \ (PoolSet \cup {newBuf[t] : t \in Threads})

Go(t, from, to) == pc[t] = from /\ pc' = [pc EXCEPT ![t] = to]

(* A new handle for b, as the RefCountedBufferPtr constructor makes it.   *)
Hand(t, b) ==
  /\ gen' = [gen EXCEPT ![b] = @ + 1]
  /\ cur' = [cur EXCEPT ![t] = [buf |-> b, gen |-> gen[b] + 1]]
  /\ acquired' = acquired + 1

-----------------------------------------------------------------------------
(* Dropping one reference to b.  The shared_ptr decrement is atomic and   *)
(* only the thread that takes the count to zero runs the deleter          *)
(* RefCountedBuffer::ReturnToBufferPool, which calls ReturnUnusedBuffer.  *)
(* ReleaseRefEarly is a faulty variant that runs the deleter one          *)
(* reference too early; ReleaseRefNever one that never runs it.           *)
ReleaseRefEarly(t, b, k) ==
  IF Holders(b) <= 2
  THEN /\ pc' = [pc EXCEPT ![t] = "ret"]
       /\ ret' = [ret EXCEPT ![t] = b]
       /\ cont' = [cont EXCEPT ![t] = k]
  ELSE /\ pc' = [pc EXCEPT ![t] = k]
       /\ UNCHANGED <<ret, cont>>

ReleaseRefNever(t, b, k) ==
  /\ pc' = [pc EXCEPT ![t] = k]
  /\ UNCHANGED <<ret, cont>>

ReleaseRef(t, b, k) ==
  IF Holders(b) = 1
  THEN /\ pc' = [pc EXCEPT ![t] = "ret"]
       /\ ret' = [ret EXCEPT ![t] = b]
       /\ cont' = [cont EXCEPT ![t] = k]
  ELSE /\ pc' = [pc EXCEPT ![t] = k]
       /\ UNCHANGED <<ret, cont>>

-----------------------------------------------------------------------------
(* GetFreeBuffer, first critical section: take the first object of        *)
(* buffers_ that is not in use and reset its per-frame state; when there  *)
(* is none, unlock and go on to create one.  BeginNewBufferKeepLock is a   *)
(* faulty variant that forgets the unlock before `new`.                   *)
ReuseBuffer(t, b) ==
  /\ Go(t, "idle", "fresh")
  /\ inUse' = [inUse EXCEPT ![b] = TRUE]
  /\ progress' = [progress EXCEPT ![b] = ProgressReset]
  /\ frameState' = [frameState EXCEPT ![b] = "unknown"]
  /\ hdrSet' = [hdrSet EXCEPT ![b] = FALSE]
  /\ Hand(t, b)
  /\ UNCHANGED lock

BeginNewBufferKeepLock(t) ==
  /\ Go(t, "idle", "alloc")
  /\ lock' = t
  /\ UNCHANGED <<inUse, progress, frameState, hdrSet, cur, gen, acquired>>

BeginNewBuffer(t) ==
  /\ Go(t, "idle", "alloc")
  /\ UNCHANGED <<inUse, progress, frameState, hdrSet, cur, gen, acquired, lock>>

GetFreeBuffer(t) ==
  LET i == SelectInSeq(buffers, LAMBDA b : ~inUse[b]) IN
  /\ acquired < MaxAcquires
  /\ lock = NULL
  /\ IF i # 0 THEN ReuseBuffer(t, buffers[i]) ELSE BeginNewBuffer(t)
  /\ UNCHANGED <<buffers, dataValid, newBuf, ret, cont, slots, aborts>>

(* GetFreeBuffer, outside the lock: `new (std::nothrow) RefCountedBuffer` *)
(* either fails (empty handle) or yields an unowned object, constructed   *)
(* with no storage and no HDR flags, which is marked in use.              *)
(* NewBufferNoNullCheck is a faulty variant without the nullptr check:    *)
(* a failed allocation goes on to push_back.                              *)
NewBufferNoNullCheck(t) ==
  /\ pc[t] = "alloc"
  /\ \/ /\ pc' = [pc EXCEPT ![t] = "push"]
        /\ UNCHANGED <<inUse, progress, frameState, hdrSet, dataValid, newBuf>>
     \/ \E b \in FreeObjects :
          /\ pc' = [pc EXCEPT ![t] = "push"]
          /\ newBuf' = [newBuf EXCEPT ![t] = b]
          /\ inUse' = [inUse EXCEPT ![b] = TRUE]
          /\ progress' = [progress EXCEPT ![b] = ProgressReset]
          /\ frameState' = [frameState EXCEPT ![b] = "unknown"]
          /\ hdrSet' = [hdrSet EXCEPT ![b] = FALSE]
          /\ dataValid' = [dataValid EXCEPT ![b] = FALSE]
  /\ UNCHANGED <<buffers, lock, cur, ret, cont, slots, gen, acquired, aborts>>

NewBuffer(t) ==
  /\ pc[t] = "alloc"
  /\ \/ /\ pc' = [pc EXCEPT ![t] = "idle"]
        /\ UNCHANGED <<inUse, progress, frameState, hdrSet, dataValid, newBuf>>
     \/ \E b \in FreeObjects :
          /\ pc' = [pc EXCEPT ![t] = "push"]
          /\ newBuf' = [newBuf EXCEPT ![t] = b]
          /\ inUse' = [inUse EXCEPT ![b] = TRUE]
          /\ progress' = [progress EXCEPT ![b] = ProgressReset]
          /\ frameState' = [frameState EXCEPT ![b] = "unknown"]
          /\ hdrSet' = [hdrSet EXCEPT ![b] = FALSE]
          /\ dataValid' = [dataValid EXCEPT ![b] = FALSE]
  /\ UNCHANGED <<buffers, lock, cur, ret, cont, slots, gen, acquired, aborts>>

(* GetFreeBuffer, second critical section: push_back into buffers_; on    *)
(* failure the new object is deleted and an empty handle returned.        *)
PushBuffer(t) ==
  LET b == newBuf[t] IN
  /\ pc[t] = "push"
  /\ lock = NULL
  /\ newBuf' = [newBuf EXCEPT ![t] = NULL]
  /\ \/ /\ buffers' = Append(buffers, b)
        /\ pc' = [pc EXCEPT ![t] = "fresh"]
        /\ Hand(t, b)
     \/ /\ pc' = [pc EXCEPT ![t] = "idle"]
        /\ UNCHANGED <<buffers, cur, gen, acquired>>
  /\ UNCHANGED <<inUse, progress, frameState, hdrSet, dataValid, lock, ret,
                 cont, slots, aborts>>

-----------------------------------------------------------------------------
(* RefCountedBuffer::Realloc: lock mutex_ and, with the lock held, call   *)
(* the get-frame-buffer callback.  ReallocUnlocked is a faulty variant    *)
(* that calls the callback without taking mutex_.                         *)
ReallocUnlocked(t) ==
  /\ Go(t, "fresh", "realloc")
  /\ UNCHANGED <<buffers, inUse, progress, frameState, hdrSet, dataValid,
                 lock, cur, newBuf, ret, cont, slots, gen, acquired, aborts>>

Realloc(t) ==
  /\ Go(t, "fresh", "realloc")
  /\ lock = NULL
  /\ lock' = t
  /\ UNCHANGED <<buffers, inUse, progress, frameState, hdrSet, dataValid,
                 cur, newBuf, ret, cont, slots, gen, acquired, aborts>>

(* The callback returns: on success the storage is bound, on failure      *)
(* nothing changes; either way mutex_ is released.                        *)
ReallocDone(t) ==
  LET b == cur[t].buf IN
  /\ Go(t, "realloc", "decode")
  /\ lock' = NULL
  /\ \/ dataValid' = [dataValid EXCEPT ![b] = TRUE]
     \/ UNCHANGED dataValid
  /\ UNCHANGED <<buffers, inUse, progress, frameState, hdrSet, cur, newBuf,
                 ret, cont, slots, gen, acquired, aborts>>

(* The decoder fills a frame that has storage and is not aborted: it      *)
(* advances progress_row_, sets frame_state_ and may set the HDR flags.   *)
Decode(t) ==
  LET b == cur[t].buf IN
  /\ pc[t] = "decode"
  /\ dataValid[b]
  /\ progress[b] # ProgressAborted
  /\ progress' = [progress EXCEPT ![b] = ProgressRows]
  /\ frameState' = [frameState EXCEPT ![b] = "decoded"]
  /\ hdrSet' = [hdrSet EXCEPT ![b] = TRUE]
  /\ <<progress[b], frameState[b], hdrSet[b]>> # <<ProgressRows, "decoded", TRUE>>
  /\ UNCHANGED <<buffers, inUse, dataValid, lock, pc, cur, newBuf, ret, cont,
                 slots, gen, acquired, aborts>>

(* The decoder copies its handle into a reference slot; the handle the    *)
(* slot held before is destroyed.                                         *)
StoreRef(t, s) ==
  LET old == slots[s] IN
  /\ pc[t] = "decode"
  /\ dataValid[cur[t].buf]
  /\ old # cur[t]
  /\ slots' = [slots EXCEPT ![s] = cur[t]]
  /\ IF old # NULL
     THEN ReleaseRef(t, old.buf, "decode")
     ELSE UNCHANGED <<pc, ret, cont>>
  /\ UNCHANGED <<buffers, inUse, progress, frameState, hdrSet, dataValid, lock,
                 cur, newBuf, gen, acquired, aborts>>

(* The decoder is done with its frame (or abandons it) and destroys its   *)
(* own handle.                                                            *)
DropFrame(t) ==
  /\ pc[t] = "decode"
  /\ cur' = [cur EXCEPT ![t] = NULL]
  /\ ReleaseRef(t, cur[t].buf, "idle")
  /\ UNCHANGED <<buffers, inUse, progress, frameState, hdrSet, dataValid, lock,
                 newBuf, slots, gen, acquired, aborts>>

(* The decoder empties a reference slot (a reset or a refresh).           *)
ClearSlot(t, s) ==
  /\ pc[t] = "idle"
  /\ slots[s] # NULL
  /\ slots' = [slots EXCEPT ![s] = NULL]
  /\ ReleaseRef(t, slots[s].buf, "idle")
  /\ UNCHANGED <<buffers, inUse, progress, frameState, hdrSet, dataValid, lock,
                 cur, newBuf, gen, acquired, aborts>>

(* BufferPool::OnFrameBufferSizeChanged, called by the decoder's main    *)
(* thread before it binds storage of a new size: with no callback it returns true at once  *)
(* (no step); otherwise it calls the size-changed callback, without       *)
(* taking mutex_.                                                         *)
OnFrameBufferSizeChanged(t) ==
  /\ sizeCb
  /\ t = MainThread
  /\ Go(t, "idle", "sizecb")
  /\ UNCHANGED <<buffers, inUse, progress, frameState, hdrSet, dataValid, lock,
                 cur, newBuf, ret, cont, slots, gen, acquired, aborts>>

(* The size-changed callback returns, with success or failure; either way *)
(* the pool is unchanged and the decoder goes on (or gives up the frame). *)
SizeChangedDone(t) ==
  /\ Go(t, "sizecb", "idle")
  /\ UNCHANGED <<buffers, inUse, progress, frameState, hdrSet, dataValid, lock,
                 cur, newBuf, ret, cont, slots, gen, acquired, aborts>>

-----------------------------------------------------------------------------
(* BufferPool::ReturnUnusedBuffer, under mutex_: clear in_use_ and, if    *)
(* storage is bound, call the release callback with the lock held.        *)
(* ReturnUnusedBufferNoRelease is a faulty variant that recycles the      *)
(* object without releasing its storage.                                  *)
ReturnUnusedBufferNoRelease(t) ==
  LET b == ret[t] IN
  /\ pc[t] = "ret"
  /\ lock = NULL
  /\ inUse' = [inUse EXCEPT ![b] = FALSE]
  /\ pc' = [pc EXCEPT ![t] = cont[t]]
  /\ ret' = [ret EXCEPT ![t] = NULL]
  /\ UNCHANGED <<buffers, progress, frameState, hdrSet, dataValid, lock, cur,
                 newBuf, cont, slots, gen, acquired, aborts>>

(* ReturnUnusedBufferUnlockBeforeRelease is a faulty variant that drops *)
(* mutex_ before calling the release callback.                            *)
ReturnUnusedBufferUnlockBeforeRelease(t) ==
  LET b == ret[t] IN
  /\ pc[t] = "ret"
  /\ lock = NULL
  /\ inUse' = [inUse EXCEPT ![b] = FALSE]
  /\ IF dataValid[b]
     THEN /\ pc' = [pc EXCEPT ![t] = "release"]
          /\ UNCHANGED ret
     ELSE /\ pc' = [pc EXCEPT ![t] = cont[t]]
          /\ ret' = [ret EXCEPT ![t] = NULL]
  /\ UNCHANGED <<buffers, progress, frameState, hdrSet, dataValid, lock, cur,
                 newBuf, cont, slots, gen, acquired, aborts>>

ReturnUnusedBuffer(t) ==
  LET b == ret[t] IN
  /\ pc[t] = "ret"
  /\ lock = NULL
  /\ inUse' = [inUse EXCEPT ![b] = FALSE]
  /\ IF dataValid[b]
     THEN /\ lock' = t
          /\ pc' = [pc EXCEPT ![t] = "release"]
          /\ UNCHANGED ret
     ELSE /\ pc' = [pc EXCEPT ![t] = cont[t]]
          /\ ret' = [ret EXCEPT ![t] = NULL]
          /\ UNCHANGED lock
  /\ UNCHANGED <<buffers, progress, frameState, hdrSet, dataValid, cur, newBuf,
                 cont, slots, gen, acquired, aborts>>

(* The release callback returns: the storage is no longer bound and       *)
(* mutex_ is released.                                                    *)
ReleaseStorage(t) ==
  LET b == ret[t] IN
  /\ pc[t] = "release"
  /\ dataValid' = [dataValid EXCEPT ![b] = FALSE]
  /\ lock' = NULL
  /\ pc' = [pc EXCEPT ![t] = cont[t]]
  /\ ret' = [ret EXCEPT ![t] = NULL]
  /\ UNCHANGED <<buffers, inUse, progress, frameState, hdrSet, cur, newBuf,
                 cont, slots, gen, acquired, aborts>>

(* BufferPool::Abort, under mutex_: every object of buffers_ that is in   *)
(* use is aborted, which marks its progress as permanently failed.        *)
Abort(t) ==
  /\ pc[t] = "decode"
  /\ lock = NULL
  /\ aborts < MaxAborts
  /\ aborts' = aborts + 1
  /\ progress' = [b \in Buffers |->
                   IF b \in PoolSet /\ inUse[b] THEN ProgressAborted ELSE progress[b]]
  /\ UNCHANGED <<buffers, inUse, frameState, hdrSet, dataValid, lock, pc, cur,
                 newBuf, ret, cont, slots, gen, acquired>>

(* ~BufferPool: the decoder destroys the pool once its threads are idle  *)
(* and every handle, its own and the reference slots', is gone; the       *)
(* destructor then walks buffers_ and deletes every object (asserting     *)
(* that none is in use).  The objects are left in `buffers` so that the   *)
(* property can look at them.                                             *)
Destroy ==
  /\ ~destroyed
  /\ \A t \in Threads : pc[t] = "idle" /\ cur[t] = NULL
  /\ \A s \in Slots : slots[s] = NULL
  /\ destroyed' = TRUE
  /\ UNCHANGED <<poolVars, sizeCb>>

-----------------------------------------------------------------------------
Init ==
  /\ buffers = <<>>
  /\ inUse = [b \in Buffers |-> FALSE]
  /\ progress = [b \in Buffers |-> ProgressReset]
  /\ frameState = [b \in Buffers |-> "unknown"]
  /\ hdrSet = [b \in Buffers |-> FALSE]
  /\ dataValid = [b \in Buffers |-> FALSE]
  /\ lock = NULL
  /\ pc = [t \in Threads |-> "idle"]
  /\ cur = [t \in Threads |-> NULL]
  /\ newBuf = [t \in Threads |-> NULL]
  /\ ret = [t \in Threads |-> NULL]
  /\ cont = [t \in Threads |-> "idle"]
  /\ slots = [s \in Slots |-> NULL]
  /\ gen = [b \in Buffers |-> 0]
  /\ acquired = 0
  /\ aborts = 0
  /\ destroyed = FALSE
  \* The constructor: caller callbacks (get_frame_buffer != nullptr), whose
  \* size-changed callback may be null, or the internal ones, which have one.
  /\ \E callerGet, callerSizeCb \in BOOLEAN :
       sizeCb = IF callerGet THEN callerSizeCb ELSE TRUE

Next ==
  \/ /\ ~destroyed
     /\ UNCHANGED <<destroyed, sizeCb>>
     /\ \E t \in Threads :
        \/ GetFreeBuffer(t)
        \/ NewBuffer(t)
        \/ PushBuffer(t)
        \/ Realloc(t)
        \/ ReallocDone(t)
        \/ Decode(t)
        \/ \E s \in Slots : StoreRef(t, s)
        \/ DropFrame(t)
        \/ \E s \in Slots : ClearSlot(t, s)
        \/ ReturnUnusedBuffer(t)
        \/ ReleaseStorage(t)
        \/ Abort(t)
        \/ OnFrameBufferSizeChanged(t)
        \/ SizeChangedDone(t)
  \/ Destroy

(* Once a thread is inside a pool operation it keeps running: the steps   *)
(* that wait for mutex_ are strongly fair (the lock is released by every  *)
(* holder and so is available again and again), the others weakly fair.   *)
(* A thread holding a fresh buffer is in the decoder's call of Realloc,   *)
(* whose wait for mutex_ is strongly fair like the others.  The decoder's *)
(* own choices (what to call next, from idle or decode) carry no fairness, *)
(* so the wait for mutex_ on entry to GetFreeBuffer is not distinguished  *)
(* from an idle thread.                                                   *)
Fairness ==
  \A t \in Threads :
    /\ WF_poolVars(NewBuffer(t))
    /\ SF_poolVars(PushBuffer(t))
    /\ SF_poolVars(Realloc(t))
    /\ WF_poolVars(ReallocDone(t))
    /\ SF_poolVars(ReturnUnusedBuffer(t))
    /\ WF_poolVars(ReleaseStorage(t))
    /\ WF_poolVars(SizeChangedDone(t))

Spec == Init /\ [][Next]_vars /\ Fairness

-----------------------------------------------------------------------------
TypeOK ==
  /\ buffers \in Seq(Buffers)
  /\ inUse \in [Buffers -> BOOLEAN]
  /\ progress \in [Buffers -> {ProgressReset, ProgressRows, ProgressAborted}]
  /\ frameState \in [Buffers -> FrameStates]
  /\ hdrSet \in [Buffers -> BOOLEAN]
  /\ dataValid \in [Buffers -> BOOLEAN]
  /\ lock \in Threads \cup {NULL}
  /\ pc \in [Threads -> {"idle", "alloc", "push", "fresh", "realloc", "decode",
                         "ret", "release", "sizecb"}]
  /\ cur \in [Threads -> Handles \cup {NULL}]
  /\ newBuf \in [Threads -> Buffers \cup {NULL}]
  /\ \A t \in Threads : pc[t] = "push" => newBuf[t] \in Buffers
  /\ ret \in [Threads -> Buffers \cup {NULL}]
  /\ slots \in [Slots -> Handles \cup {NULL}]
  /\ gen \in [Buffers -> Nat]
  /\ destroyed \in BOOLEAN
  /\ sizeCb \in BOOLEAN

LiveHandles == {cur[t] : t \in Threads} \cup {slots[s] : s \in Slots}

(* No two acquisitions share a buffer: every live handle, whoever holds   *)
(* it, belongs to the object's latest GetFreeBuffer, and that object is   *)
(* in buffers_ and in use.  Breaking it takes a reference dropped while   *)
(* another thread or slot still holds one, then a reacquisition.          *)
ExclusiveHandout ==
  \A h \in LiveHandles \ {NULL} :
    /\ h.gen = gen[h.buf]
    /\ h.buf \in PoolSet
    /\ inUse[h.buf]

(* assert(buffer->in_use_) in ReturnUnusedBuffer: a buffer is returned    *)
(* only while in use, so never twice for one acquisition.                 *)
ReturnOnlyInUse ==
  \A t \in Threads : pc[t] \in {"ret"} => inUse[ret[t]]

(* assert(!buffer_private_data_valid_) in Realloc: a buffer handed out    *)
(* again never still has the storage bound during its previous use.       *)
ReallocOnUnbound ==
  \A t \in Threads : pc[t] = "realloc" => ~dataValid[cur[t].buf]

(* At most one frame-buffer callback (get or release) runs at a time.     *)
CallbacksSerialized ==
  Cardinality({t \in Threads : pc[t] \in {"realloc", "release"}}) <= 1

(* spec.md, section 4.1: the callbacks are not guaranteed thread-safe and *)
(* the internal allocator's share state, so the pool serializes them: at  *)
(* most one of the three callbacks (get, release, size-changed) runs at a *)
(* time, also when one thread calls OnFrameBufferSizeChanged while        *)
(* another binds or releases storage.                                     *)
AllCallbacksSerialized ==
  Cardinality({t \in Threads : pc[t] \in {"realloc", "release", "sizecb"}}) <= 1

(* spec.md, section 4.1: when no buffer is free, acquire() allocates a new *)
(* one, marks it in use and appends it "all under lock", so the pool grows *)
(* only while every buffer in it is in use and never holds more buffers    *)
(* than were ever in use at once.  GetFreeBuffer drops mutex_ between its  *)
(* scan and push_back: a buffer another thread returns meanwhile stays in  *)
(* the pool, unused, beside the new one.                                   *)
PoolGrowsOnlyWhenFull ==
  [][Len(buffers') > Len(buffers) => \A b \in PoolSet : inUse[b]]_vars

(* A pooled buffer whose last handle is gone is eventually back in the    *)
(* pool with its storage released: no reference is leaked.               *)
NoLeak ==
  \A b \in Buffers :
    (b \in PoolSet /\ inUse[b] /\ Holders(b) = 0) ~> (~inUse[b] /\ ~dataValid[b])

(* Every pool operation a thread has entered completes, also Realloc     *)
(* after GetFreeBuffer, which queues for mutex_ behind other threads'     *)
(* get and release callbacks: nobody waits for mutex_ forever.            *)
OpsComplete ==
  \A t \in Threads :
    pc[t] \in {"alloc", "push", "fresh", "realloc", "ret", "release", "sizecb"}
      ~> pc[t] \in {"idle", "decode"}

(* spec.md, section 3: the set of buffers in use at pool destruction is   *)
(* empty.  When the decoder has dropped every handle and its threads are  *)
(* idle, the destructor's assert(false) for an in-use buffer never fires: *)
(* every last reference has run ReturnUnusedBuffer to completion.         *)
DestroyNoneInUse ==
  [][~destroyed /\ destroyed' => \A b \in PoolSet : ~inUse[b]]_vars

-----------------------------------------------------------------------------
(* Refinement: the pool implements PoolAbstract, where a buffer is in use *)
(* when it is in buffers_ with in_use_ set, and bound when it is in       *)
(* buffers_ with buffer_private_data_valid_ set.  Objects being created   *)
(* (between `new` and push_back) are not yet part of the pool.            *)
Abstract == INSTANCE PoolAbstract WITH
              used  <- {b \in PoolSet : inUse[b]},
              bound <- {b \in PoolSet : dataValid[b]}

(* Every behaviour of the pool, with its fairness, is a behaviour of the  *)
(* abstract pool: a buffer is handed out only when free and unbound,      *)
(* storage is bound once per acquisition, and released storage is        *)
(* eventually returned to the application.                                *)
ImplementsPoolAbstract == Abstract!ASpec
=============================================================================
