# TLA+ models of libgav1's frame-buffer pool and CDEF pipeline

This directory holds TLA+ models of two subsystems of the repository, with the
TLC configurations that check them:

- `src/src/buffer_pool.cc` is the pool of reference-counted frame buffers.
- `src/unnamed/part_000` is the CDEF post-filter pipeline of `PostFilter`.

Every action is translated from the source lines that `PROJECT.json` ("map")
names.

## 1. The system

### Buffer pool (`buffer_pool.cc`)

**State.**
- `BufferPool` holds `buffers_` (a vector of `RefCountedBuffer*`) and `mutex_`.
- It also holds the frame-buffer callbacks: get, release, size-changed.
- Each `RefCountedBuffer` has these per-frame fields:
  - `in_use_`
  - `progress_row_`
  - `frame_state_`
  - the HDR/T.35 flags
  - `buffer_private_data_valid_`, which says whether storage is bound through the get callback
- Decoder threads hold `RefCountedBufferPtr` handles. These are shared_ptrs whose deleter is `ReturnToBufferPool`. Threads keep them while decoding and store them in reference-frame slots.

**Operations.**
- `GetFreeBuffer` runs in three steps:
  1. A locked scan for the first buffer that is not in use. If it finds one, it resets that buffer's per-frame state.
  2. Otherwise, outside the lock, it runs `new (std::nothrow)` and initialises the new buffer.
  3. A second locked section runs `push_back`. If the push fails, the buffer is deleted.
- `RefCountedBuffer::Realloc` takes `mutex_` and calls the get callback with the lock held.
- `ReturnUnusedBuffer` clears `in_use_` under the lock. If storage is bound, it calls the release callback.
- `Abort` marks every pooled buffer that is in use as aborted, under the lock.

**Interaction.** Several threads share handles. The last handle dropped runs the deleter, and the pool mutex serialises the callbacks.

**What makes it hard:**
- the unlock/relock window inside `GetFreeBuffer`;
- the last two references being dropped concurrently;
- callbacks that run under the lock;
- recycling without resetting state;
- storage that is never released.

### CDEF pipeline (`part_000`)

- `ApplyCdefForOneSuperBlockRow` filters each superblock row after it has been deblocked. It holds back the last two 4x4 rows of a row until the next row has been deblocked. The last row is the exception, and 128x128 superblocks need special handling there.
- `ApplyCdefForOneUnit` decides, for each 64x64 unit, 8x8 block and plane:
  - whether to copy or filter;
  - whether to compute direction and variance;
  - the strengths, the damping and the direction (the chroma direction comes from `kCdefUvDirection`).
- `ApplyCdefThreaded` cuts the frame into windows:
  - In each window, the first `jobs_for_threadpool` 64-row bands go to the thread pool. The rest run on the calling thread.
  - A `BlockingCounter` waits for the pool jobs.
  - The window buffer is then copied back into the frame.
- `GetCdefBufferAndStride` chooses where a band writes in the window buffer.

**What makes it hard:**
- the lag arithmetic at the frame bottom;
- the uninitialised `direction_y`;
- the barrier count;
- lambda captures;
- the use of the window buffer across windows.

## 2. Modules

| module | models | state | actions |
|---|---|---|---|
| `BufferPool` | buffer_pool.cc | `buffers`, `inUse`, `progress`, `frameState`, `hdrSet`, `dataValid`, `lock` (mutex_ owner), per-thread `pc`/`cur`/`newBuf`/`ret`/`cont`, reference `slots`, history `gen`, constructor choice `sizeCb` | `GetFreeBuffer` (reuse or begin new), `NewBuffer`, `PushBuffer`, `Realloc`, `ReallocDone`, `ReturnUnusedBuffer`, `ReleaseStorage`, `Abort`, `OnFrameBufferSizeChanged`, `SizeChangedDone`, `Destroy` (~BufferPool); decoder-side `Decode`, `StoreRef`, `DropFrame`, `ClearSlot` |
| `PoolAbstract` | spec.md sections 3 and 4.1 (what the pool promises) | `used`, `bound` (sets of buffers) | `Acquire`, `Bind`, `Release`, `Unbind` |
| `CdefRowLag` | ApplyCdefForOneSuperBlockRow(+Helper), PrepareCdefBlock rows | frame height, superblock size, `start`, `y`, `stage`, filter counts per 4x4 row, last helper call | `LagStep`, `CurStep`, `ReturnBelowFrame` |
| `CdefAbstract` | spec.md sections 4.2 and 5 (what the CDEF pass promises) | `nrows`, deblocking frontier `db`, `times` filtered per 4x4 row | `Deblock`, `Filter` (a contiguous range of rows) |
| `CdefBorder` | PrepareCdefBlock, CopyRowForCdef (border synthesis) | direction `axis`, frame `size`, subsampling `ss`, unit `pos`/`n`, scratch `line` | `PrepareColumns`, `PrepareRows` |
| `CdefWindowColumns` | ApplyCdefThreaded column loop, ApplyCdefForOneRowInWindow units, copy-back width | `columns4x4`, window width `ww`, `units`, `copied` | `ApplyCdefThreadedColumns` |
| `CdefUnit` | ApplyCdefForOneUnit decisions, kCdefUvDirection | the inputs of one 8x8 block, `out` per plane | `ApplyBlock` |
| `CdefThreaded` | ApplyCdefThreaded, GetCdefBufferAndStride, ApplyCdefForOneRowInWindow | window position, caller `cpc`, `jobCount`, BlockingCounter `pending`, pool `queue`, `running` per worker, window-buffer slots `wbuf`, `frame` per band | `Dispatch`, `InlineDone`, `EndDispatch`, `WaitDone`, `StartJob`, `FinishJob`, `CopyBack` |

Each `MC*` module gives the constants values: model values for threads, buffers, slots and workers, and small sets for the inputs.

### How the model corresponds to the code

**BufferPool.**
- A handle is `[buf, gen]`. `gen` counts acquisitions, so a handle from an earlier acquisition can be told apart.
- The use count is `Holders`, the number of live handles.
- `ReleaseRef` is the atomic shared_ptr decrement. Only the thread that takes the count to zero enters `ReturnUnusedBuffer`.
- The two callbacks run under the lock: get in `Realloc`, release in `ReturnUnusedBuffer`. Each is split at the callback (pc `realloc`, `release`) so that other threads can interleave while it runs.
- The decoder actions are modelled from spec.md, since the decoder is not in `src/`:
  - `Decode` fills a frame that has storage.
  - `StoreRef` copies a handle into a slot.
  - `DropFrame` and `ClearSlot` release handles.

- `OnFrameBufferSizeChanged` is called by the decoder's main thread (`MainThread`), which parses sequence headers. When a size-changed callback exists, it runs the callback without `mutex_`. The callback is the state pc `sizecb`, left by `SizeChangedDone`. Whether a callback exists comes from the constructor (`sizeCb`): the internal callbacks always have one, and caller callbacks may leave it null.
- `Destroy` is the destructor. It runs once every thread is idle and every slot is cleared, which is the decoder's teardown order. After it, no other step is taken.
- The refinement mapping to `PoolAbstract` is `used` = the pooled buffers with `in_use_` set, and `bound` = those with `buffer_private_data_valid_` set. Binding happens when `Realloc` returns. Unbinding happens when the release callback returns. `PoolAbstract` requires that released storage is eventually given back (weak fairness of `Unbind`). `BufferPool` satisfies this through its own fairness on `ReleaseStorage`.

**CdefRowLag.**
- One step is one call of `ApplyCdefForOneSuperBlockRowHelper`.
- `ReadRows` gives the source rows that `PrepareCdefBlock` reads. Top and bottom borders are read from the frame, except at the frame edges, where `kCdefLargeValue` is used instead.
- `FinalRows` gives the rows the deblocking filter has finished. The reach is 6 luma rows and 2 chroma rows for 4:2:0.

- The refinement mapping to `CdefAbstract` maps `times` to `filtered`. The deblocking frontier is the end of the superblock row the caller deblocked before the current call, or the frame end in the last row. `CdefAbstract` lets a filter step be followed at once by more deblocking, because the model's last step of a call also moves on to the next superblock row.

**CdefBorder.**
- A scratch entry is the index of the source row or column it copies, or the model value `Large` (`kCdefLargeValue`).
- Column units are those of the superblock-row helper's loop. Row calls are those the lag schedule makes: the two lag rows, the current half minus its last two rows, and the whole half in the last row.
- The reference definition is AV1's `CdefAvailable`: a sample exists if it lies inside the frame's 4x4 grid (MiRows x MiCols).

**CdefWindowColumns.**
- The column layout is the same for every row of windows. The model computes it once: every window's units, with their strength block, and every window's copy-back columns.

**CdefUnit.**
- The dsp backend is opaque: `cdef_direction` returns `dir` and `var`, which are chosen in Init.
- Reading the uninitialised `direction_y` is modelled as any value in 0..7, marked undefined.

**CdefThreaded.**
- A band's slot is `row_window / 64`.
- The pool queue is a set, so jobs can start in any order.
- A job is split into start and finish, so that work in flight is visible to the other actors.

## 3. Runs

| run | cfg | expect | shows |
|---|---|---|---|
| buffer_pool_safety | MCBufferPool.cfg | pass | exclusive handout of shared handles, no double return, no realloc on bound storage, get and release callbacks serialised |
| buffer_pool_liveness | MCBufferPoolLive.cfg | pass | no leaked reference; every pool operation completes, including `Realloc`'s wait for `mutex_`; `BufferPool` implements `PoolAbstract`; the destructor never finds a buffer in use |
| cdef_row_lag | MCCdefRowLag.cfg | pass | every 4x4 row is filtered exactly once; only deblocked rows are read; the lag schedule implements `CdefAbstract`: each row is filtered once, after its inputs are final, and eventually |
| cdef_unit | MCCdefUnit.cfg | pass | no filtering with an uninitialised direction; luma strength is never raised |
| cdef_uv_direction | MCCdefUnitUvDirection.cfg | violation | spec.md's chroma direction table disagrees with the code (finding) |
| cdef_threaded | MCCdefThreaded.cfg | pass | the window buffer is race-free; the output equals the sequential result; the caller finishes |
| cdef_border | MCCdefBorder.cfg | pass | the scratch block holds real samples exactly inside the 4x4 grid and the sentinel outside it, at every size and subsampling |
| buffer_pool_callbacks | MCBufferPoolCallbacks.cfg | violation | the size-changed callback runs while another thread's get callback holds `mutex_` (finding) |
| buffer_pool_growth | MCBufferPoolGrowth.cfg | violation | the pool grows while one of its buffers is free, because `GetFreeBuffer` unlocks between its scan and `push_back` (finding) |
| cdef_window_columns | MCCdefWindowColumns.cfg | pass | with window widths that are multiples of 64 pixels, units cover every column once, inside their window and strength block |
| cdef_window_columns_any_width | MCCdefWindowColumnsAnyWidth.cfg | violation | a window width that is not a multiple of 64 pixels makes units overrun their window (finding) |
| cdef_threaded_alias | MCCdefThreadedAlias.cfg | violation | with the destination aliasing the source, a later window reads borders that were already filtered (finding) |

### Bounds and why they are enough

**Pool.**
- The model has 2 threads, 2 buffer objects and 1 reference slot, with 4 acquisitions (3 for the liveness run) and 1 Abort.
- That is enough for every interesting case:
  - reuse after release;
  - creating a new object while another thread reuses one;
  - a frame held both by a slot and by a thread;
  - both holders dropping;
  - Abort while another thread is in any pool step.

- The liveness run also checks the refinement. It uses 3 acquisitions, which is enough for a buffer to be bound, released, unbound and acquired again. The strong fairness over every lock wait makes its temporal check slower, at about 2.5 minutes.
- The growth run needs only 2 acquisitions: one thread's frame is returned while the other is between its scan and `push_back`.

**Row lag.**
- The run covers every frame height from 1 to 272 pixels, for both superblock sizes.
- This reaches:
  - the last-row exception at every residue of rows4x4 modulo 32;
  - the early return;
  - frames of one, two and several superblock rows.

- The refinement is checked over the full height range, in the same run as the invariants (about 40 seconds).

**Border.**
- Every frame size from 1 to 200 pixels is checked. This covers every residue modulo 8 and 64, frames of one to four 64-pixel units, and partial last units, in luma and in subsampled chroma.

**Window columns.**
- Frames are 2 to 80 4x4 columns wide. Window widths are 64, 128 and 192 pixels for the passing run, and 40 and 96 pixels for the violation.
- This gives one to five units, partial last units, and partial last windows.

**Unit.**
- Skip patterns: all set, one clear, none set.
- Primary strengths: {0, 4, 15}. Secondary strengths: {0, 2}.
- Variances cover the boundaries of the `>> 6` and of the cap at 12: 0, 63, 64, 4096, 2^18 and 2^20.
- Both subsampling flags and both plane counts are enumerated.

**Threaded.**
- There are 2 workers, windows 48 4x4 rows tall (3 bands, so 2 pooled and 1 inline) and 16 wide.
- Rows are {40, 100}: one window, or three windows where the last has a single band and therefore no pool job.
- Columns are {16, 40}: one window column, or three with a partial last one.

### Fairness

**Pool.**
- The threads that are inside a pool operation keep running.
- Steps that wait for `mutex_` are strongly fair, because every holder releases it within a bounded critical section. This includes entering `Realloc` with a fresh buffer: the decoder calls `Realloc` on every buffer it acquires.
- The wait for `mutex_` on entry to `GetFreeBuffer` is not covered. The model does not separate the decoder's decision to call it from an idle thread, and the decoder's choices carry no fairness. `OpsComplete` therefore covers lock contention in every pool operation except that first lock.
- The other pool steps are weakly fair.
- The decoder's own choices (decode, store, drop) carry no fairness, because the code does not force them.

**Refinement.** `PoolAbstract` asks only for weak fairness of `Unbind`.

**Row lag.** The caller's loop is weakly fair. `CdefAbstract` asks for weak fairness of filtering and of deblocking, meaning that the deblocking filter runs to the end of the frame.

**Threaded.** The workers and the calling thread are weakly fair. The pool runs every scheduled task.

Deadlock checking is off only where the system really stops:
- after the last acquisition the decoder is allowed;
- after the frame is finished;
- after the single block step of `CdefUnit`.

### Mutants

Each property of a passing run is shown to be violated by a plausible bug in the code that it talks about (`PROJECT.json` "mutants"):
- a missing nullptr check after `new`;
- a deleter run one reference too early, or never;
- a release callback skipped;
- `Realloc` without the lock;
- the lock kept across `new`;
- the lag taken on every iteration, or not at all in the last row;
- no lag at all;
- an inclusive bound on the 64-row-half loop, or on the plane loop;
- the direction computed only for luma strength;
- the variance cap off by one;
- the barrier count one short, or counting every band;
- `ReturnUnusedBuffer` dropping `mutex_` before the release callback, so the buffer can be handed out again while its storage is still bound (this breaks the refinement);
- a reference that is never released (`DestroyNoneInUse`);
- the lag skipped in the whole last superblock row (this breaks the refinement: rows are never filtered);
- the block width of a unit not clipped at the frame edge;
- `is_frame_right` tested with `>` instead of `>=`;
- a lambda that captures the loop variable by reference (this breaks TypeOK, since the job may run a band outside the frame, and FrameOutputCorrect).

## 4. Findings

`kCdefUvDirection[1][1]` (4:2:0) is the identity. spec.md says that for (1,1), direction 0 maps to 7 and 4 maps to 5. The run `cdef_uv_direction` shows the disagreement.

There is also a spec gap about aliasing. spec.md (sections 4.2 and 6) allows the CDEF destination to alias the source. It also says that every read uses pre-filter pixels. `ApplyCdefThreaded` copies each window's buffer back into the destination (`part_000:431`) before the next window runs. `PrepareCdefBlock` then reads that window's 2-pixel border from `source_buffer_`. Under aliasing, that border already holds filtered pixels. The run `cdef_threaded_alias` reaches this with a 100-row frame. The band at row 48 is the first band of the second window and is run by a pool job. It reads the last rows of the first window after that window's copy-back. The inline band of the second window, at row 80, never borders the first window.

There is one divergence from spec.md:

- **Pool growth outside the lock.** spec.md section 4.1 says that when no buffer is free, `acquire()` allocates a new buffer, marks it in use and appends it "all under lock". `GetFreeBuffer` unlocks `mutex_` after the scan (`buffer_pool.cc:175`), runs `new` outside the lock, and relocks only for `push_back`. A buffer another thread returns meanwhile stays in the pool, unused, beside the new one. The pool never shrinks, so it can hold more buffers than were ever in use at once (run `buffer_pool_growth`).

There are two more spec gaps:

- **Size-changed callback outside the lock.** spec.md section 4.1 serializes storage binding under the pool mutex, because the callbacks are not guaranteed thread-safe and the internal allocator shares state. `OnFrameBufferSizeChanged` (`buffer_pool.cc:155`) calls the third callback of the same triple without `mutex_`. It can therefore run at the same time as another thread's get or release callback (run `buffer_pool_callbacks`).
- **Window width.** spec.md section 4.2, and the assertion at `part_000:399`, constrain only the window height to a multiple of 64. `ApplyCdefForOneRowInWindow` clips a unit's width at the frame edge but not at the window edge. With a window width that is not a multiple of 64 pixels, a unit runs past its window and columns are filtered twice (run `cdef_window_columns_any_width`). The trace has 12 columns and a window 10 columns (40 pixels) wide: the unit at column 0 is 12 columns wide, so columns 10 and 11 are filtered again by the second window. With the 96-pixel width, units also span two strength blocks; that is not the trace TLC reports.

## 5. Not modelled

- The `RefCountedBuffer` per-frame setters are not modelled: `SetFrameDimensions`, `SetGlobalMotions`, `SetFrameContext`, `Get/SetSegmentationParameters` and `SetBufferPool`. They are straight-line copies that the one decoding thread runs on the buffer it holds, and nothing interleaves with them. What could go wrong in them is the `IsIntraFrame` guard at line 75 or the copy direction at line 105. A property could only restate either one, so they are left to unit tests.
- The pixel values copied by `CopyRowForCdef` and `CopyPixels` are not modelled, and neither is the dsp backends' arithmetic. `CdefBorder` models only which sample each copy takes.
- `weight_mask_test.cc` is a gtest harness for a kernel that is not in `src/`.
- Which callbacks the constructor selects matters only through whether a size-changed callback exists. The callbacks themselves are opaque.
- The callbacks are opaque and assumed not to re-enter the pool. The get and release callbacks run with `mutex_` held (`buffer_pool.cc:53-59`, `208-212`), so a callback that ends in a pool call on the same thread would relock a non-recursive mutex. That is undefined behaviour; with the glibc default mutex it is a self-deadlock. This is listed as a hazard without a property, for two reasons:
  - The internal callbacks and the application's callbacks are both outside `src/`.
  - spec.md (section 4.1) says nothing about what a callback may call.

  A model would have to invent the application's behaviour, and the deadlock would follow from that choice alone.

## 6. Status

These items are done:
- both abstract specifications with their refinements;
- the aliasing check;
- the destructor;
- the border synthesis;
- the size-changed callback;
- the window column layout;
- the pool growth divergence.

Callback re-entrance is the only hazard without a property; section 5 says why. The rest of `src/` is either modelled or listed as not modelled in section 5, with the reason.
