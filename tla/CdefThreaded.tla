---------------------------- MODULE CdefThreaded ----------------------------
(***************************************************************************)
(* PostFilter::ApplyCdefThreaded (src/unnamed/part_000): the frame is cut  *)
(* into windows of window_buffer_height_ x window_buffer_width_ pixels,    *)
(* visited in raster order.  In a window, each 64-pixel band of rows is    *)
(* one call of ApplyCdefForOneRowInWindow; the first jobs_for_threadpool   *)
(* bands are scheduled on the thread pool, the rest run on the calling     *)
(* thread, which then waits on a BlockingCounter and copies the window     *)
(* buffer threaded_window_buffer_ back into the frame.                     *)
(*                                                                         *)
(* A band writes the rows of the window buffer that GetCdefBufferAndStride *)
(* computes (row_window = start_y % window height), one "slot" of 64 rows. *)
(* The window buffer holds, per slot, the tag of the band whose filtered   *)
(* output it contains; the frame holds, per band of the frame, whether the *)
(* right output was copied into it.  Work runs in two steps (start,        *)
(* finish), so that what is in progress is visible to the other actors.   *)
(***************************************************************************)
EXTENDS Integers, FiniteSets

CONSTANTS
  Workers,          \* the threads of thread_pool_
  WindowHeight4x4,  \* window_buffer_height_ / 4, a multiple of 16
  WindowWidth4x4,   \* window_buffer_width_ / 4
  RowsChoices,      \* frame_header_.rows4x4 values to check
  ColumnsChoices,   \* frame_header_.columns4x4 values to check
  NULL

ASSUME WindowHeight4x4 % 16 = 0 /\ WindowHeight4x4 > 0 /\ WindowWidth4x4 > 0

kStep64x64 == 16
NumWorkers == Cardinality(Workers)

VARIABLES
  rows4x4, columns4x4,  \* the frame
  wRow, wCol,           \* row4x4, column4x4 of the current window
  cpc,                  \* the calling thread: "dispatch", "inline", "wait", "copy", "done"
  jobCount,             \* job_count: bands of this window handed out so far
  pending,              \* the BlockingCounter pending_jobs
  queue,                \* jobs scheduled and not yet started by a worker
  running,              \* the job each worker runs, or NULL
  wbuf,                 \* wbuf[slot]: the band whose output the slot holds
  frame                 \* frame[band]: "raw", "ok" or "wrong"

vars == <<rows4x4, columns4x4, wRow, wCol, cpc, jobCount, pending, queue,
          running, wbuf, frame>>

Min2(a, b) == IF a < b THEN a ELSE b

Slots == 0 .. (WindowHeight4x4 \div kStep64x64 - 1)

(* A band: the row4x4 of its 64-row unit and the column4x4 of its window. *)
Band(r, c) == [row |-> r, col |-> c]
FrameBands ==
  {Band(r, c) : r \in {16 * i : i \in 0 .. ((rows4x4 - 1) \div 16)},
                c \in {WindowWidth4x4 * j : j \in 0 .. ((columns4x4 - 1) \div WindowWidth4x4)}}

ActualWindowHeight4x4 == Min2(WindowHeight4x4, rows4x4 - wRow)
VerticalUnitsPerWindow == (ActualWindowHeight4x4 + 15) \div 16

(* jobs_for_threadpool of the window at row r, the count pending_jobs    *)
(* starts from.  BarrierCountOneLess and BarrierCountAllBands are faulty  *)
(* variants: a count one short, and one that counts every band.           *)
VerticalUnitsAt(r) == (Min2(WindowHeight4x4, rows4x4 - r) + 15) \div 16

BarrierCountOneLess(r) == (VerticalUnitsAt(r) * NumWorkers) \div (NumWorkers + 1) - 1

BarrierCountAllBands(r) == VerticalUnitsAt(r)

BarrierCount(r) == (VerticalUnitsAt(r) * NumWorkers) \div (NumWorkers + 1)

JobsForThreadPool == (VerticalUnitsPerWindow * NumWorkers) \div (NumWorkers + 1)

(* GetCdefBufferAndStride: the window-buffer row a band's output starts   *)
(* at (luma), as a 64-row slot.                                           *)
Slot(band) == ((4 * band.row) % (4 * WindowHeight4x4)) \div 64

CurrentBand == Band(wRow + 16 * jobCount, wCol)

-----------------------------------------------------------------------------
(* ApplyCdefForOneRowInWindow for one band: the filtered output of the    *)
(* band lands in its slot of the window buffer.                           *)
FilterBand(band) == wbuf' = [wbuf EXCEPT ![Slot(band)] = band]

(* The dispatch loop for one band: schedule it while job_count is below   *)
(* jobs_for_threadpool, otherwise run it on the calling thread.           *)
Dispatch ==
  /\ cpc = "dispatch"
  /\ 16 * jobCount < ActualWindowHeight4x4
  /\ IF jobCount < JobsForThreadPool
     THEN /\ queue' = queue \cup {CurrentBand}
          /\ jobCount' = jobCount + 1
          /\ UNCHANGED cpc
     ELSE /\ cpc' = "inline"
          /\ UNCHANGED <<queue, jobCount>>
  /\ UNCHANGED <<rows4x4, columns4x4, wRow, wCol, pending, running, wbuf, frame>>

InlineDone ==
  /\ cpc = "inline"
  /\ FilterBand(CurrentBand)
  /\ jobCount' = jobCount + 1
  /\ cpc' = "dispatch"
  /\ UNCHANGED <<rows4x4, columns4x4, wRow, wCol, pending, queue, running, frame>>

(* All bands handed out: pending_jobs.Wait().                             *)
EndDispatch ==
  /\ cpc = "dispatch"
  /\ 16 * jobCount >= ActualWindowHeight4x4
  /\ cpc' = "wait"
  /\ UNCHANGED <<rows4x4, columns4x4, wRow, wCol, jobCount, pending, queue,
                 running, wbuf, frame>>

WaitDone ==
  /\ cpc = "wait"
  /\ pending = 0
  /\ cpc' = "copy"
  /\ UNCHANGED <<rows4x4, columns4x4, wRow, wCol, jobCount, pending, queue,
                 running, wbuf, frame>>

(* A pool thread picks a scheduled job and runs it; at the end it         *)
(* decrements pending_jobs.  StartJobLoopVarByRef is a faulty variant     *)
(* whose lambda captures row64x64 by reference and so runs the band the   *)
(* dispatch loop is at when the job starts.                               *)
StartJobLoopVarByRef(w) ==
  /\ running[w] = NULL
  /\ \E job \in queue :
       /\ running' = [running EXCEPT ![w] = CurrentBand]
       /\ queue' = queue \ {job}
  /\ UNCHANGED <<rows4x4, columns4x4, wRow, wCol, cpc, jobCount, pending, wbuf, frame>>

StartJob(w) ==
  /\ running[w] = NULL
  /\ \E job \in queue :
       /\ running' = [running EXCEPT ![w] = job]
       /\ queue' = queue \ {job}
  /\ UNCHANGED <<rows4x4, columns4x4, wRow, wCol, cpc, jobCount, pending, wbuf, frame>>

FinishJob(w) ==
  /\ running[w] # NULL
  /\ FilterBand(running[w])
  /\ pending' = pending - 1
  /\ running' = [running EXCEPT ![w] = NULL]
  /\ UNCHANGED <<rows4x4, columns4x4, wRow, wCol, cpc, jobCount, queue, frame>>

(* Set up the window at (r, c): a BlockingCounter of jobs_for_threadpool. *)
EnterWindow(r, c) ==
  /\ wRow' = r /\ wCol' = c
  /\ jobCount' = 0
  /\ pending' = BarrierCount(r)
  /\ cpc' = "dispatch"

(* Copy the window buffer back into the frame (the rows and columns of    *)
(* the window inside the frame), then go on to the next window in raster  *)
(* order, or finish.                                                      *)
CopyBack ==
  /\ cpc = "copy"
  /\ frame' = [b \in DOMAIN frame |->
                 IF b.col = wCol /\ wRow <= b.row /\ b.row < wRow + ActualWindowHeight4x4
                 THEN IF wbuf[Slot(b)] = b THEN "ok" ELSE "wrong"
                 ELSE frame[b]]
  /\ IF wCol + WindowWidth4x4 < columns4x4
     THEN EnterWindow(wRow, wCol + WindowWidth4x4)
     ELSE IF wRow + WindowHeight4x4 < rows4x4
          THEN EnterWindow(wRow + WindowHeight4x4, 0)
          ELSE /\ cpc' = "done"
               /\ UNCHANGED <<wRow, wCol, jobCount, pending>>
  /\ UNCHANGED <<rows4x4, columns4x4, queue, running, wbuf>>

Init ==
  /\ rows4x4 \in RowsChoices
  /\ columns4x4 \in ColumnsChoices
  /\ queue = {}
  /\ running = [w \in Workers |-> NULL]
  /\ wbuf = [s \in Slots |-> NULL]
  /\ frame = [b \in FrameBands |-> "raw"]
  /\ wRow = 0 /\ wCol = 0
  /\ jobCount = 0
  /\ pending = BarrierCount(0)
  /\ cpc = "dispatch"

Next ==
  \/ Dispatch
  \/ InlineDone
  \/ EndDispatch
  \/ WaitDone
  \/ \E w \in Workers : StartJob(w) \/ FinishJob(w)
  \/ CopyBack

(* The pool threads run every scheduled job and the calling thread keeps *)
(* going while it can; none of them is starved by the scheduler.          *)
Fairness ==
  /\ WF_vars(Dispatch) /\ WF_vars(InlineDone) /\ WF_vars(EndDispatch)
  /\ WF_vars(WaitDone) /\ WF_vars(CopyBack)
  /\ \A w \in Workers : WF_vars(StartJob(w)) /\ WF_vars(FinishJob(w))

Spec == Init /\ [][Next]_vars /\ Fairness

-----------------------------------------------------------------------------
TypeOK ==
  /\ cpc \in {"dispatch", "inline", "wait", "copy", "done"}
  /\ pending \in Int
  /\ running \in [Workers -> FrameBands \cup {NULL}]
  /\ queue \subseteq FrameBands
  /\ wbuf \in [Slots -> FrameBands \cup {NULL}]
  /\ frame \in [FrameBands -> {"raw", "ok", "wrong"}]

WorkerSlot(w) == Slot(running[w])
Busy == {w \in Workers : running[w] # NULL}
CallerSlots ==
  CASE cpc = "inline" -> {Slot(CurrentBand)}
    [] cpc = "copy"   -> Slots
    [] OTHER          -> {}

(* No slot of threaded_window_buffer_ is written by two threads at once,  *)
(* nor written by a pool thread while the calling thread fills or copies  *)
(* it: the disjoint bands and the BlockingCounter make the buffer         *)
(* race-free without a lock.                                              *)
RaceFree ==
  /\ \A w1, w2 \in Busy : w1 # w2 => WorkerSlot(w1) # WorkerSlot(w2)
  /\ \A w \in Busy : WorkerSlot(w) \notin CallerSlots

(* What lands in the frame is what the sequential filter produces: every  *)
(* band copied back holds the band's own output, and when the last window *)
(* is done every band of the frame has been copied.                       *)
FrameOutputCorrect ==
  /\ \A b \in DOMAIN frame : frame[b] # "wrong"
  /\ cpc = "done" => \A b \in DOMAIN frame : frame[b] = "ok"

(* The bands whose filter is running: on a pool thread or inline.        *)
ActiveBands ==
  {running[w] : w \in Busy} \cup (IF cpc = "inline" THEN {CurrentBand} ELSE {})

(* PrepareCdefBlock and CopyRowForCdef read two border rows above and     *)
(* below and two border columns left and right of each unit, unless at   *)
(* the frame edge: at band granularity, the eight surrounding bands.      *)
Neighbours(band) ==
  {n \in DOMAIN frame :
     /\ n # band
     /\ n.row \in {band.row - 16, band.row, band.row + 16}
     /\ n.col \in {band.col - WindowWidth4x4, band.col, band.col + WindowWidth4x4}}

(* spec.md 4.2 and 6: the destination may alias the source, and all      *)
(* source reads of a band come from the pre-filter frame.  With the       *)
(* destination aliasing the source, that means no band reads border       *)
(* pixels of a neighbouring band whose window was already copied back.    *)
ReadsPrefilterSourceWhenAliased ==
  \A band \in ActiveBands : \A n \in Neighbours(band) : frame[n] # "ok"

(* The calling thread is never left waiting: the frame is finished.       *)
Terminates == <>(cpc = "done")
=============================================================================
