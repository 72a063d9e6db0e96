----------------------------- MODULE DeferredIo -----------------------------
(***************************************************************************)
(* How a change in the video memory of a panel reaches the display:        *)
(* src/core/fbdbi.c with the kernel's deferred-I/O worker behind it.       *)
(*                                                                         *)
(*   - a thread in fillrect, copyarea, imageblit or write changes rows of  *)
(*     the video memory, widens the dirty range under dirty_lock and then  *)
(*     schedules the delayed work (fbdbi_mkdirty);                         *)
(*   - a process that maps the memory faults on its first store to a page, *)
(*     which puts the page on the deferred-I/O list and schedules the      *)
(*     work; until the page is write-protected again it stores freely;     *)
(*   - fsync cancels the work and schedules it again with no delay;        *)
(*   - the work write-protects the listed pages and calls                  *)
(*     fbdbi_deferred_io, which takes the range, adds the rows of the      *)
(*     listed pages and has the controller send those rows.                *)
(*                                                                         *)
(* The content of a row is abstracted to one bit: the row is stale when    *)
(* the memory holds something the display has not been sent.  The dirty    *)
(* range is exact, down to its cleared value and its first value, which is *)
(* what kzalloc leaves.                                                    *)
(*                                                                         *)
(* The page-fault path, the delayed work and fsync are drivers/video/fbdev *)
(* /core/fb_defio.c and the workqueue of Linux, modelled from how          *)
(* devm_fbdbi_init and fbdbi_mkdirty use them.                             *)
(***************************************************************************)
EXTENDS Integers, FiniteSets

CONSTANTS Writers,      \* threads that may be in an fb_ops drawing call
          Mappers,      \* threads that store through a mapping of the memory
          YRes,         \* info->var.yres, the rows of the panel
          LineLength,   \* info->fix.line_length, the bytes of a row
          PageSize,     \* the bytes of a page
          MayFail,      \* whether a register access of an update may fail
          Overrun,      \* outcomes of an update with ys > ye, see Inverted
          MaxFsync      \* bound: how often fsync is called

ASSUME GeometryAssumption == /\ YRes \in Nat \ {0}
                             /\ LineLength \in Nat \ {0}
                             /\ PageSize \in Nat \ {0}
ASSUME BehaviourAssumption == /\ MayFail \in BOOLEAN
                              /\ Overrun \subseteq {"error", "oops"}
                              /\ Overrun # {}
                              /\ MaxFsync \in Nat

Lines == 0 .. YRes - 1
Bytes == 0 .. YRes * LineLength - 1
Pages == 0 .. (YRes * LineLength - 1) \div PageSize

\* The areas a drawing call may be given: fbcon and fbmem clip them to the
\* panel and never pass an empty one.
Rects == {r \in [y : Lines, height : 1 .. YRes] : r.y + r.height <= YRes}
FullScreen == [y |-> 0, height |-> YRes]
LastLine(r) == r.y + r.height - 1
Rows(r) == r.y .. LastLine(r)

\* The rows that share a byte with page p.
RowsOnPage(p) ==
  {l \in Lines : \E b \in Bytes : b \div PageSize = p /\ b \div LineLength = l}

VARIABLES
  stale,       \* rows whose memory is newer than what the display was sent
  dropped,     \* rows an update that failed was to send, not sent or drawn since
  dirtyStart,  \* fbdbi->dirty_lines_start
  dirtyEnd,    \* fbdbi->dirty_lines_end
  wpc,         \* where each writer is: "idle", "draw", "mark" or "schedule"
  wrect,       \* the area each writer draws in
  queued,      \* info->deferred_work is pending (its timer runs or it waits)
  worker,      \* where the work is: "idle", "clean", "update" or "oops"
  ys, ye,      \* the arguments of display->update
  cursor,      \* the next row the update sends
  pagelist,    \* fbdefio->pagelist
  writable,    \* pages that can be stored to without a fault
  mpc,         \* where each mapper is: "run", "fault", "schedule" or "pte"
  mpage,       \* the page each mapper faulted on
  fsync,       \* where fsync is: "idle", "cancel" or "schedule"
  fsyncs       \* how many fsync calls have started

rangeVars  == <<dirtyStart, dirtyEnd>>
writerVars == <<wpc, wrect>>
workerVars == <<worker, ys, ye, cursor>>
mapVars    == <<pagelist, writable, mpc, mpage>>
fsyncVars  == <<fsync, fsyncs>>
rowVars    == <<stale, dropped>>
vars == <<rowVars, rangeVars, writerVars, queued, workerVars, mapVars, fsyncVars>>

TypeOK ==
  /\ stale \subseteq Lines
  /\ dropped \subseteq Lines
  /\ dirtyStart \in Lines /\ dirtyEnd \in Lines
  /\ wpc \in [Writers -> {"idle", "draw", "mark", "schedule"}]
  /\ wrect \in [Writers -> Rects]
  /\ queued \in BOOLEAN
  /\ worker \in {"idle", "clean", "update", "oops"}
  /\ ys \in Lines /\ ye \in Lines
  /\ cursor \in 0 .. YRes
  /\ pagelist \subseteq Pages
  /\ writable \subseteq Pages
  /\ mpc \in [Mappers -> {"run", "fault", "schedule", "pte"}]
  /\ mpage \in [Mappers -> Pages]
  /\ fsync \in {"idle", "cancel", "schedule"}
  /\ fsyncs \in 0 .. MaxFsync

Init ==
  /\ stale = {} /\ dropped = {}
  /\ dirtyStart = 0 /\ dirtyEnd = 0
  /\ wpc = [w \in Writers |-> "idle"]
  /\ wrect = [w \in Writers |-> FullScreen]
  /\ queued = FALSE
  /\ worker = "idle" /\ ys = 0 /\ ye = 0 /\ cursor = 0
  /\ pagelist = {} /\ writable = {}
  /\ mpc = [m \in Mappers |-> "run"]
  /\ mpage = [m \in Mappers |-> 0]
  /\ fsync = "idle" /\ fsyncs = 0

-----------------------------------------------------------------------------
\* schedule_delayed_work: nothing happens when the work is pending already, and
\* nothing happens while cancel_delayed_work_sync holds its pending bit.
ScheduleWork == queued' = (queued \/ fsync # "cancel")

\* The memory of row l changes.
Touch(l) ==
  /\ stale' = stale \cup {l}
  /\ dropped' = dropped \ {l}

(* A drawing call: sys_fillrect, sys_copyarea, sys_imageblit on an area, or   *)
(* fb_sys_write anywhere in the memory.  All of them then mark and schedule.  *)
BeginDraw(w, r) ==
  /\ wpc[w] = "idle"
  /\ wpc' = [wpc EXCEPT ![w] = "draw"]
  /\ wrect' = [wrect EXCEPT ![w] = r]
  /\ UNCHANGED <<rowVars, rangeVars, queued, workerVars, mapVars, fsyncVars>>

Draw(w) ==
  /\ wpc[w] = "draw"
  /\ \E l \in Rows(wrect[w]) : Touch(l)
  /\ UNCHANGED <<rangeVars, writerVars, queued, workerVars, mapVars, fsyncVars>>

EndDraw(w) ==
  /\ wpc[w] = "draw"
  /\ wpc' = [wpc EXCEPT ![w] = "mark"]
  /\ UNCHANGED <<rowVars, rangeVars, wrect, queued, workerVars, mapVars, fsyncVars>>

\* Mutation: the last row of the area is left out of the range.
WidenShort(r) ==
  /\ dirtyStart' = IF r.y < dirtyStart THEN r.y ELSE dirtyStart
  /\ dirtyEnd' = IF LastLine(r) - 1 > dirtyEnd THEN LastLine(r) - 1 ELSE dirtyEnd

\* The section of fbdbi_mkdirty under dirty_lock.
Widen(r) ==
  /\ dirtyStart' = IF r.y < dirtyStart THEN r.y ELSE dirtyStart
  /\ dirtyEnd' = IF LastLine(r) > dirtyEnd THEN LastLine(r) ELSE dirtyEnd

Mark(w) ==
  /\ wpc[w] = "mark"
  /\ Widen(wrect[w])
  /\ wpc' = [wpc EXCEPT ![w] = "schedule"]
  /\ UNCHANGED <<rowVars, wrect, queued, workerVars, mapVars, fsyncVars>>

Schedule(w) ==
  /\ wpc[w] = "schedule"
  /\ ScheduleWork
  /\ wpc' = [wpc EXCEPT ![w] = "idle"]
  /\ wrect' = [wrect EXCEPT ![w] = FullScreen]
  /\ UNCHANGED <<rowVars, rangeVars, workerVars, mapVars, fsyncVars>>

-----------------------------------------------------------------------------
(* A store through the mapping.  A store to a page that is not writable is a  *)
(* fault; fb_deferred_io_mkwrite lists the page under fbdefio->lock, keeps it *)
(* locked, schedules the work, and the fault ends by making it writable.      *)
PageLocked(p) == \E m \in Mappers : mpc[m] \in {"schedule", "pte"} /\ mpage[m] = p

Store(m, b) ==
  /\ mpc[m] = "run"
  /\ b \div PageSize \in writable
  /\ Touch(b \div LineLength)
  /\ UNCHANGED <<rangeVars, writerVars, queued, workerVars, mapVars, fsyncVars>>

Fault(m, p) ==
  /\ mpc[m] = "run" /\ p \notin writable
  /\ mpc' = [mpc EXCEPT ![m] = "fault"]
  /\ mpage' = [mpage EXCEPT ![m] = p]
  /\ UNCHANGED <<rowVars, rangeVars, writerVars, queued, workerVars, pagelist,
                 writable, fsyncVars>>

\* fbdefio->lock is held by the work from its first step to its last.
ListPage(m) ==
  /\ mpc[m] = "fault"
  /\ worker = "idle"
  /\ ~PageLocked(mpage[m])
  /\ pagelist' = pagelist \cup {mpage[m]}
  /\ mpc' = [mpc EXCEPT ![m] = "schedule"]
  /\ UNCHANGED <<rowVars, rangeVars, writerVars, queued, workerVars, writable,
                 mpage, fsyncVars>>

ScheduleFault(m) ==
  /\ mpc[m] = "schedule"
  /\ ScheduleWork
  /\ mpc' = [mpc EXCEPT ![m] = "pte"]
  /\ UNCHANGED <<rowVars, rangeVars, writerVars, workerVars, pagelist, writable,
                 mpage, fsyncVars>>

EndFault(m) ==
  /\ mpc[m] = "pte"
  /\ writable' = writable \cup {mpage[m]}
  /\ mpc' = [mpc EXCEPT ![m] = "run"]
  /\ mpage' = [mpage EXCEPT ![m] = 0]
  /\ UNCHANGED <<rowVars, rangeVars, writerVars, queued, workerVars, pagelist,
                 fsyncVars>>

-----------------------------------------------------------------------------
\* fb_deferred_io_fsync: cancel_delayed_work_sync takes the pending bit, waits
\* for a running work, and the work is scheduled again.
FsyncCancel ==
  /\ fsync = "idle" /\ fsyncs < MaxFsync
  /\ fsync' = "cancel" /\ fsyncs' = fsyncs + 1
  /\ queued' = FALSE
  /\ UNCHANGED <<rowVars, rangeVars, writerVars, workerVars, mapVars>>

FsyncWaited ==
  /\ fsync = "cancel" /\ worker = "idle"
  /\ fsync' = "schedule"
  /\ UNCHANGED <<rowVars, rangeVars, writerVars, queued, workerVars, mapVars, fsyncs>>

FsyncSchedule ==
  /\ fsync = "schedule"
  /\ fsync' = "idle"
  /\ queued' = TRUE
  /\ UNCHANGED <<rowVars, rangeVars, writerVars, workerVars, mapVars, fsyncs>>

-----------------------------------------------------------------------------
\* fb_deferred_io_work, up to the callback: take the lock, then lock and
\* write-protect every listed page.
StartWork ==
  /\ queued /\ worker = "idle"
  /\ queued' = FALSE
  /\ worker' = "clean"
  /\ UNCHANGED <<rowVars, rangeVars, writerVars, ys, ye, cursor, mapVars, fsyncVars>>

CleanPage(p) ==
  /\ worker = "clean"
  /\ p \in pagelist \cap writable /\ ~PageLocked(p)
  /\ writable' = writable \ {p}
  /\ UNCHANGED <<rowVars, rangeVars, writerVars, queued, workerVars, pagelist, mpc,
                 mpage, fsyncVars>>

PageLow(p) == (p * PageSize) \div LineLength

\* Mutation: only the row a page starts in is sent.
PageHighFirst(p) == PageLow(p)

PageHigh(p) ==
  LET high == (p * PageSize + PageSize - 1) \div LineLength
  IN  IF high > YRes - 1 THEN YRes - 1 ELSE high

\* The candidates the loop over the page list takes the least and greatest of.
Starts == {dirtyStart} \cup {PageLow(p) : p \in pagelist}
Ends == {dirtyEnd} \cup {PageHigh(p) : p \in pagelist}

\* Mutation: the cleared range starts one row beyond the panel.
ClearRangeBeyond == dirtyStart' = YRes /\ dirtyEnd' = 0

\* "set display line markers as clean"
ClearRange == dirtyStart' = YRes - 1 /\ dirtyEnd' = 0

\* fbdbi_deferred_io: take and clear the range, widen it by the listed pages,
\* call display->update(ys, ye).
TakeRange ==
  /\ worker = "clean"
  /\ \A p \in pagelist : p \notin writable /\ ~PageLocked(p)
  /\ ys' \in {s \in Starts : \A x \in Starts : s <= x}
  /\ ye' \in {e \in Ends : \A x \in Ends : e >= x}
  /\ cursor' = ys'
  /\ ClearRange
  /\ worker' = "update"
  /\ UNCHANGED <<rowVars, writerVars, queued, mapVars, fsyncVars>>

\* The callback returned: the list is emptied and the lock released.
EndWork ==
  /\ worker' = "idle" /\ ys' = 0 /\ ye' = 0 /\ cursor' = 0
  /\ pagelist' = {}
  /\ UNCHANGED <<rangeVars, writerVars, queued, writable, mpc, mpage, fsyncVars>>

\* The update reads rows from the memory in order and sends them.
SendLine ==
  /\ worker = "update" /\ ys <= ye /\ cursor <= ye
  /\ stale' = stale \ {cursor}
  /\ dropped' = dropped \ {cursor}
  /\ cursor' = cursor + 1
  /\ UNCHANGED <<rangeVars, writerVars, queued, worker, ys, ye, mapVars, fsyncVars>>

\* Mutation: the range is cleared once more, after the rows were sent.
EndUpdateClears ==
  /\ worker = "update" /\ ys <= ye /\ cursor > ye
  /\ worker' = "idle" /\ ys' = 0 /\ ye' = 0 /\ cursor' = 0
  /\ pagelist' = {}
  /\ ClearRange
  /\ UNCHANGED <<rowVars, writerVars, queued, writable, mpc, mpage, fsyncVars>>

EndUpdate ==
  /\ worker = "update" /\ ys <= ye /\ cursor > ye
  /\ EndWork
  /\ UNCHANGED rowVars

\* update returned an error, which fbdbi_deferred_io drops ("notify error?").
\* What the display shows in those rows is unknown.
UpdateFails ==
  /\ MayFail
  /\ worker = "update" /\ ys <= ye
  /\ stale' = stale \cup (ys .. ye)
  /\ dropped' = dropped \cup (ys .. ye)
  /\ EndWork

\* update was called with ys > ye.  fbdbi_display_update then computes its count
\* from an unsigned height that wrapped: an SPI interface fails to allocate its
\* transfers ("error"), an i80 interface reads past the memory ("oops").
Inverted ==
  /\ worker = "update" /\ ys > ye
  /\ \/ "error" \in Overrun /\ EndWork
     \/ /\ "oops" \in Overrun /\ worker' = "oops"
        /\ UNCHANGED <<rangeVars, writerVars, queued, ys, ye, cursor, mapVars, fsyncVars>>
  /\ UNCHANGED rowVars

-----------------------------------------------------------------------------
WriterStep(w) == EndDraw(w) \/ Mark(w) \/ Schedule(w)
MapperStep(m) == ListPage(m) \/ ScheduleFault(m) \/ EndFault(m)
FsyncStep == FsyncWaited \/ FsyncSchedule
WorkerStep ==
  \/ StartWork \/ TakeRange \/ SendLine \/ EndUpdate \/ UpdateFails \/ Inverted
  \/ \E p \in Pages : CleanPage(p)

Next ==
  \/ \E w \in Writers :
       \/ \E r \in Rects : BeginDraw(w, r)
       \/ Draw(w)
       \/ WriterStep(w)
  \/ \E m \in Mappers :
       \/ \E p \in Pages : Fault(m, p)
       \/ \E b \in Bytes : Store(m, b)
       \/ MapperStep(m)
  \/ FsyncCancel
  \/ FsyncStep
  \/ WorkerStep

Spec == Init /\ [][Next]_vars

(* The kernel runs what is under way: a thread leaves its drawing call, a     *)
(* fault is completed, fsync returns, and the workqueue runs pending work.    *)
(* Nothing makes a process draw, store or call fsync.                         *)
Fairness ==
  /\ \A w \in Writers : WF_vars(WriterStep(w))
  /\ \A m \in Mappers : WF_vars(MapperStep(m))
  /\ WF_vars(FsyncStep)
  /\ WF_vars(WorkerStep)

FairSpec == Spec /\ Fairness

-----------------------------------------------------------------------------
\* Some run of the work is still to take the range.
Scheduled ==
  \/ queued \/ worker = "clean" \/ fsync # "idle"
  \/ \E w \in Writers : wpc[w] = "schedule"
  \/ \E m \in Mappers : mpc[m] = "schedule"

\* Row l is in the area of a drawing call that has yet to mark it.
BeingDrawn(l) ==
  \E w \in Writers : wpc[w] \in {"draw", "mark"} /\ l \in Rows(wrect[w])
Recorded(l) == Scheduled /\ dirtyStart <= l /\ l <= dirtyEnd
\* Row l is on a listed page whose rows have yet to be added to the range.
Listed(l) ==
  /\ Scheduled /\ worker \in {"idle", "clean"}
  /\ \E p \in pagelist : l \in RowsOnPage(p)
InFlight(l) == worker = "update" /\ cursor <= l /\ l <= ye
Promised(l) == BeingDrawn(l) \/ Recorded(l) \/ Listed(l) \/ InFlight(l)

\* No change is lost: at every moment a row whose memory is newer than the
\* display is covered by a drawing call that has yet to mark it, by a dirty range
\* or a listed page that a scheduled work is to take, or by the update that is
\* under way - whatever the order of fbdbi_mkdirty's two steps, a page fault,
\* fsync and fbdbi_deferred_io, which clears the range before it reads the memory.
\* The rows of an update that failed are the exception: its error is dropped.
NoLostUpdate == \A l \in stale : l \in dropped \/ Promised(l)

\* A page is stored to without a fault only while it is listed, and not while its
\* rows are being sent: the next store to it is seen by fbdbi_deferred_io again.
PagesTracked ==
  /\ writable \subseteq pagelist
  /\ worker \in {"update", "oops"} => writable = {}

\* Every change is eventually sent, or given up by a failed update.
EventuallySent == \A l \in Lines : l \in stale ~> (l \notin stale \/ l \in dropped)

\* The arguments of display->update are inclusive rows with ys <= ye, as
\* src/core/fbdbi.h says of the operation.
UpdateRangeInclusive == worker = "update" => ys <= ye

Shadow == INSTANCE ShadowDisplay WITH promised <- {l \in Lines : Promised(l)}

\* The range, the page list and the work implement what ShadowDisplay promises.
ImplementsShadow == Shadow!FairSpec
=============================================================================
