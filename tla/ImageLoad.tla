----------------------------- MODULE ImageLoad -----------------------------
(***************************************************************************)
(* The FPGA image load framework: one character device, a user that        *)
(* starts, cancels and waits for uploads, and a kernel worker that calls   *)
(* the prepare, write, poll_complete and cleanup operations of a           *)
(* lower-level driver.                                                     *)
(*                                                                         *)
(* Every ioctl runs under fwlp->lock and is one step; the worker takes the *)
(* lock only for the steps that set progress or an error.  The operations  *)
(* of the lower-level driver return any result here; SecUpdate composes    *)
(* the worker with the MAX10 BMC driver.                                   *)
(***************************************************************************)
EXTENDS Naturals, FiniteSets

CONSTANTS
  MaxUploads,  \* bound: uploads accepted in a behaviour
  Sizes,       \* image sizes, in write blocks
  WordMod,     \* remaining_size wraps at this value (2^32 in the code)
  Errors,      \* fw_upload_err values other than NONE
  Client       \* when the user starts an upload: "any" time, when it has
               \* "waits" for the eventfd of the last one, or "quiesced",
               \* when the worker has also returned

ASSUME ImageLoadAssumption ==
  /\ MaxUploads \in Nat \ {0}
  /\ WordMod \in Nat \ {0}
  /\ Sizes \subseteq 1 .. (WordMod - 1)
  /\ {"NONE", "RW_ERROR"} \cap Errors = {"RW_ERROR"}
  /\ Client \in {"any", "waits", "quiesced"}

NULL == 0
Uploads == 1..MaxUploads
Err == Errors \cup {"NONE"}
Progress == {"IDLE", "RECEIVING", "PREPARING", "TRANSFERRING", "PROGRAMMING"}
Flushers == {"release", "unregister"}
\* flush_work waits for the instance that was queued or running when it was
\* called, not for one queued later.
FlushState == {"no", "queued", "running", "done"}
OpPcs == {"prepare", "write", "poll", "cleanup"}
WorkerPcs == OpPcs \cup {"none", "transfer", "loop", "program", "put", "complete", "evput",
                             "oops", "stuck"}

VARIABLES
  opened,          \* imgld->opened
  registered,      \* fpga_image_load_unregister has not finished
  uploads,         \* uploads accepted so far: upload u brings buffer and eventfd u
  progress, err_progress, err_code, remaining_size,
  data,            \* fwlp->data
  finished,        \* fwlp->finished
  pending,         \* the work item is queued
  pc,              \* where the worker is
  wsize,           \* the size the write operation was called with
  offset,          \* fw_upload_main's offset: what was written so far
  size,            \* size of the image accepted last
  parent_refs,     \* references get_device took on the parent
  cancel_request,  \* ops->cancel was called; the lower-level driver resets it
  flush,           \* how far flush_work is, for release and for unregister
  signalled        \* uploads whose eventfd was signalled

fwlpVars == <<progress, err_progress, err_code, remaining_size, data, finished>>
workVars == <<pending, pc, wsize, offset>>
userVars == <<opened, registered, flush>>
ghostVars == <<uploads, size, signalled>>
vars == <<fwlpVars, workVars, userVars, ghostVars, parent_refs, cancel_request>>

Idle == progress = "IDLE"

\* An upload the worker has still to finish with.
Busy == pending \/ pc \notin {"none", "evput", "oops", "stuck"}

WorkDone == ~pending /\ pc = "none"

TypeOK ==
  /\ opened \in BOOLEAN /\ registered \in BOOLEAN
  /\ uploads \in 0..MaxUploads
  /\ progress \in Progress /\ err_progress \in Progress
  /\ err_code \in Err
  /\ remaining_size \in 0 .. (WordMod - 1)
  /\ data \in 0..MaxUploads /\ finished \in 0..MaxUploads
  /\ pending \in BOOLEAN /\ pc \in WorkerPcs
  /\ wsize \in 0 .. (WordMod - 1) /\ offset \in 0 .. (WordMod - 1)
  /\ size \in 0 .. (WordMod - 1)
  /\ parent_refs \in 0..MaxUploads
  /\ cancel_request \in BOOLEAN
  /\ flush \in [Flushers -> FlushState]
  /\ signalled \subseteq Uploads

Init ==
  /\ opened = FALSE /\ registered = TRUE
  /\ uploads = 0
  /\ progress = "IDLE" /\ err_progress = "IDLE"
  /\ err_code = "NONE"
  /\ remaining_size = 0
  /\ data = NULL /\ finished = NULL
  /\ pending = FALSE /\ pc = "none" /\ wsize = 0 /\ offset = 0
  /\ size = 0
  /\ parent_refs = 0
  /\ cancel_request = FALSE
  /\ flush = [w \in Flushers |-> "no"]
  /\ signalled = {}

-----------------------------------------------------------------------------
(* User space.                                                             *)

fpga_image_load_open ==
  /\ registered
  /\ ~opened
  /\ opened' = TRUE
  /\ UNCHANGED <<fwlpVars, workVars, ghostVars, registered, flush, parent_refs, cancel_request>>

\* A worker that died in fw_upload_prog_complete still holds the lock.
LockFree == pc # "stuck"

FileInUse == LockFree /\ opened /\ flush["release"] = "no"

ClientMayWrite ==
  /\ FileInUse
  /\ Client # "any" => signalled = 1..uploads
  /\ Client = "quiesced" => WorkDone /\ registered /\ flush["unregister"] = "no"

\* The ioctl does not look at the progress of an earlier upload.
ioctl_write(sz) ==
  /\ ClientMayWrite
  /\ uploads < MaxUploads
  /\ uploads' = uploads + 1
  /\ size' = sz
  /\ finished' = uploads + 1
  /\ parent_refs' = parent_refs + 1
  /\ progress' = "RECEIVING"
  /\ err_code' = "NONE"
  /\ remaining_size' = sz
  /\ data' = uploads + 1
  /\ pending' = TRUE
  /\ UNCHANGED <<err_progress, pc, wsize, offset, userVars, signalled, cancel_request>>

\* Fault: the parent is referenced before the descriptor is checked.
ioctl_write_badfd_KeepsRef ==
  /\ ClientMayWrite
  /\ parent_refs < MaxUploads
  /\ parent_refs' = parent_refs + 1
  /\ finished' = NULL
  /\ UNCHANGED <<progress, err_progress, err_code, remaining_size, data, workVars, userVars,
                 ghostVars, cancel_request>>

\* A descriptor that is no eventfd: finished has been overwritten by then.
ioctl_write_badfd ==
  /\ ClientMayWrite
  /\ finished' = NULL
  /\ UNCHANGED <<progress, err_progress, err_code, remaining_size, data, workVars, userVars,
                 ghostVars, parent_refs, cancel_request>>

ioctl_cancel ==
  /\ FileInUse
  /\ ~Idle
  /\ cancel_request' = TRUE
  /\ UNCHANGED <<fwlpVars, workVars, userVars, ghostVars, parent_refs>>

\* flush_work is called: which instance of the work it waits for.
FlushCalled == IF pending THEN "queued" ELSE IF pc # "none" THEN "running" ELSE "done"

\* The last close: an upload under way is cancelled and waited for.
fpga_image_load_release ==
  /\ FileInUse
  /\ \/ /\ Idle
        /\ opened' = FALSE
        /\ UNCHANGED <<cancel_request, flush>>
     \/ /\ ~Idle
        /\ cancel_request' = TRUE
        /\ flush' = [flush EXCEPT !["release"] = FlushCalled]
        /\ UNCHANGED opened
  /\ UNCHANGED <<fwlpVars, workVars, registered, ghostVars, parent_refs>>

release_flushed ==
  /\ flush["release"] = "done"
  /\ flush' = [flush EXCEPT !["release"] = "no"]
  /\ opened' = FALSE
  /\ UNCHANGED <<fwlpVars, workVars, registered, ghostVars, parent_refs, cancel_request>>

\* Fault: unregister cancels the upload and does not wait for it.
fpga_image_load_unregister_NoFlush ==
  /\ LockFree
  /\ registered /\ flush["unregister"] = "no"
  /\ registered' = FALSE
  /\ cancel_request' = (cancel_request \/ ~Idle)
  /\ UNCHANGED <<fwlpVars, workVars, opened, flush, ghostVars, parent_refs>>

\* The parent driver is removed.
fpga_image_load_unregister ==
  /\ LockFree
  /\ registered /\ flush["unregister"] = "no"
  /\ \/ /\ Idle
        /\ registered' = FALSE
        /\ UNCHANGED <<cancel_request, flush>>
     \/ /\ ~Idle
        /\ cancel_request' = TRUE
        /\ flush' = [flush EXCEPT !["unregister"] = FlushCalled]
        /\ UNCHANGED registered
  /\ UNCHANGED <<fwlpVars, workVars, opened, ghostVars, parent_refs>>

unregister_flushed ==
  /\ flush["unregister"] = "done"
  /\ flush' = [flush EXCEPT !["unregister"] = "no"]
  /\ registered' = FALSE
  /\ UNCHANGED <<fwlpVars, workVars, opened, ghostVars, parent_refs, cancel_request>>

-----------------------------------------------------------------------------
(* fw_upload_main, the worker.                                             *)

\* fw_upload_set_error
set_error(err) ==
  /\ err_progress' = progress
  /\ err_code' = err

\* The work item starts: PREPARING, and prepare is called.
fw_upload_main ==
  /\ pending /\ pc = "none"
  /\ pending' = FALSE
  /\ progress' = "PREPARING"
  /\ offset' = 0
  /\ pc' = "prepare"
  /\ flush' = [w \in Flushers |-> IF flush[w] = "queued" THEN "running" ELSE flush[w]]
  /\ UNCHANGED <<err_progress, err_code, remaining_size, data, finished, wsize, opened, registered,
                 ghostVars, parent_refs, cancel_request>>

prepare_returns(err) ==
  /\ pc = "prepare"
  /\ \/ err = "NONE" /\ pc' = "transfer" /\ UNCHANGED <<err_progress, err_code>>
     \/ err # "NONE" /\ pc' = "put" /\ set_error(err)
  /\ UNCHANGED <<progress, remaining_size, data, finished, pending, wsize, offset, userVars,
                 ghostVars, parent_refs, cancel_request>>

transfer ==
  /\ pc = "transfer"
  /\ progress' = "TRANSFERRING"
  /\ pc' = "loop"
  /\ UNCHANGED <<err_progress, err_code, remaining_size, data, finished, pending, wsize, offset,
                 userVars, ghostVars, parent_refs, cancel_request>>

\* The head of the write loop.
transfer_loop ==
  /\ pc = "loop"
  /\ pc' = IF remaining_size > 0 THEN "write" ELSE "program"
  /\ wsize' = remaining_size
  /\ UNCHANGED <<fwlpVars, pending, offset, userVars, ghostVars, parent_refs, cancel_request>>

\* Fault: the offset stays at the start of the buffer.
write_returns_NoOffset(err, written) ==
  /\ pc = "write"
  /\ \/ /\ err = "NONE" /\ written > 0
        /\ remaining_size' = (remaining_size + WordMod - written) % WordMod
        /\ pc' = "loop"
        /\ UNCHANGED <<err_progress, err_code>>
     \/ /\ err # "NONE" \/ written = 0
        /\ set_error(IF err = "NONE" THEN "RW_ERROR" ELSE err)
        /\ pc' = "cleanup"
        /\ UNCHANGED remaining_size
  /\ UNCHANGED <<progress, data, finished, pending, wsize, offset, userVars,
                 ghostVars, parent_refs, cancel_request>>

\* Fault: a write of zero blocks is taken for progress.
write_returns_ZeroOk(err, written) ==
  /\ pc = "write"
  /\ \/ /\ err = "NONE"
        /\ remaining_size' = (remaining_size + WordMod - written) % WordMod
        /\ offset' = (offset + written) % WordMod
        /\ pc' = "loop"
        /\ UNCHANGED <<err_progress, err_code>>
     \/ /\ err # "NONE"
        /\ set_error(err)
        /\ pc' = "cleanup"
        /\ UNCHANGED <<remaining_size, offset>>
  /\ UNCHANGED <<progress, data, finished, pending, wsize, userVars,
                 ghostVars, parent_refs, cancel_request>>

\* write returns an error, or the number of blocks it wrote; zero is an error too.
write_returns(err, written) ==
  /\ pc = "write"
  /\ \/ /\ err = "NONE" /\ written > 0
        /\ remaining_size' = (remaining_size + WordMod - written) % WordMod
        /\ offset' = (offset + written) % WordMod
        /\ pc' = "loop"
        /\ UNCHANGED <<err_progress, err_code>>
     \/ /\ err # "NONE" \/ written = 0
        /\ set_error(IF err = "NONE" THEN "RW_ERROR" ELSE err)
        /\ pc' = "cleanup"
        /\ UNCHANGED <<remaining_size, offset>>
  /\ UNCHANGED <<progress, data, finished, pending, wsize, userVars,
                 ghostVars, parent_refs, cancel_request>>

program ==
  /\ pc = "program"
  /\ progress' = "PROGRAMMING"
  /\ pc' = "poll"
  /\ UNCHANGED <<err_progress, err_code, remaining_size, data, finished, pending, wsize, offset,
                 userVars, ghostVars, parent_refs, cancel_request>>

poll_complete_returns(err) ==
  /\ pc = "poll"
  /\ \/ err = "NONE" /\ UNCHANGED <<err_progress, err_code>>
     \/ err # "NONE" /\ set_error(err)
  /\ pc' = "cleanup"
  /\ UNCHANGED <<progress, remaining_size, data, finished, pending, wsize, offset, userVars,
                 ghostVars, parent_refs, cancel_request>>

cleanup_returns ==
  /\ pc = "cleanup"
  /\ pc' = "put"
  /\ UNCHANGED <<fwlpVars, pending, wsize, offset, userVars, ghostVars, parent_refs, cancel_request>>

\* Fault: IDLE is published before the completion is signalled.
putdev_exit_IdleEarly ==
  /\ pc = "put"
  /\ parent_refs' = parent_refs - 1
  /\ data' = NULL
  /\ progress' = "IDLE"
  /\ pc' = "complete"
  /\ UNCHANGED <<err_progress, err_code, remaining_size, finished, pending, wsize, offset,
                 userVars, ghostVars, cancel_request>>

putdev_exit ==
  /\ pc = "put"
  /\ parent_refs' = parent_refs - 1
  /\ data' = NULL
  /\ pc' = "complete"
  /\ UNCHANGED <<progress, err_progress, err_code, remaining_size, finished, pending, wsize, offset,
                 userVars, ghostVars, cancel_request>>

\* progress and the signal change together under the lock; eventfd_signal and
\* eventfd_ctx_put fault on a NULL context.
fw_upload_prog_complete ==
  /\ pc = "complete"
  /\ progress' = "IDLE"
  /\ \/ finished # NULL /\ signalled' = signalled \cup {finished} /\ pc' = "evput"
     \/ finished = NULL /\ pc' = "stuck" /\ UNCHANGED signalled
  /\ UNCHANGED <<err_progress, err_code, remaining_size, data, finished, pending, wsize, offset,
                 userVars, uploads, size, parent_refs, cancel_request>>

\* eventfd_ctx_put and finished = NULL come after the lock was dropped.
eventfd_put ==
  /\ pc = "evput"
  /\ \/ /\ finished # NULL
        /\ finished' = NULL
        /\ pc' = "none"
        /\ flush' = [w \in Flushers |-> IF flush[w] = "running" THEN "done" ELSE flush[w]]
     \/ finished = NULL /\ pc' = "oops" /\ UNCHANGED <<finished, flush>>
  /\ UNCHANGED <<progress, err_progress, err_code, remaining_size, data, pending, wsize, offset,
                 opened, registered, ghostVars, parent_refs, cancel_request>>

-----------------------------------------------------------------------------
User ==
  \/ fpga_image_load_open
  \/ \E sz \in Sizes : ioctl_write(sz)
  \/ ioctl_write_badfd
  \/ ioctl_cancel
  \/ fpga_image_load_release
  \/ release_flushed
  \/ fpga_image_load_unregister
  \/ unregister_flushed

\* The steps of the worker between two calls of the lower-level driver.
WorkerOwn ==
  \/ fw_upload_main
  \/ transfer
  \/ transfer_loop
  \/ program
  \/ putdev_exit
  \/ fw_upload_prog_complete
  \/ eventfd_put

\* A driver forgets the cancel requests older than this upload.
prepare_forgets_cancel ==
  /\ pc = "prepare"
  /\ cancel_request' = FALSE
  /\ UNCHANGED <<fwlpVars, workVars, userVars, ghostVars, parent_refs>>

\* A lower-level driver that may answer anything, but writes no more than
\* it was given.
AnyDriver ==
  \/ \E err \in Err : prepare_returns(err)
  \/ \E err \in Err, n \in 0..wsize : write_returns(err, n)
  \/ \E err \in Err : poll_complete_returns(err)
  \/ cleanup_returns

Next == User \/ WorkerOwn \/ AnyDriver \/ prepare_forgets_cancel

Spec == Init /\ [][Next]_vars

\* The work queue runs queued work, operations return, and flush_work
\* returns once the work is done.  The user need not do anything.
Fairness ==
  /\ WF_vars(WorkerOwn \/ AnyDriver)
  /\ WF_vars(release_flushed)
  /\ WF_vars(unregister_flushed)

FairSpec == Spec /\ Fairness

-----------------------------------------------------------------------------
(* What the framework must guarantee.                                      *)

BeforePut == {"prepare", "transfer", "loop", "write", "program", "poll", "cleanup", "put"}

\* get_device and put_device on the parent pair up: a reference is held
\* exactly for the upload that is queued or has not reached putdev_exit.
RefsBalanced ==
  parent_refs = (IF pending THEN 1 ELSE 0) + (IF pc \in BeforePut THEN 1 ELSE 0)

\* A write operation is only called inside the buffer it was given: what was
\* written and what remains add up to the image, and the buffer is not freed.
WholeImage ==
  /\ pc \in {"write", "loop"} => data = uploads /\ offset + remaining_size = size
  /\ pc = "write" => wsize = remaining_size
  /\ pc = "poll" => offset = size

\* An upload that STATUS reports as finished without an error was written to
\* its last block.
SuccessMeansWritten ==
  Idle /\ uploads > 0 /\ err_code = "NONE" => remaining_size = 0 /\ offset = size

\* After a failure, err_progress and the remaining_size left behind agree on
\* how far the upload came.
ErrorPhaseMatches ==
  Idle /\ err_code # "NONE" =>
    \/ err_progress = "PREPARING" /\ remaining_size = size
    \/ err_progress = "TRANSFERRING" /\ remaining_size > 0
    \/ err_progress = "PROGRAMMING" /\ remaining_size = 0

\* Taken together: the worker stays inside of the image, and what STATUS reports
\* about an upload is what was done with it.
UploadTrue == TypeOK /\ WholeImage /\ SuccessMeansWritten /\ ErrorPhaseMatches

\* While an upload is under way its own eventfd is installed, so completion
\* signals the caller of this upload and no other.
EventfdInstalled == Busy => finished = uploads

\* The last close returns only when no operation of the lower-level driver
\* can still run for this file.
CloseWaits == ~opened => ~Busy

\* Once unregister has returned to the remove function of the parent driver,
\* no operation of that driver runs or is going to run.
NoOpAfterRemove == ~registered => pc \notin OpPcs /\ ~pending

\* Taken together: close and unregister return only when the driver is left alone.
StopsWait == CloseWaits /\ NoOpAfterRemove

\* A close and a remove that wait for the worker return.
FlushReturns == \A w \in Flushers : flush[w] # "no" ~> flush[w] = "no"

\* The framework is a device that runs one upload at a time and reports each.
Abstract == INSTANCE UploadSpec WITH
  state <- IF Idle THEN "idle" ELSE "active",
  accepted <- uploads,
  reported <- Cardinality(signalled)

ImplementsUploadSpec == Abstract!FairSpec
=============================================================================
