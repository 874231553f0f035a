-------------------------- MODULE ImageLoad_proofs --------------------------
(***************************************************************************)
(* Proofs about ImageLoad, for any number of uploads, any image sizes and  *)
(* any errors of the lower-level driver.  The user is one that waits for   *)
(* the eventfd of an upload before it starts the next (Client is not       *)
(* "any"); what needs a user that also lets the worker return says so.     *)
(***************************************************************************)
EXTENDS ImageLoad, TLAPS, FiniteSetTheorems

\* The worker has nothing left to do for the upload it ran last.
Resting == pc \in {"none", "evput", "oops", "stuck"}

\* The upload that was accepted last has not been signalled while it is busy; the
\* eventfd installed is its own, or was overwritten.
OneUpload ==
  /\ pending => Resting /\ pc # "stuck"
  /\ pending \/ pc # "none" => uploads > 0
  /\ Busy \/ pc = "stuck" => uploads \notin signalled
  /\ \A u \in 1..uploads : u # uploads => u \in signalled
  /\ signalled \subseteq 1..uploads
  /\ finished \in {NULL, uploads}

\* The progress shown belongs to the step the worker is at.
ProgressMatches ==
  /\ pending => progress = "RECEIVING"
  /\ pc \in {"prepare", "transfer"} => progress = "PREPARING"
  /\ pc \in {"loop", "write", "program"} => progress = "TRANSFERRING"
  /\ pc = "poll" => progress = "PROGRAMMING"
  /\ Idle <=> ~Busy

\* What is left of the image at each step before the outcome is known.
ImageMatches ==
  /\ pending \/ (pc \in BeforePut \ {"cleanup", "put"}) => err_code = "NONE" /\ data = uploads
  /\ pending => remaining_size = size
  /\ pc \in {"prepare", "transfer"} => remaining_size = size /\ offset = 0
  /\ pc \in {"loop", "write"} => offset + remaining_size = size
  /\ pc = "write" => wsize = remaining_size /\ remaining_size > 0
  /\ pc \in {"program", "poll"} => remaining_size = 0 /\ offset = size

\* What err_code, err_progress and remaining_size say of an upload that is over.
Outcome ==
  \/ err_code = "NONE" /\ remaining_size = 0 /\ offset = size
  \/ /\ err_code # "NONE"
     /\ \/ err_progress = "PREPARING" /\ remaining_size = size
        \/ err_progress = "TRANSFERRING" /\ remaining_size > 0
        \/ err_progress = "PROGRAMMING" /\ remaining_size = 0

OutcomeSettled ==
  /\ pc \in {"cleanup", "put", "complete", "stuck"} => Outcome
  /\ pc \in {"none", "evput", "oops"} /\ ~pending /\ uploads > 0 => Outcome
  /\ uploads = 0 => err_code = "NONE"

\* A close that waits, waits for the work that was there when it was called.
ReleaseWaits ==
  /\ flush["release"] # "no" => opened
  /\ flush["release"] = "queued" => pending
  /\ flush["release"] = "running" => ~pending
  /\ flush["release"] = "done" => ~Busy
  /\ ~opened => ~Busy

IInv ==
  /\ TypeOK
  /\ RefsBalanced
  /\ OneUpload
  /\ ProgressMatches
  /\ ImageMatches
  /\ OutcomeSettled
  /\ ReleaseWaits

\* With a user that lets the worker return: the eventfd stays installed, so the
\* worker never faults; and a removal waits like a close.
QInv ==
  /\ pc \notin {"oops", "stuck"}
  /\ pending => pc = "none"
  /\ pc # "none" \/ pending => finished = uploads
  /\ ~Busy => signalled = 1..uploads
  /\ Busy => signalled = 1..(uploads - 1)
  /\ flush["unregister"] # "no" => registered
  /\ flush["unregister"] = "queued" => pending
  /\ flush["unregister"] = "done" => ~Busy
  /\ ~registered => ~Busy

-----------------------------------------------------------------------------
(* The invariant is inductive: one lemma per step.                          *)

\* An open device without an upload satisfies both invariants.
LEMMA InitIInv == Init => IInv /\ QInv
<1> SUFFICES ASSUME Init PROVE IInv /\ QInv
  OBVIOUS
<1>1. TypeOK
  <2>1. flush \in [Flushers -> FlushState]
    BY DEF Init, FlushState
  <2>2. 0 \in 0 .. (WordMod - 1) /\ 0 \in 0..MaxUploads
    BY ImageLoadAssumption
  <2> QED BY <2>1, <2>2 DEF TypeOK, Init, Progress, Err, WorkerPcs, NULL
<1>2. RefsBalanced /\ ProgressMatches /\ ImageMatches /\ OutcomeSettled
  BY DEF RefsBalanced, ProgressMatches, ImageMatches, OutcomeSettled, Outcome, Busy, Idle, BeforePut, Flushers, Init, NULL
<1>3. OneUpload /\ ReleaseWaits
  BY DEF OneUpload, ReleaseWaits, Resting, Busy, Flushers, Init, NULL
<1>4. QInv
  BY DEF QInv, Busy, Flushers, Init, NULL
<1> QED BY <1>1, <1>2, <1>3, <1>4 DEF IInv

\* fpga_image_load_open takes the device: nothing an upload depends on changes.
LEMMA OpenKeeps ==
  ASSUME IInv, Client # "any", fpga_image_load_open
  PROVE  IInv'
<1>1. TypeOK'
  BY DEF IInv, TypeOK, fpga_image_load_open, fwlpVars, workVars, ghostVars
<1>2. RefsBalanced'
  BY DEF IInv, RefsBalanced, fpga_image_load_open, workVars
<1>3. OneUpload'
  BY DEF IInv, OneUpload, Resting, Busy, fpga_image_load_open, fwlpVars, workVars, ghostVars
<1>4. ProgressMatches'
  BY DEF IInv, ProgressMatches, Idle, Busy, fpga_image_load_open, fwlpVars, workVars
<1>5. ImageMatches'
  BY DEF IInv, ImageMatches, fpga_image_load_open, fwlpVars, workVars, ghostVars
<1>6. OutcomeSettled'
  BY DEF IInv, OutcomeSettled, Outcome, fpga_image_load_open, fwlpVars, workVars, ghostVars
<1>7. ReleaseWaits'
  BY DEF IInv, ReleaseWaits, fpga_image_load_open
<1> QED BY <1>1, <1>2, <1>3, <1>4, <1>5, <1>6, <1>7 DEF IInv

\* The write ioctl starts an upload only after the eventfd of the last one was
\* signalled, when it is no longer busy and its reference was put.
LEMMA WriteKeeps ==
  ASSUME IInv, Client # "any", NEW sz \in Sizes, ioctl_write(sz)
  PROVE  IInv'
<1>1. TypeOK'
  BY ImageLoadAssumption DEF IInv, TypeOK, Progress, Err, RefsBalanced, BeforePut, OneUpload,
     Resting, ioctl_write, userVars
<1>2. RefsBalanced'
  BY DEF IInv, RefsBalanced, TypeOK, OneUpload, Busy, ioctl_write, ClientMayWrite
<1>3. OneUpload'
  BY DEF IInv, OneUpload, Resting, Busy, TypeOK, ioctl_write, ClientMayWrite
<1>4. ProgressMatches'
  BY DEF IInv, ProgressMatches, Idle, Busy, TypeOK, OneUpload, ioctl_write, ClientMayWrite
<1>5. ImageMatches'
  BY DEF IInv, ImageMatches, TypeOK, OneUpload, Busy, ioctl_write, ClientMayWrite
<1>6. OutcomeSettled'
  BY DEF IInv, OutcomeSettled, TypeOK, OneUpload, Busy, ioctl_write, ClientMayWrite
<1>7. ReleaseWaits'
  BY DEF ReleaseWaits, ioctl_write, ClientMayWrite, userVars, FileInUse
<1> QED BY <1>1, <1>2, <1>3, <1>4, <1>5, <1>6, <1>7 DEF IInv

\* A write ioctl whose descriptor is no eventfd leaves finished NULL and nothing else.
LEMMA BadFdKeeps ==
  ASSUME IInv, Client # "any", ioctl_write_badfd
  PROVE  IInv'
<1>1. TypeOK'
  BY ImageLoadAssumption DEF IInv, TypeOK, ioctl_write_badfd, NULL, workVars, userVars, ghostVars
<1>2. RefsBalanced'
  BY DEF IInv, RefsBalanced, ioctl_write_badfd, workVars
<1>3. OneUpload'
  BY DEF IInv, OneUpload, Resting, Busy, ioctl_write_badfd, workVars, ghostVars
<1>4. ProgressMatches'
  BY DEF IInv, ProgressMatches, Idle, Busy, ioctl_write_badfd, workVars
<1>5. ImageMatches'
  BY DEF IInv, ImageMatches, ioctl_write_badfd, workVars, ghostVars
<1>6. OutcomeSettled'
  BY DEF IInv, OutcomeSettled, Outcome, ioctl_write_badfd, workVars, ghostVars
<1>7. ReleaseWaits'
  BY DEF IInv, ReleaseWaits, Busy, ioctl_write_badfd, workVars, userVars
<1> QED BY <1>1, <1>2, <1>3, <1>4, <1>5, <1>6, <1>7 DEF IInv

\* The cancel ioctl sets the request only.
LEMMA CancelKeeps ==
  ASSUME IInv, Client # "any", ioctl_cancel
  PROVE  IInv'
<1>1. TypeOK'
  BY DEF IInv, TypeOK, ioctl_cancel, fwlpVars, workVars, userVars, ghostVars
<1>2. RefsBalanced'
  BY DEF IInv, RefsBalanced, ioctl_cancel, workVars
<1>3. OneUpload'
  BY DEF IInv, OneUpload, Resting, Busy, ioctl_cancel, fwlpVars, workVars, ghostVars
<1>4. ProgressMatches'
  BY DEF IInv, ProgressMatches, Idle, Busy, ioctl_cancel, fwlpVars, workVars
<1>5. ImageMatches'
  BY DEF IInv, ImageMatches, ioctl_cancel, fwlpVars, workVars, ghostVars
<1>6. OutcomeSettled'
  BY DEF IInv, OutcomeSettled, Outcome, ioctl_cancel, fwlpVars, workVars, ghostVars
<1>7. ReleaseWaits'
  BY DEF IInv, ReleaseWaits, Busy, ioctl_cancel, workVars, userVars
<1> QED BY <1>1, <1>2, <1>3, <1>4, <1>5, <1>6, <1>7 DEF IInv

\* The last close lets the device go when no upload is under way, or begins to wait.
LEMMA ReleaseKeeps ==
  ASSUME IInv, Client # "any", fpga_image_load_release
  PROVE  IInv'
<1>1. TypeOK'
  BY DEF IInv, TypeOK, FlushState, fpga_image_load_release, FlushCalled, fwlpVars, workVars,
     ghostVars
<1>2. RefsBalanced'
  BY DEF IInv, RefsBalanced, fpga_image_load_release, workVars
<1>3. OneUpload'
  BY DEF IInv, OneUpload, Resting, Busy, fpga_image_load_release, fwlpVars, workVars, ghostVars
<1>4. ProgressMatches'
  BY DEF IInv, ProgressMatches, Idle, Busy, fpga_image_load_release, fwlpVars, workVars
<1>5. ImageMatches'
  BY DEF IInv, ImageMatches, fpga_image_load_release, fwlpVars, workVars, ghostVars
<1>6. OutcomeSettled'
  BY DEF IInv, OutcomeSettled, Outcome, fpga_image_load_release, fwlpVars, workVars, ghostVars
<1>7. ReleaseWaits'
  BY DEF IInv, ReleaseWaits, Busy, TypeOK, ProgressMatches, fpga_image_load_release, FileInUse,
     FlushCalled, workVars
<1> QED BY <1>1, <1>2, <1>3, <1>4, <1>5, <1>6, <1>7 DEF IInv

\* The last close returns when the work it waited for has ended.
LEMMA ReleaseFlushedKeeps ==
  ASSUME IInv, Client # "any", release_flushed
  PROVE  IInv'
<1>1. TypeOK'
  BY DEF IInv, TypeOK, FlushState, release_flushed, fwlpVars, workVars, ghostVars
<1>2. RefsBalanced'
  BY DEF IInv, RefsBalanced, release_flushed, workVars
<1>3. OneUpload'
  BY DEF IInv, OneUpload, Resting, Busy, release_flushed, fwlpVars, workVars, ghostVars
<1>4. ProgressMatches'
  BY DEF IInv, ProgressMatches, Idle, Busy, release_flushed, fwlpVars, workVars
<1>5. ImageMatches'
  BY DEF IInv, ImageMatches, release_flushed, fwlpVars, workVars, ghostVars
<1>6. OutcomeSettled'
  BY DEF IInv, OutcomeSettled, Outcome, release_flushed, fwlpVars, workVars, ghostVars
<1>7. ReleaseWaits'
  BY DEF IInv, ReleaseWaits, Busy, TypeOK, Flushers, release_flushed, workVars
<1> QED BY <1>1, <1>2, <1>3, <1>4, <1>5, <1>6, <1>7 DEF IInv

\* fpga_image_load_unregister ends when no upload is under way, or begins to wait.
LEMMA UnregisterKeeps ==
  ASSUME IInv, Client # "any", fpga_image_load_unregister
  PROVE  IInv'
<1>1. TypeOK'
  BY DEF IInv, TypeOK, FlushState, fpga_image_load_unregister, FlushCalled, fwlpVars, workVars,
     ghostVars
<1>2. RefsBalanced'
  BY DEF IInv, RefsBalanced, fpga_image_load_unregister, workVars
<1>3. OneUpload'
  BY DEF IInv, OneUpload, Resting, Busy, fpga_image_load_unregister, fwlpVars, workVars, ghostVars
<1>4. ProgressMatches'
  BY DEF IInv, ProgressMatches, Idle, Busy, fpga_image_load_unregister, fwlpVars, workVars
<1>5. ImageMatches'
  BY DEF IInv, ImageMatches, fpga_image_load_unregister, fwlpVars, workVars, ghostVars
<1>6. OutcomeSettled'
  BY DEF IInv, OutcomeSettled, Outcome, fpga_image_load_unregister, fwlpVars, workVars, ghostVars
<1>7. ReleaseWaits'
  BY DEF IInv, ReleaseWaits, Busy, TypeOK, Flushers, fpga_image_load_unregister, workVars
<1> QED BY <1>1, <1>2, <1>3, <1>4, <1>5, <1>6, <1>7 DEF IInv

\* fpga_image_load_unregister returns when the work it waited for has ended.
LEMMA UnregisterFlushedKeeps ==
  ASSUME IInv, Client # "any", unregister_flushed
  PROVE  IInv'
<1>1. TypeOK'
  BY DEF IInv, TypeOK, FlushState, unregister_flushed, fwlpVars, workVars, ghostVars
<1>2. RefsBalanced'
  BY DEF IInv, RefsBalanced, unregister_flushed, workVars
<1>3. OneUpload'
  BY DEF IInv, OneUpload, Resting, Busy, unregister_flushed, fwlpVars, workVars, ghostVars
<1>4. ProgressMatches'
  BY DEF IInv, ProgressMatches, Idle, Busy, unregister_flushed, fwlpVars, workVars
<1>5. ImageMatches'
  BY DEF IInv, ImageMatches, unregister_flushed, fwlpVars, workVars, ghostVars
<1>6. OutcomeSettled'
  BY DEF IInv, OutcomeSettled, Outcome, unregister_flushed, fwlpVars, workVars, ghostVars
<1>7. ReleaseWaits'
  BY DEF IInv, ReleaseWaits, Busy, unregister_flushed, workVars
<1> QED BY <1>1, <1>2, <1>3, <1>4, <1>5, <1>6, <1>7 DEF IInv

\* fw_upload_main starts on the upload that was queued.
LEMMA MainKeeps ==
  ASSUME IInv, Client # "any", fw_upload_main
  PROVE  IInv'
<1>1. TypeOK'
  <2>1. flush' \in [Flushers -> FlushState]
    BY DEF IInv, TypeOK, fw_upload_main, FlushState
  <2>2. offset' \in 0 .. (WordMod - 1) /\ pc' \in WorkerPcs /\ progress' \in Progress
    BY ImageLoadAssumption DEF fw_upload_main, WorkerPcs, OpPcs, Progress
  <2> QED BY <2>1, <2>2 DEF IInv, TypeOK, fw_upload_main, ghostVars
<1>2. RefsBalanced'
  BY DEF IInv, RefsBalanced, BeforePut, fw_upload_main
<1>3. OneUpload'
  BY DEF IInv, OneUpload, Busy, fw_upload_main, ghostVars
<1>4. ProgressMatches'
  BY DEF ProgressMatches, Idle, Busy, fw_upload_main
<1>5. ImageMatches'
  BY DEF IInv, ImageMatches, fw_upload_main, ghostVars
<1>6. OutcomeSettled'
  BY DEF IInv, OutcomeSettled, fw_upload_main, ghostVars
<1>7. ReleaseWaits'
  BY DEF IInv, ReleaseWaits, Busy, fw_upload_main, Flushers
<1> QED BY <1>1, <1>2, <1>3, <1>4, <1>5, <1>6, <1>7 DEF IInv

\* The transfer phase begins with the whole image to write.
LEMMA TransferKeeps ==
  ASSUME IInv, Client # "any", transfer
  PROVE  IInv'
<1>1. TypeOK'
  BY DEF IInv, TypeOK, Progress, WorkerPcs, transfer, userVars, ghostVars
<1>2. RefsBalanced'
  BY DEF IInv, RefsBalanced, BeforePut, transfer
<1>3. OneUpload'
  BY DEF IInv, OneUpload, Resting, Busy, transfer, ghostVars
<1>4. ProgressMatches'
  BY DEF IInv, ProgressMatches, Idle, Busy, transfer
<1>5. ImageMatches'
  BY DEF IInv, ImageMatches, BeforePut, TypeOK, transfer, ghostVars
<1>6. OutcomeSettled'
  BY DEF IInv, OutcomeSettled, transfer, ghostVars
<1>7. ReleaseWaits'
  BY DEF IInv, ReleaseWaits, Busy, transfer, userVars
<1> QED BY <1>1, <1>2, <1>3, <1>4, <1>5, <1>6, <1>7 DEF IInv

\* The head of the write loop calls write with what remains, or leaves the loop.
LEMMA LoopKeeps ==
  ASSUME IInv, Client # "any", transfer_loop
  PROVE  IInv'
<1>1. TypeOK'
  BY DEF IInv, TypeOK, WorkerPcs, OpPcs, transfer_loop, fwlpVars, userVars, ghostVars
<1>2. RefsBalanced'
  BY DEF IInv, RefsBalanced, BeforePut, transfer_loop
<1>3. OneUpload'
  BY DEF IInv, OneUpload, Resting, Busy, transfer_loop, fwlpVars, ghostVars
<1>4. ProgressMatches'
  BY DEF IInv, ProgressMatches, Idle, Busy, transfer_loop, fwlpVars
<1>5. ImageMatches'
  BY DEF IInv, ImageMatches, BeforePut, TypeOK, transfer_loop, fwlpVars, ghostVars
<1>6. OutcomeSettled'
  BY DEF IInv, OutcomeSettled, transfer_loop, fwlpVars, ghostVars
<1>7. ReleaseWaits'
  BY DEF IInv, ReleaseWaits, Busy, transfer_loop, userVars
<1> QED BY <1>1, <1>2, <1>3, <1>4, <1>5, <1>6, <1>7 DEF IInv

\* The programming phase begins when nothing remains.
LEMMA ProgramKeeps ==
  ASSUME IInv, Client # "any", program
  PROVE  IInv'
<1>1. TypeOK'
  BY DEF IInv, TypeOK, Progress, WorkerPcs, OpPcs, program, userVars, ghostVars
<1>2. RefsBalanced'
  BY DEF IInv, RefsBalanced, BeforePut, program
<1>3. OneUpload'
  BY DEF IInv, OneUpload, Resting, Busy, program, ghostVars
<1>4. ProgressMatches'
  BY DEF IInv, ProgressMatches, Idle, Busy, program
<1>5. ImageMatches'
  BY DEF IInv, ImageMatches, BeforePut, program, ghostVars
<1>6. OutcomeSettled'
  BY DEF IInv, OutcomeSettled, program, ghostVars
<1>7. ReleaseWaits'
  BY DEF IInv, ReleaseWaits, Busy, program, userVars
<1> QED BY <1>1, <1>2, <1>3, <1>4, <1>5, <1>6, <1>7 DEF IInv

\* putdev_exit puts the reference of this upload.
LEMMA PutKeeps ==
  ASSUME IInv, Client # "any", putdev_exit
  PROVE  IInv'
<1>1. TypeOK'
  BY ImageLoadAssumption DEF IInv, TypeOK, WorkerPcs, RefsBalanced, BeforePut, putdev_exit, NULL,
     userVars, ghostVars
<1>2. RefsBalanced'
  BY DEF IInv, RefsBalanced, BeforePut, putdev_exit
<1>3. OneUpload'
  BY DEF IInv, OneUpload, Resting, Busy, putdev_exit, ghostVars
<1>4. ProgressMatches'
  BY DEF IInv, ProgressMatches, Idle, Busy, putdev_exit
<1>5. ImageMatches'
  BY DEF IInv, ImageMatches, BeforePut, OneUpload, Resting, putdev_exit
<1>6. OutcomeSettled'
  BY DEF IInv, OutcomeSettled, Outcome, putdev_exit, ghostVars
<1>7. ReleaseWaits'
  BY DEF IInv, ReleaseWaits, Busy, putdev_exit, userVars
<1> QED BY <1>1, <1>2, <1>3, <1>4, <1>5, <1>6, <1>7 DEF IInv

\* fw_upload_prog_complete publishes IDLE and signals the upload under way.
LEMMA CompleteKeeps ==
  ASSUME IInv, Client # "any", fw_upload_prog_complete
  PROVE  IInv'
<1>a. finished # NULL => finished = uploads /\ finished \in Uploads
  BY ImageLoadAssumption DEF IInv, TypeOK, OneUpload, Uploads, NULL
<1>1. TypeOK'
  <2>1. pc' \in WorkerPcs /\ progress' \in Progress
    BY DEF fw_upload_prog_complete, WorkerPcs, Progress
  <2>2. signalled' \subseteq Uploads
    BY <1>a DEF fw_upload_prog_complete, IInv, TypeOK
  <2> QED BY <2>1, <2>2 DEF IInv, TypeOK, fw_upload_prog_complete, userVars
<1>2. RefsBalanced'
  BY DEF IInv, RefsBalanced, BeforePut, fw_upload_prog_complete
<1>3. OneUpload'
  <2>1. uploads > 0 /\ uploads \notin signalled
    BY DEF IInv, OneUpload, Busy, fw_upload_prog_complete
  <2>2. signalled' \subseteq 1..uploads
    <3>1. uploads \in Nat /\ signalled \subseteq 1..uploads
      BY ImageLoadAssumption DEF IInv, TypeOK, OneUpload
    <3>2. finished # NULL => finished \in 1..uploads
      BY <1>a, <2>1, <3>1
    <3> QED BY <3>1, <3>2 DEF fw_upload_prog_complete
  <2>3. CASE finished # NULL
    BY <1>a, <2>1, <2>2, <2>3 DEF IInv, OneUpload, fw_upload_prog_complete, Busy, Resting
  <2>4. CASE finished = NULL
    BY <2>1, <2>2, <2>4 DEF IInv, OneUpload, fw_upload_prog_complete, Busy, Resting
  <2> QED BY <2>3, <2>4
<1>4. ProgressMatches'
  BY DEF IInv, ProgressMatches, Idle, Busy, OneUpload, Resting, fw_upload_prog_complete
<1>5. ImageMatches'
  BY DEF IInv, ImageMatches, BeforePut, fw_upload_prog_complete
<1>6. OutcomeSettled'
  BY DEF IInv, OutcomeSettled, Outcome, fw_upload_prog_complete
<1>7. ReleaseWaits'
  BY DEF IInv, ReleaseWaits, Busy, fw_upload_prog_complete, userVars
<1> QED BY <1>1, <1>2, <1>3, <1>4, <1>5, <1>6, <1>7 DEF IInv

\* The worker returns, and with it the flushes that waited for it.
LEMMA EvputKeeps ==
  ASSUME IInv, Client # "any", eventfd_put
  PROVE  IInv'
<1>1. TypeOK'
  BY ImageLoadAssumption DEF IInv, TypeOK, WorkerPcs, FlushState, eventfd_put, NULL, ghostVars
<1>2. RefsBalanced'
  BY DEF IInv, RefsBalanced, BeforePut, eventfd_put
<1>3. OneUpload'
  BY DEF IInv, OneUpload, Resting, Busy, eventfd_put, ghostVars
<1>4. ProgressMatches'
  BY DEF IInv, ProgressMatches, Idle, Busy, eventfd_put
<1>5. ImageMatches'
  BY DEF IInv, ImageMatches, BeforePut, eventfd_put, ghostVars
<1>6. OutcomeSettled'
  BY DEF IInv, OutcomeSettled, Outcome, eventfd_put, ghostVars
<1>7. ReleaseWaits'
  <2>1. flush'["release"] \in {flush["release"], "done"} /\ (flush'["release"] # flush["release"] => flush["release"] = "running")
    BY DEF IInv, TypeOK, eventfd_put, Flushers
  <2>2. flush["release"] # "no" => flush'["release"] # "no"
    BY DEF IInv, TypeOK, eventfd_put, Flushers
  <2> QED BY <2>1, <2>2 DEF IInv, ReleaseWaits, eventfd_put, Busy, Flushers
<1> QED BY <1>1, <1>2, <1>3, <1>4, <1>5, <1>6, <1>7 DEF IInv

\* prepare returns, with any result.
LEMMA PrepareReturnsKeeps ==
  ASSUME IInv, Client # "any", NEW err \in Err, prepare_returns(err)
  PROVE  IInv'
<1>1. TypeOK'
  BY DEF IInv, TypeOK, WorkerPcs, prepare_returns, set_error, userVars, ghostVars
<1>2. RefsBalanced'
  BY DEF IInv, RefsBalanced, BeforePut, prepare_returns
<1>3. OneUpload'
  BY DEF IInv, OneUpload, Resting, Busy, prepare_returns, ghostVars
<1>4. ProgressMatches'
  BY DEF IInv, ProgressMatches, Idle, Busy, prepare_returns
<1>5. ImageMatches'
  BY DEF IInv, ImageMatches, BeforePut, OneUpload, Resting, prepare_returns, ghostVars
<1>6. OutcomeSettled'
  BY DEF IInv, OutcomeSettled, Outcome, OneUpload, ProgressMatches, ImageMatches, prepare_returns,
     set_error, ghostVars
<1>7. ReleaseWaits'
  BY DEF IInv, ReleaseWaits, Busy, prepare_returns, userVars
<1> QED BY <1>1, <1>2, <1>3, <1>4, <1>5, <1>6, <1>7 DEF IInv

\* write returns an error or no more than it was given; the sums do not wrap.
LEMMA WriteReturnsKeeps ==
  ASSUME IInv, Client # "any", NEW err \in Err, NEW n \in 0..wsize, write_returns(err, n)
  PROVE  IInv'
<1>1. TypeOK'
  BY ImageLoadAssumption DEF IInv, TypeOK, Err, WorkerPcs, OpPcs, write_returns, set_error,
     userVars, ghostVars
<1>2. RefsBalanced'
  BY DEF IInv, RefsBalanced, BeforePut, write_returns
<1>3. OneUpload'
  BY DEF IInv, OneUpload, Resting, Busy, write_returns, ghostVars
<1>4. ProgressMatches'
  BY DEF IInv, ProgressMatches, Idle, Busy, write_returns
<1>5. ImageMatches'
  BY ImageLoadAssumption DEF IInv, ImageMatches, BeforePut, TypeOK, OneUpload, Resting,
     write_returns, ghostVars
<1>6. OutcomeSettled'
  BY DEF IInv, OutcomeSettled, Outcome, OneUpload, ProgressMatches, ImageMatches, write_returns,
     set_error, ghostVars
<1>7. ReleaseWaits'
  BY DEF IInv, ReleaseWaits, Busy, write_returns, userVars
<1> QED BY <1>1, <1>2, <1>3, <1>4, <1>5, <1>6, <1>7 DEF IInv

\* poll_complete returns, with any result.
LEMMA PollReturnsKeeps ==
  ASSUME IInv, Client # "any", NEW err \in Err, poll_complete_returns(err)
  PROVE  IInv'
<1>1. TypeOK'
  BY DEF IInv, TypeOK, WorkerPcs, OpPcs, poll_complete_returns, set_error, userVars, ghostVars
<1>2. RefsBalanced'
  BY DEF IInv, RefsBalanced, BeforePut, poll_complete_returns
<1>3. OneUpload'
  BY DEF IInv, OneUpload, Resting, Busy, poll_complete_returns, ghostVars
<1>4. ProgressMatches'
  BY DEF IInv, ProgressMatches, Idle, Busy, poll_complete_returns
<1>5. ImageMatches'
  BY DEF IInv, ImageMatches, OneUpload, Resting, poll_complete_returns
<1>6. OutcomeSettled'
  BY DEF IInv, OutcomeSettled, Outcome, BeforePut, OneUpload, ProgressMatches, ImageMatches,
     poll_complete_returns, set_error, ghostVars
<1>7. ReleaseWaits'
  BY DEF IInv, ReleaseWaits, Busy, poll_complete_returns, userVars
<1> QED BY <1>1, <1>2, <1>3, <1>4, <1>5, <1>6, <1>7 DEF IInv

\* cleanup returns.
LEMMA CleanupReturnsKeeps ==
  ASSUME IInv, Client # "any", cleanup_returns
  PROVE  IInv'
<1>1. TypeOK'
  BY DEF IInv, TypeOK, WorkerPcs, cleanup_returns, fwlpVars, userVars, ghostVars
<1>2. RefsBalanced'
  BY DEF IInv, RefsBalanced, BeforePut, cleanup_returns
<1>3. OneUpload'
  BY DEF IInv, OneUpload, Resting, Busy, cleanup_returns, fwlpVars, ghostVars
<1>4. ProgressMatches'
  BY DEF IInv, ProgressMatches, Idle, Busy, cleanup_returns, fwlpVars
<1>5. ImageMatches'
  BY DEF IInv, ImageMatches, cleanup_returns, fwlpVars, ghostVars
<1>6. OutcomeSettled'
  BY DEF IInv, OutcomeSettled, Outcome, cleanup_returns, fwlpVars, ghostVars
<1>7. ReleaseWaits'
  BY DEF IInv, ReleaseWaits, Busy, cleanup_returns, userVars
<1> QED BY <1>1, <1>2, <1>3, <1>4, <1>5, <1>6, <1>7 DEF IInv

\* prepare of the driver resets the cancel request.
LEMMA ForgetsCancelKeeps ==
  ASSUME IInv, Client # "any", prepare_forgets_cancel
  PROVE  IInv'
<1>1. TypeOK'
  BY DEF IInv, TypeOK, prepare_forgets_cancel, fwlpVars, workVars, userVars, ghostVars
<1>2. RefsBalanced'
  BY DEF IInv, RefsBalanced, prepare_forgets_cancel, workVars
<1>3. OneUpload'
  BY DEF IInv, OneUpload, Resting, Busy, prepare_forgets_cancel, fwlpVars, workVars, ghostVars
<1>4. ProgressMatches'
  BY DEF IInv, ProgressMatches, Idle, Busy, prepare_forgets_cancel, fwlpVars, workVars
<1>5. ImageMatches'
  BY DEF IInv, ImageMatches, prepare_forgets_cancel, fwlpVars, workVars, ghostVars
<1>6. OutcomeSettled'
  BY DEF IInv, OutcomeSettled, prepare_forgets_cancel, fwlpVars, workVars, ghostVars
<1>7. ReleaseWaits'
  BY DEF IInv, ReleaseWaits, Busy, prepare_forgets_cancel, workVars, userVars
<1> QED BY <1>1, <1>2, <1>3, <1>4, <1>5, <1>6, <1>7 DEF IInv

\* Every step of the framework, its user and its driver keeps IInv.
LEMMA StepIInv ==
  ASSUME IInv, Client # "any", [Next]_vars
  PROVE  IInv'
<1>1. CASE fpga_image_load_open
  BY <1>1, OpenKeeps
<1>2. CASE \E sz \in Sizes : ioctl_write(sz)
  BY <1>2, WriteKeeps
<1>3. CASE ioctl_write_badfd
  BY <1>3, BadFdKeeps
<1>4. CASE ioctl_cancel
  BY <1>4, CancelKeeps
<1>5. CASE fpga_image_load_release
  BY <1>5, ReleaseKeeps
<1>6. CASE release_flushed
  BY <1>6, ReleaseFlushedKeeps
<1>7. CASE fpga_image_load_unregister
  BY <1>7, UnregisterKeeps
<1>8. CASE unregister_flushed
  BY <1>8, UnregisterFlushedKeeps
<1>9. CASE fw_upload_main
  BY <1>9, MainKeeps
<1>10. CASE transfer
  BY <1>10, TransferKeeps
<1>11. CASE transfer_loop
  BY <1>11, LoopKeeps
<1>12. CASE program
  BY <1>12, ProgramKeeps
<1>13. CASE putdev_exit
  BY <1>13, PutKeeps
<1>14. CASE fw_upload_prog_complete
  BY <1>14, CompleteKeeps
<1>15. CASE eventfd_put
  BY <1>15, EvputKeeps
<1>16. CASE \E err \in Err : prepare_returns(err)
  BY <1>16, PrepareReturnsKeeps
<1>17. CASE \E err \in Err, n \in 0..wsize : write_returns(err, n)
  BY <1>17, WriteReturnsKeeps
<1>18. CASE \E err \in Err : poll_complete_returns(err)
  BY <1>18, PollReturnsKeeps
<1>19. CASE cleanup_returns
  BY <1>19, CleanupReturnsKeeps
<1>20. CASE prepare_forgets_cancel
  BY <1>20, ForgetsCancelKeeps
<1>21. CASE UNCHANGED vars
  <2>1. TypeOK'
    BY <1>21 DEF IInv, TypeOK, vars, fwlpVars, workVars, userVars, ghostVars
  <2>2. RefsBalanced'
    BY <1>21 DEF IInv, RefsBalanced, vars, workVars
  <2>3. OneUpload'
    BY <1>21 DEF IInv, OneUpload, Resting, Busy, vars, fwlpVars, workVars, ghostVars
  <2>4. ProgressMatches'
    BY <1>21 DEF IInv, ProgressMatches, Idle, Busy, vars, fwlpVars, workVars
  <2>5. ImageMatches'
    BY <1>21 DEF IInv, ImageMatches, vars, fwlpVars, workVars, ghostVars
  <2>6. OutcomeSettled'
    BY <1>21 DEF IInv, OutcomeSettled, Outcome, vars, fwlpVars, workVars, ghostVars
  <2>7. ReleaseWaits'
    BY <1>21 DEF IInv, ReleaseWaits, Busy, vars, workVars, userVars
  <2> QED BY <2>1, <2>2, <2>3, <2>4, <2>5, <2>6, <2>7 DEF IInv
<1> QED BY <1>1, <1>2, <1>3, <1>4, <1>5, <1>6, <1>7, <1>8, <1>9, <1>10, <1>11, <1>12, <1>13, <1>14, <1>15, <1>16, <1>17, <1>18, <1>19, <1>20, <1>21 DEF Next, User, WorkerOwn, AnyDriver

\* With a user that lets the worker return, every step keeps QInv.
LEMMA StepQInv ==
  ASSUME IInv, QInv, Client = "quiesced", [Next]_vars
  PROVE  QInv'
<1>1. CASE fpga_image_load_open
  BY <1>1 DEF QInv, Busy, fpga_image_load_open, fwlpVars, workVars, ghostVars
<1>2. CASE \E sz \in Sizes : ioctl_write(sz)
  BY <1>2 DEF IInv, QInv, Busy, TypeOK, ioctl_write, ClientMayWrite, userVars, WorkDone
<1>3. CASE ioctl_write_badfd
  BY <1>3 DEF QInv, Busy, ioctl_write_badfd, ClientMayWrite, workVars, userVars, ghostVars, WorkDone
<1>4. CASE ioctl_cancel
  BY <1>4 DEF QInv, Busy, ioctl_cancel, fwlpVars, workVars, userVars, ghostVars
<1>5. CASE fpga_image_load_release
  BY <1>5 DEF IInv, QInv, Busy, TypeOK, Flushers, fpga_image_load_release, fwlpVars, workVars,
     ghostVars
<1>6. CASE release_flushed
  BY <1>6 DEF QInv, Busy, release_flushed, fwlpVars, workVars, ghostVars
<1>7. CASE fpga_image_load_unregister
  BY <1>7 DEF IInv, QInv, Busy, TypeOK, ProgressMatches, fpga_image_load_unregister, FlushCalled,
     fwlpVars, workVars, ghostVars
<1>8. CASE unregister_flushed
  BY <1>8 DEF IInv, QInv, Busy, TypeOK, Flushers, unregister_flushed, fwlpVars, workVars, ghostVars
<1>9. CASE fw_upload_main
  BY <1>9 DEF QInv, Busy, fw_upload_main, Flushers, ghostVars
<1>10. CASE transfer
  BY <1>10 DEF QInv, Busy, transfer, userVars, ghostVars
<1>11. CASE transfer_loop
  BY <1>11 DEF QInv, Busy, transfer_loop, fwlpVars, userVars, ghostVars
<1>12. CASE program
  BY <1>12 DEF QInv, Busy, program, userVars, ghostVars
<1>13. CASE putdev_exit
  BY <1>13 DEF QInv, Busy, putdev_exit, userVars, ghostVars
<1>14. CASE fw_upload_prog_complete
  <2>1. finished = uploads /\ uploads # NULL
    BY <1>14 DEF QInv, IInv, OneUpload, Busy, fw_upload_prog_complete, NULL
  <2>2. signalled' = 1..uploads'
    <3>1. signalled = 1..(uploads - 1) /\ uploads \in Nat \ {0}
      BY <1>14, ImageLoadAssumption DEF QInv, IInv, TypeOK, OneUpload, Busy, fw_upload_prog_complete
    <3>2. signalled' = signalled \cup {uploads} /\ uploads' = uploads
      BY <1>14, <2>1 DEF fw_upload_prog_complete
    <3> QED BY <3>1, <3>2
  <2> QED BY <1>14, <2>1, <2>2 DEF QInv, fw_upload_prog_complete, Busy, userVars, IInv, OneUpload, Resting
<1>15. CASE eventfd_put
  <2>1. finished = uploads /\ uploads # NULL /\ ~pending
    BY <1>15 DEF QInv, IInv, ProgressMatches, Busy, Idle, eventfd_put, NULL, TypeOK, OneUpload
  <2>2. /\ flush["unregister"] # "queued" => flush'["unregister"] # "queued"
        /\ flush["unregister"] = "no" => flush'["unregister"] = "no"
    BY <1>15 DEF IInv, TypeOK, eventfd_put, Flushers
  <2> QED BY <1>15, <2>1, <2>2 DEF QInv, eventfd_put, Busy, ghostVars
<1>16. CASE \E err \in Err : prepare_returns(err)
  BY <1>16 DEF QInv, Busy, prepare_returns, userVars, ghostVars
<1>17. CASE \E err \in Err, n \in 0..wsize : write_returns(err, n)
  BY <1>17 DEF QInv, Busy, write_returns, userVars, ghostVars
<1>18. CASE \E err \in Err : poll_complete_returns(err)
  BY <1>18 DEF QInv, Busy, poll_complete_returns, userVars, ghostVars
<1>19. CASE cleanup_returns
  BY <1>19 DEF QInv, Busy, cleanup_returns, fwlpVars, userVars, ghostVars
<1>20. CASE prepare_forgets_cancel
  BY <1>20 DEF QInv, Busy, prepare_forgets_cancel, fwlpVars, workVars, userVars, ghostVars
<1>21. CASE UNCHANGED vars
  BY <1>21 DEF QInv, Busy, vars, fwlpVars, workVars, userVars, ghostVars
<1> QED BY <1>1, <1>2, <1>3, <1>4, <1>5, <1>6, <1>7, <1>8, <1>9, <1>10, <1>11, <1>12, <1>13, <1>14, <1>15, <1>16, <1>17, <1>18, <1>19, <1>20, <1>21 DEF Next, User, WorkerOwn, AnyDriver

-----------------------------------------------------------------------------
\* IInv holds of every upload of a user that waits for the eventfd of one before it
\* starts the next, however the ioctls, the worker and the driver interleave.
THEOREM UploadInvariance ==
  ASSUME Client # "any"
  PROVE  Spec => []IInv
<1>1. Init => IInv
  BY InitIInv
<1>2. IInv /\ [Next]_vars => IInv'
  BY StepIInv
<1> QED BY <1>1, <1>2, PTL DEF Spec

\* With a user that also lets the worker return, the eventfd stays installed and
\* the worker never faults.
THEOREM QuiescedInvariance ==
  ASSUME Client = "quiesced"
  PROVE  Spec => [](IInv /\ QInv)
<1>1. Init => IInv /\ QInv
  BY InitIInv
<1>2. IInv /\ QInv /\ [Next]_vars => (IInv /\ QInv)'
  BY StepIInv, StepQInv
<1> QED BY <1>1, <1>2, PTL DEF Spec

\* get_device of the write ioctl and put_device of putdev_exit pair up on every
\* path through fw_upload_main.
THEOREM ReferencesBalance ==
  ASSUME Client # "any"
  PROVE  Spec => []RefsBalanced
<1>1. IInv => RefsBalanced
  BY DEF IInv
<1> QED BY <1>1, UploadInvariance, PTL

\* fw_upload_main stays inside of the image, and the progress, the error and the
\* remaining size that STATUS reports are true to what was done.
THEOREM UploadIsTrue ==
  ASSUME Client # "any"
  PROVE  Spec => []UploadTrue
<1>1. IInv => UploadTrue
  BY DEF UploadTrue, WholeImage, SuccessMeansWritten, ErrorPhaseMatches, IInv, TypeOK,
     ProgressMatches, ImageMatches, OutcomeSettled, Outcome, Busy, Idle, BeforePut, OpPcs, WorkerPcs
<1> QED BY <1>1, UploadInvariance, PTL

\* fpga_image_load_release returns only when the worker is done with the upload.
THEOREM CloseIsLast ==
  ASSUME Client # "any"
  PROVE  Spec => []CloseWaits
<1>1. IInv => CloseWaits
  BY DEF IInv, ReleaseWaits, CloseWaits
<1> QED BY <1>1, UploadInvariance, PTL

\* Neither fpga_image_load_release nor fpga_image_load_unregister returns while an
\* operation of the driver runs or is going to run.
THEOREM StopsAreLast ==
  ASSUME Client = "quiesced"
  PROVE  Spec => []StopsWait
<1>1. IInv /\ QInv => StopsWait
  BY DEF IInv, QInv, ReleaseWaits, StopsWait, CloseWaits, NoOpAfterRemove, Busy, OpPcs
<1> QED BY <1>1, QuiescedInvariance, PTL

\* fw_upload_prog_complete signals the eventfd of the upload it ends.
THEOREM EventfdIsOwn ==
  ASSUME Client = "quiesced"
  PROVE  Spec => []EventfdInstalled
<1>1. IInv /\ QInv => EventfdInstalled
  BY DEF QInv, EventfdInstalled, Busy
<1> QED BY <1>1, QuiescedInvariance, PTL

-----------------------------------------------------------------------------
\* The uploads signalled are all accepted ones but the one under way.
LEMMA SignalledCount ==
  IInv /\ QInv =>
    /\ uploads \in Nat
    /\ ~Busy => Cardinality(signalled) = uploads
    /\ Busy => Cardinality(signalled) = uploads - 1
<1> SUFFICES ASSUME IInv, QInv
             PROVE  /\ uploads \in Nat
                    /\ ~Busy => Cardinality(signalled) = uploads
                    /\ Busy => Cardinality(signalled) = uploads - 1
  OBVIOUS
<1>1. uploads \in Nat
  BY ImageLoadAssumption DEF IInv, TypeOK
<1>2. CASE ~Busy
  <2>1. Cardinality(1..uploads) = uploads
    BY <1>1, FS_Interval
  <2> QED BY <1>1, <1>2, <2>1 DEF QInv
<1>3. CASE Busy
  <2>1. uploads > 0
    BY <1>3 DEF IInv, OneUpload, Busy
  <2>2. Cardinality(1..(uploads - 1)) = uploads - 1
    BY <1>1, <2>1, FS_Interval
  <2> QED BY <1>1, <1>3, <2>1, <2>2 DEF QInv
<1> QED BY <1>1, <1>2, <1>3

\* The framework implements UploadSpec (its safety part): the write ioctl accepts an
\* upload, fw_upload_prog_complete reports it, and every other step is invisible.
THEOREM ImplementsUploads ==
  ASSUME Client = "quiesced"
  PROVE  Spec => Abstract!Spec
<1>1. Init => Abstract!Init
  BY FS_EmptySet DEF Init, Abstract!Init, Idle
<1>2. ASSUME IInv, QInv, IInv', QInv', [Next]_vars
      PROVE  [Abstract!Next]_(Abstract!absVars)
  <2>1. ASSUME NEW sz \in Sizes, ioctl_write(sz)
        PROVE  Abstract!Accept
    <3>1. ~Busy
      BY <1>2, <2>1 DEF ioctl_write, ClientMayWrite, WorkDone, Busy
    <3>2. Busy' /\ uploads' = uploads + 1 /\ ~Idle'
      BY <1>2, <2>1 DEF ioctl_write, Busy, Idle
    <3>3. Cardinality(signalled) = uploads /\ Cardinality(signalled)' = Cardinality(signalled)
      BY <1>2, <2>1, <3>1, SignalledCount DEF ioctl_write
    <3>4. Idle
      BY <1>2, <3>1 DEF IInv, ProgressMatches
    <3> QED BY <3>2, <3>3, <3>4 DEF Abstract!Accept
  <2>2. ASSUME fw_upload_prog_complete
        PROVE  Abstract!Report
    <3>1. Busy /\ ~Idle
      BY <1>2, <2>2 DEF fw_upload_prog_complete, Busy, IInv, ProgressMatches
    <3>2. Idle' /\ ~Busy' /\ uploads' = uploads
      BY <1>2, <2>2 DEF fw_upload_prog_complete, Idle, Busy, IInv, OneUpload, Resting
    <3>3. (IInv /\ QInv /\ ~Busy => Cardinality(signalled) = uploads)'
      BY SignalledCount, PTL
    <3>4. Cardinality(signalled)' = uploads'
      BY <1>2, <3>2, <3>3
    <3> QED BY <3>1, <3>2, <3>4 DEF Abstract!Report
  <2>3. ASSUME UNCHANGED <<uploads, signalled>>, (Idle' <=> Idle)
        PROVE  UNCHANGED Abstract!absVars
    BY <2>3 DEF Abstract!absVars
  <2>4. CASE fw_upload_main \/ transfer \/ program
    <3>1. ~Idle
      BY <1>2, <2>4 DEF fw_upload_main, transfer, program, Busy, IInv, ProgressMatches
    <3>2. ~Idle' /\ UNCHANGED <<uploads, signalled>>
      BY <2>4 DEF fw_upload_main, transfer, program, Idle, ghostVars
    <3> QED BY <2>3, <3>1, <3>2
  <2>5. CASE \/ fpga_image_load_open \/ ioctl_write_badfd \/ ioctl_cancel \/ fpga_image_load_release
             \/ release_flushed \/ fpga_image_load_unregister \/ unregister_flushed
             \/ prepare_forgets_cancel
    <3>1. UNCHANGED <<uploads, signalled, progress>>
      BY <2>5 DEF fpga_image_load_open, ioctl_write_badfd, ioctl_cancel, fpga_image_load_release, release_flushed,
        fpga_image_load_unregister, unregister_flushed, prepare_forgets_cancel, ghostVars, fwlpVars
    <3> QED BY <2>3, <3>1 DEF Idle
  <2>6. CASE \/ transfer_loop \/ putdev_exit \/ eventfd_put \/ cleanup_returns
             \/ \E err \in Err : prepare_returns(err) \/ poll_complete_returns(err)
             \/ \E err \in Err, n \in 0..wsize : write_returns(err, n)
             \/ UNCHANGED vars
    <3>1. UNCHANGED <<uploads, signalled, progress>>
      BY <2>6 DEF transfer_loop, putdev_exit, eventfd_put, cleanup_returns, prepare_returns, poll_complete_returns,
        write_returns, vars, ghostVars, fwlpVars
    <3> QED BY <2>3, <3>1 DEF Idle
  <2> QED BY <1>2, <2>1, <2>2, <2>3, <2>4, <2>5, <2>6 DEF Next, User, WorkerOwn, AnyDriver, Abstract!Next
<1> QED BY <1>1, <1>2, QuiescedInvariance, PTL DEF Spec, Abstract!Spec
=============================================================================
