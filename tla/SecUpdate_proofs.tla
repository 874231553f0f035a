-------------------------- MODULE SecUpdate_proofs --------------------------
(***************************************************************************)
(* Proofs about SecUpdate, for any image sizes, staging area, faults and   *)
(* number of uploads: the driver with the BMC is a driver as ImageLoad     *)
(* assumes it, it gives back what it takes, and a success or a cancel      *)
(* means what it says.                                                     *)
(***************************************************************************)
EXTENDS SecUpdate, ImageLoad_proofs

\* The steps of prepare behind the lock, and those with the firmware state set.
PrepareLocked == sop \in {"idle", "init", "init_wait", "ready", "check_cancel"}
PrepareSet == sop \in {"init", "init_wait", "ready", "check_cancel"}
Prepared == pc \in {"transfer", "loop", "write", "program", "poll", "cleanup"}

\* The driver is in the operation the worker called.
OpMatches ==
  \/ sop = "start"
  \/ (sop = "lock" \/ PrepareLocked) /\ pc = "prepare"
  \/ sop = "data" /\ pc = "write"
  \/ sop \in {"send", "send_wait", "done_wait"} /\ pc = "poll"

\* The flash is locked from the lock in prepare to cleanup, or to the error exit
\* of prepare; a reader has the mutex only while it is not.
LockMatches ==
  /\ flash_busy <=> Bulk /\ (PrepareLocked \/ Prepared)
  /\ reader => Bulk /\ ~flash_busy

\* No retimer load can come in the way: the board has none, or none is asked for.
NoRetimer == Board = "N3000" => MaxLoads = 0

\* The firmware state is that of an update only during one, and nobody else
\* sets it during the update when there is no retimer load.
StateMatches ==
  /\ ~(PrepareSet \/ Prepared) => fw_state \in {"NORMAL", "RETIMER"}
  /\ ~Handshake => fw_state = "NORMAL"
  /\ loads \in Nat
  /\ NoRetimer => retimer = "none"
  /\ NoRetimer /\ Handshake /\ PrepareSet => fw_state = "PREPARE"
  /\ NoRetimer /\ Handshake /\ pc \in {"transfer", "loop", "write"} => fw_state = "WRITE"

LockInv == OpMatches /\ LockMatches /\ StateMatches

-----------------------------------------------------------------------------
\* The parts of the type invariant.
OpType ==
  /\ sop \in {"start", "lock", "idle", "init", "init_wait", "ready", "check_cancel",
              "data", "send", "send_wait", "done_wait"}
  /\ fw_state \in FwState
  /\ flash_busy \in BOOLEAN
DoorbellType ==
  doorbell \in [request : BOOLEAN, pkvl : BOOLEAN, prog : RsuProg, host : HostStat, stat : RsuStat]
StagedType ==
  /\ staged \in [of : 0..MaxUploads, size : 0 .. (WordMod - 1), blocks : 0..StagingSize]
  /\ programmed \in 0..MaxUploads
OthersType ==
  /\ late \in BOOLEAN
  /\ reader \in BOOLEAN
  /\ retimer \in {"none", "check", "trigger", "wait", "exit"}
  /\ loads \in 0..MaxLoads

Empty == [of |-> 0, size |-> 0, blocks |-> 0]

\* prepare has seen the BMC ready, and the image is not sent off.
Transferring == sop = "check_cancel" \/ pc \in {"transfer", "loop", "write", "program"}
                                     \/ (pc = "poll" /\ sop \in {"start", "send"})
Sent == sop \in {"send_wait", "done_wait"}

\* The doorbell, whatever the driver is doing.
DoorbellSound ==
  /\ doorbell.request \/ rsu_prog = "PREPARE" => doorbell.host = "IDLE"
  /\ rsu_prog = "READY" /\ doorbell.host = "WRITE_DONE" => staged.of # 0 /\ staged.blocks = staged.size

\* From the request on the BMC has nothing to do but this update.
DoorbellOwned ==
  /\ PrepareSet \/ Transferring => rsu_prog \notin {"BUSY", "UPDATE_CANCEL"}
  /\ PrepareSet /\ rsu_prog = "READY" => staged = Empty /\ doorbell.host = "IDLE"
  /\ sop \in {"init_wait", "ready"} \/ Transferring => doorbell.host = "IDLE"
  /\ Sent => doorbell.host = "WRITE_DONE"
  /\ sop = "ready" \/ Transferring \/ Sent \/ pc = "cleanup" => ~doorbell.request
  /\ sop \in {"init_wait", "ready"} /\ ~doorbell.request /\ rsu_status_ok => rsu_prog \in {"PREPARE", "READY"}
  /\ Transferring \/ Sent => rsu_prog # "PREPARE"
  /\ Transferring /\ rsu_status_ok => rsu_prog = "READY"

\* The staging area holds what was transferred of this upload.
StagedMatches ==
  /\ PrepareLocked \/ Prepared => size \in 1..StagingSize
  /\ sop = "check_cancel" => staged = Empty
  /\ pc \in {"transfer", "loop", "write", "program", "poll"} =>
       staged.blocks = offset /\ (offset > 0 => staged.of = uploads /\ staged.size = size)

\* After the image was sent off, a good status means that it is programmed.
SentMatches ==
  Sent /\ rsu_status_ok =>
    \/ rsu_prog \in {"READY", "BUSY"}
    \/ rsu_prog \in {"RSU_DONE", "PKVL_DONE", "IDLE"} /\ programmed = uploads

\* A cancel that came in time is seen by an operation.
CancelSeen == pc = "poll" /\ sop # "start" /\ cancel_request => late

Success ==
  /\ programmed = uploads
  /\ ~doorbell.request /\ rsu_prog \in {"RSU_DONE", "PKVL_DONE", "IDLE"}
  /\ cancel_request => late

SuccessSettled ==
  err_code = "NONE" /\ ( \/ pc \in {"cleanup", "put", "complete", "stuck"}
                         \/ pc \in {"none", "evput", "oops"} /\ ~pending /\ uploads > 0 ) => Success

BmcInv == DoorbellSound /\ DoorbellOwned /\ StagedMatches /\ SentMatches /\ CancelSeen /\ SuccessSettled

TypeInv == OpType /\ DoorbellType /\ StagedType /\ OthersType

SecIInv == IInv /\ TypeInv /\ LockInv /\ BmcInv

\* The write operation is called with something to write.
SizeInv ==
  /\ remaining_size \in 0 .. (WordMod - 1)
  /\ wsize \in 0 .. (WordMod - 1)
  /\ pc = "write" => wsize > 0

\* Every result an operation of the driver can have is one the framework handles.
LEMMA Results ==
  /\ \A e \in {"NONE", "RW_ERROR", "BUSY", "HW_ERROR", "TIMEOUT", "INVALID_SIZE",
               "WEAROUT", "CANCELED"} : e \in Err
  /\ \A e \in Err : Access(e) \subseteq Err
  /\ \A e \in Err, c \in BOOLEAN : WaitFor(c, e) \subseteq Err
  /\ rsu_cancel_result \subseteq Err
<1>1. \A e \in {"NONE", "RW_ERROR", "BUSY", "HW_ERROR", "TIMEOUT", "INVALID_SIZE",
               "WEAROUT", "CANCELED"} : e \in Err
  BY ImageLoadAssumption, SecUpdateAssumption DEF Err
<1>2. RwError \subseteq Err
  BY <1>1 DEF RwError
<1> QED BY <1>1, <1>2 DEF Access, WaitFor, rsu_cancel_result

\* A step of the driver returns from an operation as ImageLoad lets any driver, forgets a
\* cancel at the start of prepare, or is inside of an operation.
LEMMA DriverStep ==
  ASSUME SizeInv, SecDriver
  PROVE  AnyDriver \/ prepare_forgets_cancel \/ UNCHANGED vars
<1>1. CASE prepare_begin
  BY <1>1 DEF prepare_begin
<1>2. CASE prepare_lock
  BY <1>2, Results DEF prepare_lock, AnyDriver
<1>3. CASE rsu_check_idle
  BY <1>3, Results DEF rsu_check_idle, AnyDriver
<1>4. CASE rsu_update_init
  BY <1>4, Results DEF rsu_update_init, AnyDriver, prepare_exit
<1>5. CASE rsu_update_init_wait
  BY <1>5, Results DEF SizeInv, rsu_update_init_wait, AnyDriver, prepare_exit, poll_fails,
     rsu_start_done
<1>6. CASE rsu_prog_ready
  BY <1>6, Results DEF SizeInv, rsu_prog_ready, AnyDriver, prepare_exit, poll_fails, rsu_start_done
<1>7. CASE prepare_end
  BY <1>7, Results DEF prepare_end, AnyDriver, prepare_exit
<1>8. CASE m10bmc_sec_fw_write
  BY <1>8, Results DEF SizeInv, m10bmc_sec_fw_write, AnyDriver
<1>9. CASE m10bmc_sec_write
  <2>1. PICK err \in Access("NONE") : write_returns(err, 1)
    BY <1>9 DEF m10bmc_sec_write
  <2>2. pc = "write"
    BY <2>1 DEF write_returns
  <2>3. 1 \in 0..wsize
    BY <2>2 DEF SizeInv
  <2> QED BY <2>1, <2>3, Results DEF AnyDriver
<1>10. CASE m10bmc_sec_poll_complete
  BY <1>10, Results DEF m10bmc_sec_poll_complete, AnyDriver
<1>11. CASE rsu_send_data
  BY <1>11, Results DEF rsu_send_data, AnyDriver, poll_fails
<1>12. CASE rsu_send_data_wait
  BY <1>12, Results DEF SizeInv, rsu_send_data_wait, AnyDriver, prepare_exit, poll_fails,
     rsu_start_done
<1>13. CASE rsu_check_complete
  BY <1>13, Results DEF SizeInv, rsu_check_complete, AnyDriver, prepare_exit, poll_fails,
     rsu_start_done
<1>14. CASE m10bmc_sec_cleanup
  BY <1>14 DEF m10bmc_sec_cleanup, AnyDriver
<1> QED BY <1>1, <1>2, <1>3, <1>4, <1>5, <1>6, <1>7, <1>8, <1>9, <1>10, <1>11, <1>12, <1>13, <1>14
           DEF SecDriver

\* A step of the composition is a step of the framework or invisible to it.
LEMMA SecStep ==
  ASSUME SizeInv, [SecNext]_allVars
  PROVE  [Next]_vars
<1>1. CASE SecUser
  BY <1>1 DEF SecUser, Next
<1>2. CASE SecWorkerOwn
  BY <1>2 DEF SecWorkerOwn, Next
<1>3. CASE SecDriver
  BY <1>3, DriverStep DEF Next
<1>4. CASE Bmc \/ Others
  BY <1>4 DEF Bmc, Others
<1>5. CASE UNCHANGED allVars
  BY <1>5 DEF allVars
<1> QED BY <1>1, <1>2, <1>3, <1>4, <1>5 DEF SecNext

\* The framework's steps keep the sizes, so that the write operation has a block to write.
LEMMA SizeStep ==
  ASSUME SizeInv, [Next]_vars
  PROVE  SizeInv'
<1>1. CASE fpga_image_load_open
  BY <1>1 DEF SizeInv, fpga_image_load_open, fwlpVars, workVars
<1>2. CASE \E sz \in Sizes : ioctl_write(sz)
  BY <1>2, ImageLoadAssumption DEF SizeInv, ioctl_write
<1>3. CASE ioctl_write_badfd
  BY <1>3 DEF SizeInv, ioctl_write_badfd, workVars
<1>4. CASE ioctl_cancel
  BY <1>4 DEF SizeInv, ioctl_cancel, fwlpVars, workVars
<1>5. CASE fpga_image_load_release
  BY <1>5 DEF SizeInv, fpga_image_load_release, fwlpVars, workVars
<1>6. CASE release_flushed
  BY <1>6 DEF SizeInv, release_flushed, fwlpVars, workVars
<1>7. CASE fpga_image_load_unregister
  BY <1>7 DEF SizeInv, fpga_image_load_unregister, fwlpVars, workVars
<1>8. CASE unregister_flushed
  BY <1>8 DEF SizeInv, unregister_flushed, fwlpVars, workVars
<1>9. CASE fw_upload_main
  BY <1>9 DEF SizeInv, fw_upload_main
<1>10. CASE transfer
  BY <1>10 DEF SizeInv, transfer
<1>11. CASE transfer_loop
  BY <1>11 DEF SizeInv, transfer_loop, fwlpVars
<1>12. CASE program
  BY <1>12 DEF SizeInv, program
<1>13. CASE putdev_exit
  BY <1>13 DEF SizeInv, putdev_exit
<1>14. CASE fw_upload_prog_complete
  BY <1>14 DEF SizeInv, fw_upload_prog_complete
<1>15. CASE eventfd_put
  BY <1>15 DEF SizeInv, eventfd_put
<1>16. CASE \E err \in Err : prepare_returns(err)
  BY <1>16 DEF SizeInv, prepare_returns
<1>17. CASE \E err \in Err, n \in 0..wsize : write_returns(err, n)
  BY <1>17, ImageLoadAssumption DEF SizeInv, write_returns
<1>18. CASE \E err \in Err : poll_complete_returns(err)
  BY <1>18 DEF SizeInv, poll_complete_returns
<1>19. CASE cleanup_returns
  BY <1>19 DEF SizeInv, cleanup_returns, fwlpVars
<1>20. CASE prepare_forgets_cancel
  BY <1>20 DEF SizeInv, prepare_forgets_cancel, fwlpVars, workVars
<1>21. CASE UNCHANGED vars
  BY <1>21 DEF vars, SizeInv, fwlpVars, workVars
<1> QED BY <1>1, <1>2, <1>3, <1>4, <1>5, <1>6, <1>7, <1>8, <1>9, <1>10, <1>11, <1>12, <1>13, <1>14,
           <1>15, <1>16, <1>17, <1>18, <1>19, <1>20, <1>21 DEF Next, User, WorkerOwn, AnyDriver

\* m10bmc_sec_prepare, _write, _poll_complete, _cancel and _cleanup are a lower-level
\* driver as fpga-image-load.c assumes it, on every board and with every fault: the
\* composition implements the framework (its safety part).
THEOREM ImplementsFramework == SecSpec => Spec
<1>1. SecInit => Init /\ SizeInv
  BY ImageLoadAssumption DEF SecInit, Init, SizeInv
<1>2. SizeInv /\ [SecNext]_allVars => SizeInv' /\ [Next]_vars
  BY SecStep, SizeStep
<1> QED BY <1>1, <1>2, PTL DEF SecSpec, Spec

-----------------------------------------------------------------------------
(* The locks and the firmware state, whatever the user does.                *)

\* A step of the user leaves the worker and the driver where they are.
LEMMA UserFrame ==
  ASSUME SecUser
  PROVE  /\ UNCHANGED <<pc, offset, sop, fw_state, flash_busy, doorbell, staged,
                        programmed, reader, retimer, loads>>
         /\ \/ UNCHANGED <<uploads, size, err_code, pending>>
            \/ \E sz \in Sizes : ioctl_write(sz) /\ cancel_request' = cancel_request
         /\ cancel_request' = cancel_request \/ (cancel_request' /\ ~Idle /\ pc # "stuck")
<1>1. CASE fpga_image_load_open
  BY <1>1 DEF SecUser, fpga_image_load_open, fwlpVars, workVars, ghostVars, secVars, bmcVars,
     otherVars
<1>2. CASE \E sz \in Sizes : ioctl_write(sz)
  BY <1>2 DEF SecUser, ioctl_write, fwlpVars, workVars, userVars, ghostVars, secVars, bmcVars,
     otherVars, FileInUse, LockFree
<1>3. CASE ioctl_write_badfd
  BY <1>3 DEF SecUser, ioctl_write_badfd, workVars, ghostVars, secVars, bmcVars, otherVars
<1>4. CASE ioctl_cancel
  BY <1>4 DEF SecUser, ioctl_cancel, fwlpVars, workVars, userVars, ghostVars, secVars, bmcVars,
     otherVars, FileInUse, LockFree
<1>5. CASE fpga_image_load_release
  BY <1>5 DEF SecUser, fpga_image_load_release, fwlpVars, workVars, userVars, ghostVars, secVars,
     bmcVars, otherVars, FileInUse, LockFree
<1>6. CASE release_flushed
  BY <1>6 DEF SecUser, release_flushed, fwlpVars, workVars, ghostVars, secVars, bmcVars, otherVars
<1>7. CASE fpga_image_load_unregister
  BY <1>7 DEF SecUser, fpga_image_load_unregister, fwlpVars, workVars, userVars, ghostVars, secVars,
     bmcVars, otherVars, FileInUse, LockFree
<1>8. CASE unregister_flushed
  BY <1>8 DEF SecUser, unregister_flushed, fwlpVars, workVars, ghostVars, secVars, bmcVars,
     otherVars
<1> QED BY <1>1, <1>2, <1>3, <1>4, <1>5, <1>6, <1>7, <1>8 DEF SecUser, User

\* The locks' invariant speaks of nothing else.
LEMMA LockFrame ==
  ASSUME LockInv, UNCHANGED <<pc, sop, fw_state, flash_busy, reader, retimer, loads>>
  PROVE  LockInv'
  BY DEF LockInv, OpMatches, LockMatches, StateMatches, PrepareLocked, Prepared, PrepareSet

\* Every step takes and releases flash and firmware state in step with the operations.
LEMMA LockStep ==
  ASSUME LockInv, [SecNext]_allVars
  PROVE  LockInv'
<1>1. CASE SecUser
  BY <1>1, UserFrame, LockFrame
<1>2. CASE Bmc
  BY <1>2, LockFrame DEF Bmc, vars, secVars, otherVars, workVars
<1>3. CASE UNCHANGED allVars
  BY <1>3, LockFrame DEF allVars, vars, secVars, otherVars, workVars
<1>4. ASSUME SecWorkerOwn PROVE LockInv'
  <2>1. CASE fw_upload_main
    BY <1>4, <2>1 DEF SecWorkerOwn, fw_upload_main, LockInv, OpMatches, LockMatches, StateMatches,
       PrepareLocked, Prepared, PrepareSet, secVars, otherVars
  <2>2. CASE transfer
    BY <1>4, <2>2 DEF SecWorkerOwn, transfer, LockInv, OpMatches, LockMatches, StateMatches,
       Prepared, PrepareSet, secVars, otherVars
  <2>3. CASE transfer_loop
    BY <1>4, <2>3 DEF SecWorkerOwn, transfer_loop, LockInv, OpMatches, LockMatches, StateMatches,
       Prepared, PrepareSet, secVars, otherVars
  <2>4. CASE program
    BY <1>4, <2>4 DEF SecWorkerOwn, program, LockInv, OpMatches, LockMatches, StateMatches,
       Prepared, PrepareSet, secVars, otherVars
  <2>5. CASE putdev_exit
    BY <1>4, <2>5 DEF SecWorkerOwn, putdev_exit, LockInv, OpMatches, LockMatches, StateMatches,
       PrepareLocked, Prepared, PrepareSet, secVars, otherVars
  <2>6. CASE fw_upload_prog_complete
    BY <1>4, <2>6 DEF SecWorkerOwn, fw_upload_prog_complete, LockInv, OpMatches, LockMatches,
       StateMatches, PrepareLocked, Prepared, PrepareSet, secVars, otherVars
  <2>7. CASE eventfd_put
    BY <1>4, <2>7 DEF SecWorkerOwn, eventfd_put, LockInv, OpMatches, LockMatches, StateMatches,
       PrepareLocked, Prepared, PrepareSet, secVars, otherVars
  <2> QED BY <1>4, <2>1, <2>2, <2>3, <2>4, <2>5, <2>6, <2>7 DEF SecWorkerOwn, WorkerOwn
<1>5. CASE prepare_begin
  <2>1. OpMatches'
    BY <1>5 DEF OpMatches, prepare_begin, prepare_forgets_cancel, workVars
  <2>2. LockMatches'
    BY <1>5 DEF LockInv, LockMatches, PrepareLocked, Prepared, prepare_begin,
       prepare_forgets_cancel, otherVars, workVars
  <2>3. StateMatches'
    BY <1>5 DEF LockInv, StateMatches, PrepareSet, Prepared, prepare_begin, prepare_forgets_cancel,
       otherVars, workVars
  <2> QED BY <2>1, <2>2, <2>3 DEF LockInv
<1>6. CASE prepare_lock
  <2>1. OpMatches'
    BY <1>6 DEF LockInv, OpMatches, PrepareLocked, prepare_lock, vars, workVars
  <2>2. LockMatches'
    <3>1. CASE UNCHANGED <<pc, reader>> /\ flash_lock_write /\ sop' = "idle"
      <4>1. flash_busy' <=> Bulk
        BY <3>1 DEF flash_lock_write, Bulk
      <4>2. reader' => Bulk /\ ~flash_busy'
        BY <3>1 DEF LockInv, LockMatches, flash_lock_write, FlashMutexFree
      <4> QED BY <3>1, <4>1, <4>2 DEF LockMatches, PrepareLocked
    <3>2. CASE pc' = "put" /\ sop' = "start" /\ UNCHANGED <<flash_busy, reader>>
      <4>1. ~flash_busy
        BY <1>6 DEF LockInv, LockMatches, OpMatches, PrepareLocked, Prepared, prepare_lock
      <4> QED BY <3>2, <4>1 DEF LockInv, LockMatches, PrepareLocked, Prepared
    <3> QED BY <1>6, <3>1, <3>2 DEF prepare_lock, prepare_returns, otherVars, vars, workVars
  <2>3. StateMatches'
    BY <1>6 DEF LockInv, StateMatches, PrepareSet, Prepared, prepare_lock, prepare_returns,
       otherVars, vars, workVars
  <2> QED BY <2>1, <2>2, <2>3 DEF LockInv
<1>7. CASE rsu_check_idle
  <2>1. OpMatches'
    BY <1>7 DEF LockInv, OpMatches, PrepareLocked, rsu_check_idle, vars, workVars
  <2>2. LockMatches'
    BY <1>7 DEF LockInv, LockMatches, PrepareLocked, Prepared, rsu_check_idle, prepare_returns,
       flash_unlock_write, otherVars
  <2>3. StateMatches'
    BY <1>7 DEF LockInv, StateMatches, PrepareSet, Prepared, OpMatches, rsu_check_idle,
       m10bmc_fw_state_set, prepare_returns, otherVars, vars, workVars
  <2> QED BY <2>1, <2>2, <2>3 DEF LockInv
<1>8. CASE rsu_update_init
  <2>1. OpMatches'
    BY <1>8 DEF LockInv, OpMatches, PrepareLocked, rsu_update_init, prepare_exit, vars, workVars
  <2>2. LockMatches'
    BY <1>8 DEF LockInv, LockMatches, PrepareLocked, Prepared, rsu_update_init, prepare_exit,
       otherVars, prepare_returns, flash_unlock_write
  <2>3. StateMatches'
    BY <1>8 DEF LockInv, StateMatches, PrepareSet, rsu_update_init, prepare_exit, otherVars,
       prepare_returns, m10bmc_fw_state_set, vars, workVars
  <2> QED BY <2>1, <2>2, <2>3 DEF LockInv
<1>9. CASE rsu_update_init_wait
  <2>1. OpMatches'
    BY <1>9 DEF LockInv, OpMatches, PrepareLocked, rsu_update_init_wait, prepare_exit, vars,
       workVars
  <2>2. LockMatches'
    BY <1>9 DEF LockInv, LockMatches, PrepareLocked, Prepared, rsu_update_init_wait, prepare_exit,
       otherVars, prepare_returns, flash_unlock_write
  <2>3. StateMatches'
    BY <1>9 DEF LockInv, StateMatches, PrepareSet, rsu_update_init_wait, prepare_exit, otherVars,
       prepare_returns, m10bmc_fw_state_set, vars, workVars
  <2> QED BY <2>1, <2>2, <2>3 DEF LockInv
<1>10. CASE rsu_prog_ready
  <2>1. OpMatches'
    BY <1>10 DEF LockInv, OpMatches, PrepareLocked, rsu_prog_ready, prepare_exit, vars, workVars
  <2>2. LockMatches'
    BY <1>10 DEF LockInv, LockMatches, PrepareLocked, Prepared, rsu_prog_ready, prepare_exit,
       otherVars, prepare_returns, flash_unlock_write
  <2>3. StateMatches'
    BY <1>10 DEF LockInv, StateMatches, PrepareSet, rsu_prog_ready, prepare_exit, otherVars,
       prepare_returns, m10bmc_fw_state_set, vars, workVars
  <2> QED BY <2>1, <2>2, <2>3 DEF LockInv
<1>11. CASE prepare_end
  <2>1. OpMatches'
    BY <1>11 DEF OpMatches, prepare_end, prepare_exit
  <2>2. LockMatches'
    BY <1>11 DEF LockInv, LockMatches, PrepareLocked, Prepared, prepare_end, rsu_cancel_result,
       prepare_exit, prepare_returns, otherVars, Access, flash_unlock_write, RwError
  <2>3. StateMatches'
    BY <1>11 DEF LockInv, StateMatches, PrepareSet, Prepared, prepare_end, rsu_cancel_result,
       prepare_exit, prepare_returns, m10bmc_fw_state_set, otherVars, Access, RwError
  <2> QED BY <2>1, <2>2, <2>3 DEF LockInv
<1>12. CASE m10bmc_sec_fw_write
  <2>1. OpMatches'
    BY <1>12 DEF OpMatches, m10bmc_sec_fw_write, vars, workVars
  <2>2. LockMatches'
    BY <1>12 DEF LockInv, LockMatches, Prepared, m10bmc_sec_fw_write, write_returns, otherVars,
       vars, workVars
  <2>3. StateMatches'
    BY <1>12 DEF LockInv, StateMatches, PrepareSet, Prepared, m10bmc_sec_fw_write, write_returns,
       otherVars, vars, workVars
  <2> QED BY <2>1, <2>2, <2>3 DEF LockInv
<1>13. CASE m10bmc_sec_write
  <2>1. OpMatches'
    BY <1>13 DEF OpMatches, m10bmc_sec_write
  <2>2. LockMatches'
    BY <1>13 DEF LockInv, LockMatches, Prepared, m10bmc_sec_write, write_returns, otherVars
  <2>3. StateMatches'
    BY <1>13 DEF LockInv, StateMatches, PrepareSet, Prepared, m10bmc_sec_write, write_returns,
       otherVars
  <2> QED BY <2>1, <2>2, <2>3 DEF LockInv
<1>14. CASE m10bmc_sec_poll_complete
  <2>1. OpMatches'
    BY <1>14 DEF OpMatches, m10bmc_sec_poll_complete, vars, workVars
  <2>2. LockMatches'
    BY <1>14 DEF LockInv, LockMatches, Prepared, m10bmc_sec_poll_complete, poll_complete_returns,
       otherVars, vars, workVars
  <2>3. StateMatches'
    BY <1>14 DEF LockInv, StateMatches, PrepareSet, Prepared, m10bmc_sec_poll_complete,
       poll_complete_returns, m10bmc_fw_state_set, otherVars, vars, workVars
  <2> QED BY <2>1, <2>2, <2>3 DEF LockInv
<1>15. CASE rsu_send_data
  <2>1. OpMatches'
    BY <1>15 DEF LockInv, OpMatches, PrepareLocked, rsu_send_data, poll_fails, vars, workVars
  <2>2. LockMatches'
    BY <1>15 DEF LockInv, LockMatches, PrepareLocked, Prepared, rsu_send_data, poll_fails,
       otherVars, poll_complete_returns, vars, workVars
  <2>3. StateMatches'
    BY <1>15 DEF LockInv, StateMatches, PrepareSet, Prepared, rsu_send_data, poll_fails, otherVars,
       poll_complete_returns, vars, workVars
  <2> QED BY <2>1, <2>2, <2>3 DEF LockInv
<1>16. CASE rsu_send_data_wait
  <2>1. OpMatches'
    BY <1>16 DEF LockInv, OpMatches, PrepareLocked, rsu_send_data_wait, poll_fails, vars, workVars
  <2>2. LockMatches'
    BY <1>16 DEF LockInv, LockMatches, PrepareLocked, Prepared, rsu_send_data_wait, poll_fails,
       otherVars, poll_complete_returns, vars, workVars
  <2>3. StateMatches'
    BY <1>16 DEF LockInv, StateMatches, PrepareSet, Prepared, rsu_send_data_wait, poll_fails,
       otherVars, poll_complete_returns, vars, workVars
  <2> QED BY <2>1, <2>2, <2>3 DEF LockInv
<1>17. CASE rsu_check_complete
  <2>1. OpMatches'
    BY <1>17 DEF OpMatches, rsu_check_complete
  <2>2. LockMatches'
    BY <1>17 DEF LockInv, LockMatches, Prepared, rsu_check_complete, poll_complete_returns,
       otherVars
  <2>3. StateMatches'
    BY <1>17 DEF LockInv, StateMatches, PrepareSet, Prepared, rsu_check_complete,
       poll_complete_returns, otherVars
  <2> QED BY <2>1, <2>2, <2>3 DEF LockInv
<1>18. CASE m10bmc_sec_cleanup
  <2>1. OpMatches'
    BY <1>18 DEF LockInv, OpMatches, m10bmc_sec_cleanup
  <2>2. LockMatches'
    BY <1>18 DEF LockInv, LockMatches, PrepareLocked, Prepared, OpMatches, m10bmc_sec_cleanup,
       flash_unlock_write, cleanup_returns, otherVars
  <2>3. StateMatches'
    BY <1>18 DEF LockInv, StateMatches, PrepareSet, OpMatches, m10bmc_sec_cleanup,
       m10bmc_fw_state_set, cleanup_returns, otherVars
  <2> QED BY <2>1, <2>2, <2>3 DEF LockInv
<1>19. ASSUME Others PROVE LockInv'
  <2>1. CASE retimer_begin
    BY <1>19, <2>1 DEF Others, vars, workVars, retimer_begin, m10bmc_fw_state_set, LockInv,
       OpMatches, LockMatches, StateMatches, PrepareLocked, Bulk, NoRetimer
  <2>2. CASE retimer_check_idle
    BY <1>19, <2>2 DEF Others, vars, workVars, retimer_check_idle, LockInv, OpMatches, LockMatches,
       StateMatches, PrepareLocked, Prepared, PrepareSet
  <2>3. CASE trigger_retimer_eeprom_load
    BY <1>19, <2>3 DEF Others, vars, workVars, trigger_retimer_eeprom_load, LockInv, OpMatches,
       LockMatches, StateMatches, PrepareLocked, Prepared, PrepareSet
  <2>4. CASE poll_retimer_done
    BY <1>19, <2>4 DEF Others, vars, workVars, poll_retimer_done, LockInv, OpMatches, LockMatches,
       StateMatches, PrepareLocked, Prepared, PrepareSet
  <2>5. CASE retimer_exit
    BY <1>19, <2>5 DEF Others, vars, workVars, retimer_exit, m10bmc_fw_state_set, LockInv,
       OpMatches, LockMatches, StateMatches, PrepareLocked, Prepared
  <2>6. CASE flash_read_begin
    BY <1>19, <2>6 DEF Others, vars, workVars, flash_read_begin, Bulk, LockInv, OpMatches,
       LockMatches, StateMatches, PrepareLocked, Prepared, Handshake
  <2>7. CASE flash_read_end
    BY <1>19, <2>7 DEF Others, vars, workVars, flash_read_end, LockInv, OpMatches, LockMatches,
       StateMatches, PrepareLocked, Bulk, Prepared, Handshake
  <2> QED BY <1>19, <2>1, <2>2, <2>3, <2>4, <2>5, <2>6, <2>7 DEF Others, OthersEnd
<1> QED BY <1>1, <1>2, <1>3, <1>4, <1>5, <1>6, <1>7, <1>8, <1>9, <1>10, <1>11, <1>12, <1>13, <1>14,
           <1>15, <1>16, <1>17, <1>18, <1>19 DEF SecNext, SecDriver

\* The flash lock and the firmware state fit the place of the operation under way.
THEOREM LockInvariance == SecSpec => []LockInv
<1>1. SecInit => LockInv
  BY DEF SecInit, Init, LockInv, OpMatches, LockMatches, StateMatches, PrepareLocked, Prepared,
     PrepareSet
<1>2. LockInv /\ [SecNext]_allVars => LockInv'
  BY LockStep
<1> QED BY <1>1, <1>2, PTL DEF SecSpec

\* Whichever operation of an update fails, flash_unlock and m10bmc_fw_state_set give back
\* what prepare took, and m10bmc_sec_cleanup unlocks only what is locked.
THEOREM StateIsReleased == SecSpec => []UpdateStateReleased
<1>1. LockInv => UpdateStateReleased
  BY DEF UpdateStateReleased, LockInv, OpMatches, LockMatches, StateMatches, PrepareLocked,
     Prepared, PrepareSet
<1> QED BY <1>1, LockInvariance, PTL

\* From the request of an update to its last block no flash read gets in and the firmware
\* state keeps others off the handshake registers, as long as no retimer load is asked for.
THEOREM EraseIsProtected ==
  ASSUME NoRetimer
  PROVE  SecSpec => []EraseWriteProtected
<1>1. LockInv => EraseWriteProtected
  BY DEF EraseWriteProtected, LockInv, OpMatches, LockMatches, StateMatches, PrepareLocked,
     Prepared, PrepareSet
<1> QED BY <1>1, LockInvariance, PTL

-----------------------------------------------------------------------------
(* The doorbell, the staging area and the outcome.                          *)

\* What the invariant of driver and BMC depends on.
LEMMA BmcFrame ==
  ASSUME BmcInv, UNCHANGED <<pc, sop, doorbell, staged, programmed, late, cancel_request>>,
         UNCHANGED <<uploads, size, offset, err_code, pending>>
  PROVE  BmcInv'
<1>1. DoorbellSound'
  BY DEF BmcInv, DoorbellSound, rsu_prog
<1>2. DoorbellOwned'
  BY DEF BmcInv, DoorbellOwned, PrepareSet, Transferring, rsu_prog, Sent, rsu_status_ok
<1>3. StagedMatches'
  BY DEF BmcInv, StagedMatches, PrepareLocked, Prepared
<1>4. SentMatches'
  BY DEF BmcInv, SentMatches, Sent, rsu_status_ok, rsu_prog
<1>5. CancelSeen'
  BY DEF BmcInv, CancelSeen
<1>6. SuccessSettled'
  BY DEF BmcInv, SuccessSettled, Success, rsu_prog
<1> QED BY <1>1, <1>2, <1>3, <1>4, <1>5, <1>6 DEF BmcInv

\* An ioctl, an open or a close: a new upload starts where the last one has its outcome,
\* and a cancel after the last look at cancel_request is late.
LEMMA UserKeepsBmc ==
  ASSUME SecIInv, IInv', Client # "any", SecUser
  PROVE  TypeInv' /\ BmcInv'
<1>a. CASE \E sz \in Sizes : ioctl_write(sz) /\ cancel_request' = cancel_request
  <2>1. OpType'
    BY UserFrame DEF SecIInv, TypeInv, OpType
  <2>2. DoorbellType'
    BY UserFrame DEF SecIInv, TypeInv, DoorbellType
  <2>3. StagedType'
    BY UserFrame DEF SecIInv, TypeInv, StagedType
  <2>4. OthersType'
    BY UserFrame DEF SecIInv, TypeInv, OthersType, SecUser
  <2>5. DoorbellSound'
    BY UserFrame DEF SecIInv, BmcInv, DoorbellSound, rsu_prog
  <2>6. DoorbellOwned'
    BY UserFrame DEF SecIInv, BmcInv, DoorbellOwned, PrepareSet, Transferring, rsu_prog, Sent,
       rsu_status_ok
  <2>7. StagedMatches'
    BY <1>a, UserFrame DEF SecIInv, IInv, StagedMatches, PrepareLocked, Prepared, LockInv,
       OpMatches, OneUpload, Resting, ioctl_write
  <2>8. SentMatches'
    BY <1>a, UserFrame DEF SecIInv, BmcInv, IInv, SentMatches, Sent, rsu_status_ok, rsu_prog,
       TypeInv, StagedType, LockInv, OpMatches, OneUpload, Busy, ioctl_write
  <2>9. CancelSeen'
    BY <1>a, UserFrame DEF SecIInv, BmcInv, CancelSeen, TypeInv, LockInv, OpMatches, PrepareLocked,
       ioctl_write, LockFree, SecUser
  <2>10. SuccessSettled'
    BY <1>a DEF IInv, SuccessSettled, OneUpload, Resting, ioctl_write
  <2> QED BY <2>1, <2>2, <2>3, <2>4, <2>5, <2>6, <2>7, <2>8, <2>9, <2>10 DEF TypeInv, BmcInv
<1>b. CASE UNCHANGED <<uploads, size, err_code, pending>>
  <2>1. OpType'
    BY UserFrame DEF SecIInv, TypeInv, OpType
  <2>2. DoorbellType'
    BY UserFrame DEF SecIInv, TypeInv, DoorbellType
  <2>3. StagedType'
    BY UserFrame DEF SecIInv, TypeInv, StagedType
  <2>4. OthersType'
    BY UserFrame DEF SecIInv, TypeInv, OthersType, SecUser
  <2>5. DoorbellSound'
    BY UserFrame DEF SecIInv, BmcInv, DoorbellSound, rsu_prog
  <2>6. DoorbellOwned'
    BY UserFrame DEF SecIInv, BmcInv, DoorbellOwned, PrepareSet, Transferring, rsu_prog, Sent,
       rsu_status_ok
  <2>7. StagedMatches'
    BY <1>b, UserFrame DEF SecIInv, BmcInv, StagedMatches, PrepareLocked, Prepared
  <2>8. SentMatches'
    BY <1>b, UserFrame DEF SecIInv, BmcInv, SentMatches, Sent, rsu_status_ok, rsu_prog
  <2>9. CancelSeen'
    BY <1>b, UserFrame DEF SecIInv, BmcInv, CancelSeen, StagedType, OthersType, LockInv, OpMatches,
       PrepareLocked, SecUser
  <2>10. SuccessSettled'
    BY <1>b, UserFrame, ImageLoadAssumption, SecUpdateAssumption DEF SecIInv, BmcInv, IInv,
       SuccessSettled, Success, rsu_prog, DoorbellType, StagedType, OthersType, LockInv, OpMatches,
       PrepareLocked, ProgressMatches, Idle, Busy, SecUser, WorkerPcs, OpPcs
  <2> QED BY <2>1, <2>2, <2>3, <2>4, <2>5, <2>6, <2>7, <2>8, <2>9, <2>10 DEF TypeInv, BmcInv
<1> QED BY <1>a, <1>b, UserFrame

\* The worker starts with an upload.
LEMMA MainKeepsBmc ==
  ASSUME SecIInv, IInv', Client # "any", fw_upload_main, UNCHANGED <<secVars, bmcVars, late, otherVars>>
  PROVE  TypeInv' /\ BmcInv'
<1>1. OpType'
  BY DEF SecIInv, TypeInv, OpType, secVars
<1>2. DoorbellType'
  BY DEF SecIInv, TypeInv, DoorbellType, bmcVars
<1>3. StagedType'
  BY DEF SecIInv, TypeInv, StagedType, bmcVars
<1>4. OthersType'
  BY DEF SecIInv, TypeInv, OthersType, otherVars
<1>5. DoorbellSound'
  BY DEF SecIInv, BmcInv, DoorbellSound, rsu_prog, bmcVars
<1>6. DoorbellOwned'
  BY DEF SecIInv, BmcInv, DoorbellOwned, PrepareSet, Transferring, rsu_prog, Sent, rsu_status_ok,
     fw_upload_main, secVars, bmcVars
<1>7. StagedMatches'
  BY DEF SecIInv, BmcInv, StagedMatches, PrepareLocked, Prepared, fw_upload_main, ghostVars,
     secVars, bmcVars
<1>8. SentMatches'
  BY DEF SecIInv, BmcInv, SentMatches, Sent, rsu_status_ok, rsu_prog, fw_upload_main, ghostVars,
     secVars, bmcVars
<1>9. CancelSeen'
  BY DEF CancelSeen, fw_upload_main
<1>10. SuccessSettled'
  BY DEF SuccessSettled, fw_upload_main
<1> QED BY <1>1, <1>2, <1>3, <1>4, <1>5, <1>6, <1>7, <1>8, <1>9, <1>10 DEF TypeInv, BmcInv

\* Prepare has succeeded: the staging area is empty and so is what was transferred.
LEMMA TransferKeepsBmc ==
  ASSUME SecIInv, IInv', Client # "any", transfer, UNCHANGED <<secVars, bmcVars, late, otherVars>>
  PROVE  TypeInv' /\ BmcInv'
<1>1. OpType'
  BY DEF SecIInv, TypeInv, OpType, secVars
<1>2. DoorbellType'
  BY DEF SecIInv, TypeInv, DoorbellType, bmcVars
<1>3. StagedType'
  BY DEF SecIInv, TypeInv, StagedType, bmcVars
<1>4. OthersType'
  BY DEF SecIInv, TypeInv, OthersType, otherVars
<1>5. DoorbellSound'
  BY DEF SecIInv, BmcInv, DoorbellSound, rsu_prog, bmcVars
<1>6. DoorbellOwned'
  BY DEF SecIInv, BmcInv, DoorbellOwned, PrepareSet, Transferring, rsu_prog, Sent, rsu_status_ok,
     transfer, secVars, bmcVars
<1>7. StagedMatches'
  BY DEF SecIInv, BmcInv, StagedMatches, Prepared, transfer, ghostVars, secVars, bmcVars
<1>8. SentMatches'
  BY DEF SecIInv, BmcInv, SentMatches, Sent, rsu_status_ok, rsu_prog, transfer, ghostVars, secVars,
     bmcVars
<1>9. CancelSeen'
  BY DEF CancelSeen, transfer
<1>10. SuccessSettled'
  BY DEF SuccessSettled, transfer
<1> QED BY <1>1, <1>2, <1>3, <1>4, <1>5, <1>6, <1>7, <1>8, <1>9, <1>10 DEF TypeInv, BmcInv

\* The loop over the blocks goes on or is at its end.
LEMMA TransferLoopKeepsBmc ==
  ASSUME SecIInv, IInv', Client # "any", transfer_loop, UNCHANGED <<secVars, bmcVars, late, otherVars>>
  PROVE  TypeInv' /\ BmcInv'
<1>1. OpType'
  BY DEF SecIInv, TypeInv, OpType, secVars
<1>2. DoorbellType'
  BY DEF SecIInv, TypeInv, DoorbellType, bmcVars
<1>3. StagedType'
  BY DEF SecIInv, TypeInv, StagedType, bmcVars
<1>4. OthersType'
  BY DEF SecIInv, TypeInv, OthersType, otherVars
<1>5. DoorbellSound'
  BY DEF SecIInv, BmcInv, DoorbellSound, rsu_prog, bmcVars
<1>6. DoorbellOwned'
  BY DEF SecIInv, BmcInv, DoorbellOwned, PrepareSet, Transferring, rsu_prog, Sent, rsu_status_ok,
     transfer_loop, secVars, bmcVars
<1>7. StagedMatches'
  BY DEF SecIInv, BmcInv, StagedMatches, Prepared, transfer_loop, ghostVars, secVars, bmcVars
<1>8. SentMatches'
  BY DEF SecIInv, BmcInv, SentMatches, Sent, rsu_status_ok, rsu_prog, transfer_loop, ghostVars,
     secVars, bmcVars
<1>9. CancelSeen'
  BY DEF CancelSeen, transfer_loop
<1>10. SuccessSettled'
  BY DEF SuccessSettled, transfer_loop
<1> QED BY <1>1, <1>2, <1>3, <1>4, <1>5, <1>6, <1>7, <1>8, <1>9, <1>10 DEF TypeInv, BmcInv

\* The image is transferred as a whole when poll_complete is called.
LEMMA ProgramKeepsBmc ==
  ASSUME SecIInv, IInv', Client # "any", program, UNCHANGED <<secVars, bmcVars, late, otherVars>>
  PROVE  TypeInv' /\ BmcInv'
<1>1. OpType'
  BY DEF SecIInv, TypeInv, OpType, secVars
<1>2. DoorbellType'
  BY DEF SecIInv, TypeInv, DoorbellType, bmcVars
<1>3. StagedType'
  BY DEF SecIInv, TypeInv, StagedType, bmcVars
<1>4. OthersType'
  BY DEF SecIInv, TypeInv, OthersType, otherVars
<1>5. DoorbellSound'
  BY DEF SecIInv, BmcInv, DoorbellSound, rsu_prog, bmcVars
<1>6. DoorbellOwned'
  BY DEF SecIInv, BmcInv, DoorbellOwned, PrepareSet, Transferring, rsu_prog, Sent, rsu_status_ok,
     program, secVars, bmcVars
<1>7. StagedMatches'
  BY DEF SecIInv, BmcInv, StagedMatches, Prepared, program, ghostVars, secVars, bmcVars
<1>8. SentMatches'
  BY DEF SecIInv, BmcInv, SentMatches, Sent, rsu_status_ok, rsu_prog, program, ghostVars, secVars,
     bmcVars
<1>9. CancelSeen'
  BY DEF SecIInv, CancelSeen, LockInv, OpMatches, program, secVars
<1>10. SuccessSettled'
  BY DEF SuccessSettled, program
<1> QED BY <1>1, <1>2, <1>3, <1>4, <1>5, <1>6, <1>7, <1>8, <1>9, <1>10 DEF TypeInv, BmcInv

\* The reference is dropped: the outcome is settled by then.
LEMMA PutdevExitKeepsBmc ==
  ASSUME SecIInv, IInv', Client # "any", putdev_exit, UNCHANGED <<secVars, bmcVars, late, otherVars>>
  PROVE  TypeInv' /\ BmcInv'
<1>1. OpType'
  BY DEF SecIInv, TypeInv, OpType, secVars
<1>2. DoorbellType'
  BY DEF SecIInv, TypeInv, DoorbellType, bmcVars
<1>3. StagedType'
  BY DEF SecIInv, TypeInv, StagedType, bmcVars
<1>4. OthersType'
  BY DEF SecIInv, TypeInv, OthersType, otherVars
<1>5. DoorbellSound'
  BY DEF SecIInv, BmcInv, DoorbellSound, rsu_prog, bmcVars
<1>6. DoorbellOwned'
  BY DEF SecIInv, BmcInv, DoorbellOwned, PrepareSet, Transferring, rsu_prog, Sent, rsu_status_ok,
     putdev_exit, secVars, bmcVars
<1>7. StagedMatches'
  BY DEF SecIInv, BmcInv, StagedMatches, PrepareLocked, Prepared, putdev_exit, ghostVars, secVars,
     bmcVars
<1>8. SentMatches'
  BY DEF SecIInv, BmcInv, SentMatches, Sent, rsu_status_ok, rsu_prog, putdev_exit, ghostVars,
     secVars, bmcVars
<1>9. CancelSeen'
  BY DEF CancelSeen, putdev_exit
<1>10. SuccessSettled'
  BY DEF SecIInv, BmcInv, SuccessSettled, Success, rsu_prog, putdev_exit, ghostVars, bmcVars
<1> QED BY <1>1, <1>2, <1>3, <1>4, <1>5, <1>6, <1>7, <1>8, <1>9, <1>10 DEF TypeInv, BmcInv

\* The completion is signalled: the outcome is settled by then.
LEMMA ProgCompleteKeepsBmc ==
  ASSUME SecIInv, IInv', Client # "any", fw_upload_prog_complete,
         UNCHANGED <<secVars, bmcVars, late, otherVars>>
  PROVE  TypeInv' /\ BmcInv'
<1>1. OpType'
  BY DEF SecIInv, TypeInv, OpType, secVars
<1>2. DoorbellType'
  BY DEF SecIInv, TypeInv, DoorbellType, bmcVars
<1>3. StagedType'
  BY DEF SecIInv, TypeInv, StagedType, bmcVars
<1>4. OthersType'
  BY DEF SecIInv, TypeInv, OthersType, otherVars
<1>5. DoorbellSound'
  BY DEF SecIInv, BmcInv, DoorbellSound, rsu_prog, bmcVars
<1>6. DoorbellOwned'
  BY DEF SecIInv, BmcInv, DoorbellOwned, PrepareSet, Transferring, rsu_prog, Sent, rsu_status_ok,
     fw_upload_prog_complete, secVars, bmcVars
<1>7. StagedMatches'
  BY DEF SecIInv, BmcInv, StagedMatches, PrepareLocked, Prepared, fw_upload_prog_complete, secVars,
     bmcVars
<1>8. SentMatches'
  BY DEF SecIInv, BmcInv, SentMatches, Sent, rsu_status_ok, rsu_prog, fw_upload_prog_complete,
     secVars, bmcVars
<1>9. CancelSeen'
  BY DEF CancelSeen, fw_upload_prog_complete
<1>10. SuccessSettled'
  BY DEF SecIInv, BmcInv, SuccessSettled, Success, rsu_prog, fw_upload_prog_complete, bmcVars
<1> QED BY <1>1, <1>2, <1>3, <1>4, <1>5, <1>6, <1>7, <1>8, <1>9, <1>10 DEF TypeInv, BmcInv

\* The eventfd is dropped: the outcome is settled by then.
LEMMA EventfdPutKeepsBmc ==
  ASSUME SecIInv, IInv', Client # "any", eventfd_put, UNCHANGED <<secVars, bmcVars, late, otherVars>>
  PROVE  TypeInv' /\ BmcInv'
<1>1. OpType'
  BY DEF SecIInv, TypeInv, OpType, secVars
<1>2. DoorbellType'
  BY DEF SecIInv, TypeInv, DoorbellType, bmcVars
<1>3. StagedType'
  BY DEF SecIInv, TypeInv, StagedType, bmcVars
<1>4. OthersType'
  BY DEF SecIInv, TypeInv, OthersType, otherVars
<1>5. DoorbellSound'
  BY DEF SecIInv, BmcInv, DoorbellSound, rsu_prog, bmcVars
<1>6. DoorbellOwned'
  BY DEF SecIInv, BmcInv, DoorbellOwned, PrepareSet, Transferring, rsu_prog, Sent, rsu_status_ok,
     eventfd_put, secVars, bmcVars
<1>7. StagedMatches'
  BY DEF SecIInv, BmcInv, StagedMatches, PrepareLocked, Prepared, eventfd_put, ghostVars, secVars,
     bmcVars
<1>8. SentMatches'
  BY DEF SecIInv, BmcInv, SentMatches, Sent, rsu_status_ok, rsu_prog, eventfd_put, ghostVars,
     secVars, bmcVars
<1>9. CancelSeen'
  BY DEF CancelSeen, eventfd_put
<1>10. SuccessSettled'
  BY DEF SecIInv, BmcInv, SuccessSettled, Success, rsu_prog, eventfd_put, ghostVars, bmcVars
<1> QED BY <1>1, <1>2, <1>3, <1>4, <1>5, <1>6, <1>7, <1>8, <1>9, <1>10 DEF TypeInv, BmcInv

\* m10bmc_sec_prepare begins and forgets a cancel of before.
LEMMA PrepareBeginKeepsBmc ==
  ASSUME SecIInv, IInv', Client # "any", prepare_begin
  PROVE  TypeInv' /\ BmcInv'
<1>1. OpType'
  BY DEF SecIInv, TypeInv, OpType, prepare_begin
<1>2. DoorbellType'
  BY DEF SecIInv, TypeInv, DoorbellType, prepare_begin, bmcVars
<1>3. StagedType'
  BY DEF SecIInv, TypeInv, StagedType, prepare_begin, bmcVars
<1>4. OthersType'
  BY DEF SecIInv, TypeInv, OthersType, prepare_begin, otherVars
<1>5. DoorbellSound'
  BY DEF SecIInv, BmcInv, DoorbellSound, rsu_prog, prepare_begin, bmcVars
<1>6. DoorbellOwned'
  BY DEF DoorbellOwned, PrepareSet, Transferring, Sent, prepare_begin, prepare_forgets_cancel,
     workVars
<1>7. StagedMatches'
  BY DEF StagedMatches, PrepareLocked, Prepared, prepare_begin, prepare_forgets_cancel, workVars
<1>8. SentMatches'
  BY DEF SentMatches, Sent, prepare_begin
<1>9. CancelSeen'
  BY DEF CancelSeen, prepare_begin, prepare_forgets_cancel
<1>10. SuccessSettled'
  BY DEF SuccessSettled, prepare_begin, prepare_forgets_cancel, workVars
<1> QED BY <1>1, <1>2, <1>3, <1>4, <1>5, <1>6, <1>7, <1>8, <1>9, <1>10 DEF TypeInv, BmcInv

\* m10bmc_sec_prepare checks the size and locks the flash.
LEMMA PrepareLockKeepsBmc ==
  ASSUME SecIInv, IInv', Client # "any", prepare_lock
  PROVE  TypeInv' /\ BmcInv'
<1>1. OpType'
  BY DEF SecIInv, TypeInv, OpType, RsuProg, FwState, prepare_lock, flash_lock_write,
     prepare_returns, bmcVars, otherVars, FlashMutexFree, Bulk, set_error
<1>2. DoorbellType'
  BY DEF SecIInv, TypeInv, DoorbellType, prepare_lock, bmcVars
<1>3. StagedType'
  BY DEF SecIInv, TypeInv, StagedType, prepare_lock, bmcVars
<1>4. OthersType'
  BY DEF SecIInv, TypeInv, OthersType, prepare_lock, otherVars
<1>5. DoorbellSound'
  BY DEF SecIInv, BmcInv, DoorbellSound, rsu_prog, prepare_lock, bmcVars
<1>6. DoorbellOwned'
  BY DEF SecIInv, BmcInv, DoorbellOwned, PrepareSet, Transferring, rsu_prog, Sent, rsu_status_ok,
     prepare_lock, prepare_returns, bmcVars, vars, workVars
<1>7. StagedMatches'
  BY SecUpdateAssumption DEF SecIInv, IInv, StagedMatches, PrepareLocked, Prepared, LockInv,
     OpMatches, TypeOK, ImageMatches, prepare_lock, prepare_returns, ghostVars, vars, workVars
<1>8. SentMatches'
  BY DEF SentMatches, Sent, prepare_lock
<1>9. CancelSeen'
  BY DEF SecIInv, BmcInv, CancelSeen, prepare_lock, ghostVars, vars, fwlpVars, workVars
<1>10. SuccessSettled'
  BY DEF SecIInv, BmcInv, SuccessSettled, Success, rsu_prog, prepare_lock, prepare_returns, bmcVars,
     set_error, ghostVars, vars, fwlpVars, workVars
<1> QED BY <1>1, <1>2, <1>3, <1>4, <1>5, <1>6, <1>7, <1>8, <1>9, <1>10 DEF TypeInv, BmcInv

\* rsu_check_idle lets an update begin only when the BMC is done with the last one.
LEMMA RsuCheckIdleKeepsBmc ==
  ASSUME SecIInv, IInv', Client # "any", rsu_check_idle
  PROVE  TypeInv' /\ BmcInv'
<1>1. OpType'
  BY DEF SecIInv, TypeInv, OpType, FwState, rsu_check_idle, Access, rsu_progress_done,
     m10bmc_fw_state_set, prepare_returns, flash_unlock_write
<1>2. DoorbellType'
  BY DEF SecIInv, TypeInv, DoorbellType, rsu_check_idle, bmcVars
<1>3. StagedType'
  BY DEF SecIInv, TypeInv, StagedType, rsu_check_idle, bmcVars
<1>4. OthersType'
  BY DEF SecIInv, TypeInv, OthersType, rsu_check_idle, otherVars
<1>5. DoorbellSound'
  BY DEF SecIInv, BmcInv, DoorbellSound, rsu_prog, rsu_check_idle, bmcVars
<1>6. DoorbellOwned'
  BY DEF SecIInv, BmcInv, DoorbellOwned, PrepareSet, Transferring, rsu_prog, Sent, rsu_status_ok,
     rsu_check_idle, Access, rsu_progress_done, prepare_returns, bmcVars, RwError, vars, workVars
<1>7. StagedMatches'
  BY DEF SecIInv, BmcInv, StagedMatches, PrepareLocked, rsu_check_idle, prepare_returns, bmcVars,
     ghostVars, vars, workVars
<1>8. SentMatches'
  BY DEF SentMatches, Sent, rsu_check_idle
<1>9. CancelSeen'
  BY DEF SecIInv, BmcInv, CancelSeen, rsu_check_idle, ghostVars, FlashMutexFree, Bulk, vars,
     fwlpVars, workVars
<1>10. SuccessSettled'
  BY DEF SecIInv, BmcInv, SuccessSettled, Success, rsu_prog, rsu_check_idle, prepare_returns,
     bmcVars, set_error, ghostVars, vars, fwlpVars, workVars
<1> QED BY <1>1, <1>2, <1>3, <1>4, <1>5, <1>6, <1>7, <1>8, <1>9, <1>10 DEF TypeInv, BmcInv

\* rsu_update_init requests an update: from here on the doorbell is this update's.
LEMMA RsuUpdateInitKeepsBmc ==
  ASSUME SecIInv, IInv', Client # "any", rsu_update_init
  PROVE  TypeInv' /\ BmcInv'
<1>1. OpType'
  BY DEF SecIInv, TypeInv, OpType, FwState, rsu_update_init, Access, prepare_exit, otherVars,
     RwError, prepare_returns, m10bmc_fw_state_set, flash_unlock_write, set_error, userVars, ghostVars
<1>2. DoorbellType'
  BY DEF SecIInv, TypeInv, DoorbellType, RsuProg, RsuStat, HostStat, FwState, rsu_update_init,
     Access
<1>3. StagedType'
  BY DEF SecIInv, TypeInv, StagedType, rsu_update_init
<1>4. OthersType'
  BY DEF SecIInv, TypeInv, OthersType, rsu_update_init, otherVars
<1>5. DoorbellSound'
  BY DEF SecIInv, BmcInv, DoorbellSound, rsu_prog, TypeInv, OpType, DoorbellType, StagedType,
     OthersType, rsu_update_init, Access, prepare_exit
<1>6. DoorbellOwned'
  <2>1. \/ /\ doorbell' = [doorbell EXCEPT !.request = TRUE, !.host = "IDLE"]
           /\ sop' = "init_wait" /\ UNCHANGED vars
        \/ UNCHANGED doorbell /\ sop' = "start" /\ pc' = "put"
    BY DEF rsu_update_init, prepare_exit, prepare_returns
  <2>2. CASE /\ doorbell' = [doorbell EXCEPT !.request = TRUE, !.host = "IDLE"]
             /\ sop' = "init_wait" /\ UNCHANGED vars
    <3>1. sop = "init" /\ pc = "prepare" /\ pc' = "prepare" /\ staged' = staged
      BY <2>2 DEF SecIInv, LockInv, OpMatches, rsu_update_init, vars, workVars
    <3>2. doorbell' = [request |-> TRUE, pkvl |-> doorbell.pkvl, prog |-> doorbell.prog, host |-> "IDLE",
                       stat |-> doorbell.stat]
      BY <2>2 DEF SecIInv, TypeInv, DoorbellType
    <3> QED BY <2>2, <3>1 DEF SecIInv, BmcInv, DoorbellOwned, PrepareSet, Transferring, Sent,
               rsu_prog
  <2>3. CASE UNCHANGED doorbell /\ sop' = "start" /\ pc' = "put"
    BY <2>3 DEF DoorbellOwned, PrepareSet, Transferring, Sent
  <2> QED BY <2>1, <2>2, <2>3
<1>7. StagedMatches'
  BY DEF SecIInv, BmcInv, StagedMatches, PrepareLocked, rsu_update_init, prepare_exit,
     prepare_returns, ghostVars, vars, workVars
<1>8. SentMatches'
  BY DEF SentMatches, Sent, rsu_update_init, prepare_exit
<1>9. CancelSeen'
  BY DEF SecIInv, BmcInv, CancelSeen, rsu_update_init, Access, prepare_exit, prepare_returns,
     m10bmc_fw_state_set, FlashMutexFree, Bulk, vars, fwlpVars, workVars
<1>10. SuccessSettled'
  BY DEF SecIInv, SuccessSettled, LockInv, OpMatches, rsu_update_init, prepare_exit,
     prepare_returns, set_error, vars, workVars
<1> QED BY <1>1, <1>2, <1>3, <1>4, <1>5, <1>6, <1>7, <1>8, <1>9, <1>10 DEF TypeInv, BmcInv

\* rsu_update_init sees the request taken, an error or the end of its wait.
LEMMA RsuUpdateInitWaitKeepsBmc ==
  ASSUME SecIInv, IInv', Client # "any", rsu_update_init_wait
  PROVE  TypeInv' /\ BmcInv'
<1>1. OpType'
  BY DEF SecIInv, TypeInv, OpType, FwState, rsu_update_init_wait, WaitFor, rsu_start_done,
     prepare_exit, bmcVars, otherVars, BmcQuiet, RwError, rsu_progress_done, prepare_returns,
     m10bmc_fw_state_set, flash_unlock_write, rsu_prog, set_error
<1>2. DoorbellType'
  BY DEF SecIInv, TypeInv, DoorbellType, rsu_update_init_wait, bmcVars
<1>3. StagedType'
  BY DEF SecIInv, TypeInv, StagedType, rsu_update_init_wait, bmcVars
<1>4. OthersType'
  BY DEF SecIInv, TypeInv, OthersType, rsu_update_init_wait, otherVars
<1>5. DoorbellSound'
  BY DEF SecIInv, BmcInv, DoorbellSound, rsu_prog, rsu_update_init_wait, bmcVars
<1>6. DoorbellOwned'
  BY DEF SecIInv, BmcInv, DoorbellOwned, PrepareSet, Transferring, rsu_prog, Sent, rsu_status_ok,
     rsu_update_init_wait, WaitFor, rsu_start_done, prepare_exit, bmcVars, RwError, prepare_returns,
     vars, workVars
<1>7. StagedMatches'
  BY DEF SecIInv, BmcInv, StagedMatches, PrepareLocked, rsu_update_init_wait, prepare_exit, bmcVars,
     prepare_returns, ghostVars, vars, workVars
<1>8. SentMatches'
  BY DEF SentMatches, Sent, rsu_update_init_wait, prepare_exit
<1>9. CancelSeen'
  BY DEF SecIInv, BmcInv, CancelSeen, rsu_update_init_wait, WaitFor, rsu_start_done, prepare_exit,
     bmcVars, otherVars, BmcQuiet, RwError, rsu_progress_done, ghostVars, Handshake, FlashMutexFree,
     Bulk, vars, fwlpVars, workVars
<1>10. SuccessSettled'
  BY DEF SecIInv, BmcInv, SuccessSettled, Success, rsu_prog, rsu_update_init_wait, prepare_exit,
     bmcVars, prepare_returns, set_error, ghostVars, vars, fwlpVars, workVars
<1> QED BY <1>1, <1>2, <1>3, <1>4, <1>5, <1>6, <1>7, <1>8, <1>9, <1>10 DEF TypeInv, BmcInv

\* rsu_prog_ready sees the staging area erased, an error or the end of its wait.
LEMMA RsuProgReadyKeepsBmc ==
  ASSUME SecIInv, IInv', Client # "any", rsu_prog_ready
  PROVE  TypeInv' /\ BmcInv'
<1>1. OpType'
  BY DEF SecIInv, TypeInv, OpType, FwState, rsu_prog_ready, WaitFor, rsu_prog, prepare_exit,
     bmcVars, otherVars, BmcQuiet, RwError, prepare_returns, m10bmc_fw_state_set, flash_unlock_write
<1>2. DoorbellType'
  BY DEF SecIInv, TypeInv, DoorbellType, rsu_prog_ready, bmcVars
<1>3. StagedType'
  BY DEF SecIInv, TypeInv, StagedType, rsu_prog_ready, bmcVars
<1>4. OthersType'
  BY DEF SecIInv, TypeInv, OthersType, rsu_prog_ready, otherVars
<1>5. DoorbellSound'
  BY DEF SecIInv, BmcInv, DoorbellSound, rsu_prog, rsu_prog_ready, bmcVars
<1>6. DoorbellOwned'
  BY DEF SecIInv, BmcInv, DoorbellOwned, PrepareSet, Transferring, rsu_prog, Sent, rsu_prog_ready,
     WaitFor, prepare_exit, bmcVars, RwError, prepare_returns
<1>7. StagedMatches'
  BY DEF SecIInv, BmcInv, StagedMatches, PrepareLocked, DoorbellOwned, PrepareSet, rsu_prog_ready,
     WaitFor, prepare_exit, bmcVars, RwError, prepare_returns, ghostVars, vars, workVars
<1>8. SentMatches'
  BY DEF SentMatches, Sent, rsu_prog_ready, prepare_exit
<1>9. CancelSeen'
  BY DEF SecIInv, BmcInv, CancelSeen, rsu_prog_ready, WaitFor, rsu_prog, prepare_exit, bmcVars,
     otherVars, BmcQuiet, vars, fwlpVars, workVars
<1>10. SuccessSettled'
  BY DEF SecIInv, BmcInv, SuccessSettled, Success, rsu_prog, rsu_prog_ready, prepare_exit, bmcVars,
     prepare_returns, set_error, ghostVars, vars, fwlpVars, workVars
<1> QED BY <1>1, <1>2, <1>3, <1>4, <1>5, <1>6, <1>7, <1>8, <1>9, <1>10 DEF TypeInv, BmcInv

\* m10bmc_sec_prepare looks at cancel_request once more and returns.
LEMMA PrepareEndKeepsBmc ==
  ASSUME SecIInv, IInv', Client # "any", prepare_end
  PROVE  TypeInv' /\ BmcInv'
<1>1. OpType'
  BY DEF SecIInv, TypeInv, OpType, FwState, prepare_end, rsu_cancel_result, rsu_cancel,
     prepare_exit, prepare_returns, m10bmc_fw_state_set, otherVars, Access, rsu_prog,
     flash_unlock_write, set_error
<1>2. DoorbellType'
  BY DEF SecIInv, TypeInv, DoorbellType, HostStat, prepare_end, rsu_cancel
<1>3. StagedType'
  BY DEF SecIInv, TypeInv, StagedType, prepare_end
<1>4. OthersType'
  BY DEF SecIInv, TypeInv, OthersType, prepare_end, otherVars
<1>5. DoorbellSound'
  BY DEF SecIInv, BmcInv, DoorbellSound, rsu_prog, TypeInv, DoorbellType, DoorbellOwned,
     Transferring, prepare_end, rsu_cancel
<1>6. DoorbellOwned'
  BY DEF SecIInv, BmcInv, DoorbellOwned, PrepareSet, Transferring, rsu_prog, Sent, rsu_status_ok,
     prepare_end, rsu_cancel_result, prepare_exit, prepare_returns, Access, RwError
<1>7. StagedMatches'
  BY DEF SecIInv, BmcInv, IInv, StagedMatches, PrepareLocked, Empty, ImageMatches, prepare_end,
     prepare_exit, prepare_returns, ghostVars
<1>8. SentMatches'
  BY DEF SentMatches, Sent, prepare_end, prepare_exit
<1>9. CancelSeen'
  BY DEF CancelSeen, prepare_end, prepare_exit
<1>10. SuccessSettled'
  BY DEF SuccessSettled, prepare_end, prepare_exit, prepare_returns, set_error
<1> QED BY <1>1, <1>2, <1>3, <1>4, <1>5, <1>6, <1>7, <1>8, <1>9, <1>10 DEF TypeInv, BmcInv

\* m10bmc_sec_fw_write looks at cancel_request and at the doorbell before it writes.
LEMMA FwWriteKeepsBmc ==
  ASSUME SecIInv, IInv', Client # "any", m10bmc_sec_fw_write
  PROVE  TypeInv' /\ BmcInv'
<1>1. OpType'
  BY DEF SecIInv, TypeInv, OpType, m10bmc_sec_fw_write
<1>2. DoorbellType'
  BY DEF SecIInv, TypeInv, DoorbellType, HostStat, m10bmc_sec_fw_write, rsu_cancel
<1>3. StagedType'
  BY DEF SecIInv, TypeInv, StagedType, m10bmc_sec_fw_write
<1>4. OthersType'
  BY DEF SecIInv, TypeInv, OthersType, m10bmc_sec_fw_write, otherVars
<1>5. DoorbellSound'
  BY DEF SecIInv, BmcInv, DoorbellSound, rsu_prog, TypeInv, DoorbellType, DoorbellOwned,
     Transferring, m10bmc_sec_fw_write, rsu_cancel
<1>6. DoorbellOwned'
  BY DEF SecIInv, BmcInv, DoorbellOwned, PrepareSet, Transferring, rsu_prog, Sent, TypeInv,
     DoorbellType, m10bmc_sec_fw_write, rsu_cancel, write_returns, Access, RwError
<1>7. StagedMatches'
  BY DEF SecIInv, BmcInv, StagedMatches, Prepared, m10bmc_sec_fw_write, write_returns, ghostVars,
     vars, workVars
<1>8. SentMatches'
  BY DEF SentMatches, Sent, m10bmc_sec_fw_write
<1>9. CancelSeen'
  BY DEF CancelSeen, m10bmc_sec_fw_write, vars, workVars
<1>10. SuccessSettled'
  BY DEF SuccessSettled, m10bmc_sec_fw_write, write_returns, set_error, vars, workVars
<1> QED BY <1>1, <1>2, <1>3, <1>4, <1>5, <1>6, <1>7, <1>8, <1>9, <1>10 DEF TypeInv, BmcInv

\* One block reaches the staging area, or none with an error.
LEMMA WriteKeepsBmc ==
  ASSUME SecIInv, IInv', Client # "any", m10bmc_sec_write
  PROVE  TypeInv' /\ BmcInv'
<1>1. OpType'
  BY DEF SecIInv, TypeInv, OpType, m10bmc_sec_write
<1>2. DoorbellType'
  BY DEF SecIInv, TypeInv, DoorbellType, m10bmc_sec_write
<1>3. StagedType'
  BY SecUpdateAssumption DEF SecIInv, BmcInv, IInv, TypeInv, StagedType, LockInv, OpMatches,
     PrepareLocked, StagedMatches, Prepared, TypeOK, ImageMatches, m10bmc_sec_write
<1>4. OthersType'
  BY DEF SecIInv, TypeInv, OthersType, m10bmc_sec_write, otherVars
<1>5. DoorbellSound'
  BY DEF SecIInv, BmcInv, DoorbellSound, LockInv, OpMatches, PrepareLocked, DoorbellOwned,
     Transferring, m10bmc_sec_write
<1>6. DoorbellOwned'
  BY DEF SecIInv, BmcInv, DoorbellOwned, PrepareSet, Transferring, rsu_prog, Sent, rsu_status_ok,
     m10bmc_sec_write, write_returns
<1>7. StagedMatches'
  BY ImageLoadAssumption DEF SecIInv, BmcInv, IInv, StagedMatches, Prepared, TypeOK, ImageMatches,
     m10bmc_sec_write, write_returns, ghostVars
<1>8. SentMatches'
  BY DEF SentMatches, Sent, m10bmc_sec_write
<1>9. CancelSeen'
  BY DEF CancelSeen, m10bmc_sec_write
<1>10. SuccessSettled'
  BY DEF SuccessSettled, m10bmc_sec_write, write_returns, set_error
<1> QED BY <1>1, <1>2, <1>3, <1>4, <1>5, <1>6, <1>7, <1>8, <1>9, <1>10 DEF TypeInv, BmcInv

\* m10bmc_sec_poll_complete looks at cancel_request for the last time.
LEMMA PollCompleteKeepsBmc ==
  ASSUME SecIInv, IInv', Client # "any", m10bmc_sec_poll_complete
  PROVE  TypeInv' /\ BmcInv'
<1>1. OpType'
  BY DEF SecIInv, TypeInv, OpType, FwState, m10bmc_sec_poll_complete, m10bmc_fw_state_set
<1>2. DoorbellType'
  BY DEF SecIInv, TypeInv, DoorbellType, HostStat, m10bmc_sec_poll_complete, rsu_cancel
<1>3. StagedType'
  BY DEF SecIInv, TypeInv, StagedType, m10bmc_sec_poll_complete
<1>4. OthersType'
  BY DEF SecIInv, TypeInv, OthersType, RsuProg, RsuStat, HostStat, FwState,
     m10bmc_sec_poll_complete, rsu_cancel_result, rsu_cancel, poll_complete_returns,
     m10bmc_fw_state_set, otherVars, Access, rsu_prog
<1>5. DoorbellSound'
  BY DEF SecIInv, BmcInv, DoorbellSound, rsu_prog, TypeInv, DoorbellType, DoorbellOwned,
     Transferring, m10bmc_sec_poll_complete, rsu_cancel
<1>6. DoorbellOwned'
  BY DEF SecIInv, BmcInv, DoorbellOwned, PrepareSet, Transferring, rsu_prog, Sent, rsu_status_ok,
     TypeInv, DoorbellType, m10bmc_sec_poll_complete, rsu_cancel, poll_complete_returns
<1>7. StagedMatches'
  BY DEF SecIInv, BmcInv, StagedMatches, Prepared, m10bmc_sec_poll_complete, poll_complete_returns,
     ghostVars, vars, workVars
<1>8. SentMatches'
  BY DEF SentMatches, Sent, m10bmc_sec_poll_complete
<1>9. CancelSeen'
  BY DEF CancelSeen, m10bmc_sec_poll_complete, vars, fwlpVars
<1>10. SuccessSettled'
  BY DEF SuccessSettled, m10bmc_sec_poll_complete, rsu_cancel_result, poll_complete_returns, Access,
     set_error, RwError, vars, workVars
<1> QED BY <1>1, <1>2, <1>3, <1>4, <1>5, <1>6, <1>7, <1>8, <1>9, <1>10 DEF TypeInv, BmcInv

\* rsu_send_data tells the BMC that the whole image is written.
LEMMA RsuSendDataKeepsBmc ==
  ASSUME SecIInv, IInv', Client # "any", rsu_send_data
  PROVE  TypeInv' /\ BmcInv'
<1>1. OpType'
  BY DEF SecIInv, TypeInv, OpType, rsu_send_data, poll_fails
<1>2. DoorbellType'
  BY DEF SecIInv, TypeInv, DoorbellType, HostStat, rsu_send_data
<1>3. StagedType'
  BY DEF SecIInv, TypeInv, StagedType, rsu_send_data
<1>4. OthersType'
  BY DEF SecIInv, TypeInv, OthersType, rsu_send_data, otherVars
<1>5. DoorbellSound'
  BY DEF SecIInv, BmcInv, IInv, DoorbellSound, rsu_prog, TypeInv, DoorbellType, LockInv, OpMatches,
     PrepareLocked, DoorbellOwned, Transferring, StagedMatches, Prepared, OneUpload, ImageMatches,
     rsu_send_data
<1>6. DoorbellOwned'
  BY DEF SecIInv, BmcInv, DoorbellOwned, PrepareSet, Transferring, rsu_prog, Sent, rsu_status_ok,
     TypeInv, DoorbellType, LockInv, OpMatches, PrepareLocked, rsu_send_data, poll_fails, vars,
     workVars
<1>7. StagedMatches'
  BY DEF SecIInv, BmcInv, StagedMatches, PrepareLocked, Prepared, rsu_send_data, poll_fails,
     poll_complete_returns, ghostVars, vars, workVars
<1>8. SentMatches'
  BY DEF SecIInv, BmcInv, SentMatches, rsu_status_ok, rsu_prog, TypeInv, DoorbellType, LockInv,
     OpMatches, PrepareLocked, DoorbellOwned, Transferring, rsu_send_data
<1>9. CancelSeen'
  BY DEF SecIInv, BmcInv, CancelSeen, rsu_send_data, Access, poll_fails, vars, fwlpVars, workVars
<1>10. SuccessSettled'
  BY DEF SecIInv, BmcInv, SuccessSettled, Success, rsu_prog, TypeInv, DoorbellType, rsu_send_data,
     poll_fails, poll_complete_returns, set_error, ghostVars, vars, fwlpVars, workVars
<1> QED BY <1>1, <1>2, <1>3, <1>4, <1>5, <1>6, <1>7, <1>8, <1>9, <1>10 DEF TypeInv, BmcInv

\* rsu_send_data sees the BMC program, an error or the end of its wait.
LEMMA RsuSendDataWaitKeepsBmc ==
  ASSUME SecIInv, IInv', Client # "any", rsu_send_data_wait
  PROVE  TypeInv' /\ BmcInv'
<1>1. OpType'
  BY DEF SecIInv, TypeInv, OpType, rsu_send_data_wait, poll_fails
<1>2. DoorbellType'
  BY DEF SecIInv, TypeInv, DoorbellType, rsu_send_data_wait, bmcVars
<1>3. StagedType'
  BY DEF SecIInv, TypeInv, StagedType, rsu_send_data_wait, bmcVars
<1>4. OthersType'
  BY DEF SecIInv, TypeInv, OthersType, rsu_send_data_wait, otherVars
<1>5. DoorbellSound'
  BY DEF SecIInv, BmcInv, DoorbellSound, rsu_prog, rsu_send_data_wait, bmcVars
<1>6. DoorbellOwned'
  BY DEF SecIInv, BmcInv, DoorbellOwned, PrepareSet, Transferring, rsu_prog, Sent,
     rsu_send_data_wait, poll_fails, bmcVars, poll_complete_returns, vars, workVars
<1>7. StagedMatches'
  BY DEF SecIInv, BmcInv, StagedMatches, PrepareLocked, Prepared, rsu_send_data_wait, poll_fails,
     bmcVars, poll_complete_returns, ghostVars, vars, workVars
<1>8. SentMatches'
  BY DEF SecIInv, BmcInv, SentMatches, Sent, rsu_status_ok, rsu_prog, rsu_send_data_wait,
     poll_fails, bmcVars, ghostVars, vars
<1>9. CancelSeen'
  BY DEF SecIInv, BmcInv, CancelSeen, rsu_send_data_wait, WaitFor, rsu_prog, rsu_status_ok,
     poll_fails, vars, fwlpVars, workVars
<1>10. SuccessSettled'
  BY DEF SecIInv, BmcInv, SuccessSettled, Success, rsu_prog, rsu_send_data_wait, poll_fails,
     bmcVars, poll_complete_returns, set_error, ghostVars, vars, fwlpVars, workVars
<1> QED BY <1>1, <1>2, <1>3, <1>4, <1>5, <1>6, <1>7, <1>8, <1>9, <1>10 DEF TypeInv, BmcInv

\* rsu_check_complete takes done with a good status for success: this image was programmed.
LEMMA RsuCheckCompleteKeepsBmc ==
  ASSUME SecIInv, IInv', Client # "any", rsu_check_complete
  PROVE  TypeInv' /\ BmcInv'
<1>1. OpType'
  BY DEF SecIInv, TypeInv, OpType, rsu_check_complete
<1>2. DoorbellType'
  BY DEF SecIInv, TypeInv, DoorbellType, rsu_check_complete, bmcVars
<1>3. StagedType'
  BY DEF SecIInv, TypeInv, StagedType, rsu_check_complete, bmcVars
<1>4. OthersType'
  BY DEF SecIInv, TypeInv, OthersType, rsu_check_complete, otherVars
<1>5. DoorbellSound'
  BY DEF SecIInv, BmcInv, DoorbellSound, rsu_prog, rsu_check_complete, bmcVars
<1>6. DoorbellOwned'
  BY DEF SecIInv, BmcInv, DoorbellOwned, PrepareSet, Transferring, Sent, rsu_check_complete,
     poll_complete_returns, bmcVars
<1>7. StagedMatches'
  BY DEF SecIInv, BmcInv, StagedMatches, Prepared, rsu_check_complete, poll_complete_returns,
     ghostVars
<1>8. SentMatches'
  BY DEF SentMatches, Sent, rsu_check_complete
<1>9. CancelSeen'
  BY DEF CancelSeen, rsu_check_complete
<1>10. SuccessSettled'
  BY DEF SecIInv, BmcInv, SuccessSettled, Success, rsu_prog, DoorbellOwned, Sent, SentMatches,
     CancelSeen, rsu_check_complete, WaitFor, rsu_progress_done, poll_complete_returns, bmcVars,
     RwError, set_error, ghostVars
<1> QED BY <1>1, <1>2, <1>3, <1>4, <1>5, <1>6, <1>7, <1>8, <1>9, <1>10 DEF TypeInv, BmcInv

\* m10bmc_sec_cleanup cancels what is left at the BMC; a success leaves nothing.
LEMMA CleanupKeepsBmc ==
  ASSUME SecIInv, IInv', Client # "any", m10bmc_sec_cleanup
  PROVE  TypeInv' /\ BmcInv'
<1>1. OpType'
  BY DEF SecIInv, TypeInv, OpType, FwState, m10bmc_sec_cleanup, rsu_cancel_result, rsu_cancel,
     m10bmc_fw_state_set, flash_unlock_write
<1>2. DoorbellType'
  BY DEF SecIInv, TypeInv, DoorbellType, HostStat, m10bmc_sec_cleanup, rsu_cancel
<1>3. StagedType'
  BY DEF SecIInv, TypeInv, StagedType, m10bmc_sec_cleanup
<1>4. OthersType'
  BY DEF SecIInv, TypeInv, OthersType, m10bmc_sec_cleanup, otherVars
<1>5. DoorbellSound'
  BY DEF SecIInv, BmcInv, DoorbellSound, rsu_prog, DoorbellOwned, m10bmc_sec_cleanup,
     rsu_cancel_result, rsu_cancel, Access, RwError
<1>6. DoorbellOwned'
  BY DEF SecIInv, DoorbellOwned, PrepareSet, Transferring, Sent, LockInv, OpMatches,
     m10bmc_sec_cleanup, cleanup_returns
<1>7. StagedMatches'
  BY DEF SecIInv, BmcInv, StagedMatches, Prepared, m10bmc_sec_cleanup, cleanup_returns, ghostVars
<1>8. SentMatches'
  BY DEF SecIInv, BmcInv, SentMatches, Sent, rsu_status_ok, rsu_prog, m10bmc_sec_cleanup,
     rsu_cancel, cleanup_returns, ghostVars
<1>9. CancelSeen'
  BY DEF CancelSeen, m10bmc_sec_cleanup, cleanup_returns
<1>10. SuccessSettled'
  BY DEF SecIInv, BmcInv, SuccessSettled, Success, rsu_prog, m10bmc_sec_cleanup, rsu_cancel,
     cleanup_returns, fwlpVars, ghostVars
<1> QED BY <1>1, <1>2, <1>3, <1>4, <1>5, <1>6, <1>7, <1>8, <1>9, <1>10 DEF TypeInv, BmcInv

\* The BMC takes a request.
LEMMA BmcRequestKeepsBmc ==
  ASSUME SecIInv, IInv', Client # "any", bmc_request, UNCHANGED <<vars, secVars, late, otherVars>>
  PROVE  TypeInv' /\ BmcInv'
<1>1. OpType'
  BY DEF SecIInv, TypeInv, OpType, secVars
<1>2. DoorbellType'
  BY DEF SecIInv, TypeInv, DoorbellType, RsuProg, RsuStat, HostStat, FwState, bmc_request, vars
<1>3. StagedType'
  BY DEF SecIInv, TypeInv, StagedType, bmc_request
<1>4. OthersType'
  BY DEF SecIInv, TypeInv, OthersType, otherVars
<1>5. DoorbellSound'
  BY DEF SecIInv, BmcInv, DoorbellSound, rsu_prog, TypeInv, OpType, DoorbellType, StagedType,
     OthersType, bmc_request, vars, secVars
<1>6. DoorbellOwned'
  BY DEF SecIInv, BmcInv, DoorbellOwned, PrepareSet, Transferring, rsu_prog, Empty, Sent,
     rsu_status_ok, TypeInv, OpType, DoorbellType, StagedType, OthersType, bmc_request, vars, secVars,
     otherVars, fwlpVars, workVars
<1>7. StagedMatches'
  BY DEF SecIInv, BmcInv, StagedMatches, PrepareLocked, Prepared, bmc_request, vars, secVars,
     workVars, ghostVars
<1>8. SentMatches'
  BY DEF SecIInv, BmcInv, SentMatches, Sent, DoorbellOwned, bmc_request, secVars
<1>9. CancelSeen'
  BY DEF SecIInv, BmcInv, CancelSeen, vars, secVars, workVars
<1>10. SuccessSettled'
  BY DEF SecIInv, BmcInv, SuccessSettled, Success, bmc_request, vars, fwlpVars, workVars, ghostVars
<1> QED BY <1>1, <1>2, <1>3, <1>4, <1>5, <1>6, <1>7, <1>8, <1>9, <1>10 DEF TypeInv, BmcInv

\* The BMC erases the staging area: what was staged before is gone.
LEMMA BmcEraseKeepsBmc ==
  ASSUME SecIInv, IInv', Client # "any", bmc_erase, UNCHANGED <<vars, secVars, late, otherVars>>
  PROVE  TypeInv' /\ BmcInv'
<1>1. OpType'
  BY DEF SecIInv, TypeInv, OpType, secVars
<1>2. DoorbellType'
  BY DEF SecIInv, TypeInv, DoorbellType, RsuProg, RsuStat, HostStat, FwState, bmc_erase
<1>3. StagedType'
  BY ImageLoadAssumption, SecUpdateAssumption DEF SecIInv, TypeInv, StagedType, bmc_erase
<1>4. OthersType'
  BY DEF SecIInv, TypeInv, OthersType, otherVars
<1>5. DoorbellSound'
  BY DEF SecIInv, BmcInv, DoorbellSound, rsu_prog, TypeInv, OpType, DoorbellType, StagedType,
     OthersType, bmc_erase, vars, secVars
<1>6. DoorbellOwned'
  <2>1. UNCHANGED <<pc, sop>> /\ doorbell.host = "IDLE" /\ ~Transferring /\ ~Sent
    BY DEF SecIInv, BmcInv, DoorbellSound, DoorbellOwned, bmc_erase, vars, workVars, secVars
  <2>2. CASE doorbell' = [doorbell EXCEPT !.prog = "READY"] /\ staged' = Empty
    <3>1. doorbell' = [request |-> doorbell.request, pkvl |-> doorbell.pkvl, prog |-> "READY",
                       host |-> doorbell.host, stat |-> doorbell.stat]
      BY <2>2 DEF SecIInv, TypeInv, DoorbellType
    <3> QED BY <2>1, <2>2 DEF SecIInv, BmcInv, DoorbellOwned, Transferring, Sent, rsu_prog
  <2>3. CASE doorbell' = [doorbell EXCEPT !.prog = "IDLE", !.stat = "ERASE_FAIL"]
    <3>1. doorbell' = [request |-> doorbell.request, pkvl |-> doorbell.pkvl, prog |-> "IDLE",
                       host |-> doorbell.host, stat |-> "ERASE_FAIL"]
      BY <2>3 DEF SecIInv, TypeInv, DoorbellType
    <3> QED BY <2>1, <2>3 DEF SecIInv, BmcInv, DoorbellOwned, Transferring, Sent, rsu_prog,
               rsu_status_ok
  <2> QED BY <2>2, <2>3 DEF bmc_erase, Empty
<1>7. StagedMatches'
  BY DEF SecIInv, BmcInv, StagedMatches, PrepareLocked, Prepared, LockInv, OpMatches, DoorbellOwned,
     Transferring, Sent, bmc_erase, vars, secVars, workVars, ghostVars
<1>8. SentMatches'
  BY DEF SecIInv, BmcInv, SentMatches, Sent, rsu_status_ok, rsu_prog, TypeInv, OpType, DoorbellType,
     StagedType, OthersType, bmc_erase
<1>9. CancelSeen'
  BY DEF SecIInv, BmcInv, CancelSeen, vars, secVars, workVars
<1>10. SuccessSettled'
  BY DEF SecIInv, BmcInv, SuccessSettled, Success, bmc_erase, vars, fwlpVars, workVars, ghostVars
<1> QED BY <1>1, <1>2, <1>3, <1>4, <1>5, <1>6, <1>7, <1>8, <1>9, <1>10 DEF TypeInv, BmcInv

\* The BMC follows the host status: it begins to program, or to end a cancelled update.
LEMMA BmcHostStatusKeepsBmc ==
  ASSUME SecIInv, IInv', Client # "any", bmc_host_status, UNCHANGED <<vars, secVars, late, otherVars>>
  PROVE  TypeInv' /\ BmcInv'
<1>1. OpType'
  BY DEF SecIInv, TypeInv, OpType, secVars
<1>2. DoorbellType'
  BY DEF SecIInv, TypeInv, DoorbellType, RsuProg, bmc_host_status
<1>3. StagedType'
  BY DEF SecIInv, TypeInv, StagedType, bmc_host_status
<1>4. OthersType'
  BY DEF SecIInv, TypeInv, OthersType, otherVars
<1>5. DoorbellSound'
  BY DEF SecIInv, BmcInv, DoorbellSound, rsu_prog, TypeInv, DoorbellType, bmc_host_status
<1>6. DoorbellOwned'
  BY DEF SecIInv, BmcInv, DoorbellOwned, PrepareSet, Transferring, rsu_prog, Sent, TypeInv,
     DoorbellType, bmc_host_status, vars, secVars, workVars
<1>7. StagedMatches'
  BY DEF SecIInv, BmcInv, StagedMatches, PrepareLocked, Prepared, bmc_host_status, vars, secVars,
     workVars, ghostVars
<1>8. SentMatches'
  BY DEF SecIInv, BmcInv, SentMatches, Sent, rsu_prog, TypeInv, DoorbellType, DoorbellOwned,
     bmc_host_status, secVars
<1>9. CancelSeen'
  BY DEF SecIInv, BmcInv, CancelSeen, vars, secVars, workVars
<1>10. SuccessSettled'
  BY DEF SecIInv, BmcInv, SuccessSettled, Success, bmc_host_status, vars, fwlpVars, workVars,
     ghostVars
<1> QED BY <1>1, <1>2, <1>3, <1>4, <1>5, <1>6, <1>7, <1>8, <1>9, <1>10 DEF TypeInv, BmcInv

\* The BMC has programmed or rejected the image, or is done with a cancel or a retimer load.
LEMMA BmcFinishKeepsBmc ==
  ASSUME SecIInv, IInv', Client # "any", bmc_finish, UNCHANGED <<vars, secVars, late, otherVars>>
  PROVE  TypeInv' /\ BmcInv'
<1>1. OpType'
  BY DEF SecIInv, TypeInv, OpType, secVars
<1>2. DoorbellType'
  BY DEF SecIInv, TypeInv, DoorbellType, RsuProg, RsuStat, HostStat, FwState, bmc_finish
<1>3. StagedType'
  BY DEF SecIInv, TypeInv, StagedType, bmc_finish
<1>4. OthersType'
  BY DEF SecIInv, TypeInv, OthersType, otherVars
<1>5. DoorbellSound'
  BY DEF SecIInv, BmcInv, DoorbellSound, rsu_prog, TypeInv, OpType, DoorbellType, StagedType,
     OthersType, bmc_finish, vars, secVars
<1>6. DoorbellOwned'
  BY DEF SecIInv, BmcInv, DoorbellOwned, PrepareSet, Transferring, rsu_prog, Empty, Sent,
     rsu_status_ok, TypeInv, OpType, DoorbellType, StagedType, OthersType, bmc_finish, vars, secVars,
     otherVars, fwlpVars, workVars
<1>7. StagedMatches'
  BY DEF SecIInv, BmcInv, StagedMatches, PrepareLocked, Prepared, bmc_finish, vars, secVars,
     workVars, ghostVars
<1>8. SentMatches'
  <2>1. UNCHANGED <<sop, uploads>>
    BY DEF vars, ghostVars, secVars
  <2>2. CASE ~Sent
    BY <2>1, <2>2 DEF SentMatches, Sent
  <2>3. CASE Sent
    <3>1. staged.of = uploads
      <4>1. pc = "poll"
        BY <2>3 DEF SecIInv, LockInv, OpMatches, PrepareLocked, Sent
      <4>2. offset = size /\ size > 0
        BY <4>1 DEF SecIInv, IInv, ImageMatches, BmcInv, StagedMatches, Prepared
      <4> QED BY <4>1, <4>2 DEF SecIInv, BmcInv, StagedMatches
    <3>2. CASE rsu_prog = "BUSY"
      <4>1. doorbell'.prog = "RSU_DONE" /\ (programmed' = uploads \/ doorbell'.stat # "NORMAL")
        BY <3>1, <3>2 DEF bmc_finish, rsu_prog, SecIInv, TypeInv, DoorbellType
      <4> QED BY <2>1, <4>1 DEF SentMatches, rsu_prog, rsu_status_ok
    <3>3. CASE rsu_prog \in {"UPDATE_CANCEL", "PKVL_DONE"}
      <4>1. doorbell'.prog = "IDLE" /\ doorbell'.stat = doorbell.stat /\ programmed' = programmed
        BY <3>3 DEF bmc_finish, SecIInv, TypeInv, DoorbellType
      <4> QED BY <2>1, <2>3, <3>3, <4>1 DEF SecIInv, BmcInv, SentMatches, rsu_prog, rsu_status_ok
    <3> QED BY <3>2, <3>3 DEF bmc_finish
  <2> QED BY <2>2, <2>3
<1>9. CancelSeen'
  BY DEF SecIInv, BmcInv, CancelSeen, vars, secVars, workVars
<1>10. SuccessSettled'
  BY DEF SecIInv, BmcInv, SuccessSettled, Success, rsu_prog, TypeInv, DoorbellType, bmc_finish,
     vars, fwlpVars, workVars, ghostVars
<1> QED BY <1>1, <1>2, <1>3, <1>4, <1>5, <1>6, <1>7, <1>8, <1>9, <1>10 DEF TypeInv, BmcInv

\* The BMC carries out a retimer load, only while it has no update.
LEMMA BmcRetimerKeepsBmc ==
  ASSUME SecIInv, IInv', Client # "any", bmc_retimer, UNCHANGED <<vars, secVars, late, otherVars>>
  PROVE  TypeInv' /\ BmcInv'
<1>1. OpType'
  BY DEF SecIInv, TypeInv, OpType, secVars
<1>2. DoorbellType'
  BY DEF SecIInv, TypeInv, DoorbellType, RsuProg, FwState, bmc_retimer
<1>3. StagedType'
  BY DEF SecIInv, TypeInv, StagedType, bmc_retimer
<1>4. OthersType'
  BY DEF SecIInv, TypeInv, OthersType, otherVars
<1>5. DoorbellSound'
  BY DEF SecIInv, BmcInv, DoorbellSound, rsu_prog, bmc_retimer
<1>6. DoorbellOwned'
  BY DEF SecIInv, BmcInv, DoorbellOwned, Transferring, rsu_prog, Sent, rsu_status_ok, bmc_retimer,
     rsu_progress_done, vars, secVars, workVars
<1>7. StagedMatches'
  BY DEF SecIInv, BmcInv, StagedMatches, PrepareLocked, Prepared, bmc_retimer, vars, secVars,
     workVars, ghostVars
<1>8. SentMatches'
  BY DEF SecIInv, BmcInv, SentMatches, Sent, rsu_status_ok, rsu_prog, bmc_retimer,
     rsu_progress_done, vars, secVars, ghostVars
<1>9. CancelSeen'
  BY DEF SecIInv, BmcInv, CancelSeen, vars, secVars, workVars
<1>10. SuccessSettled'
  BY DEF SecIInv, BmcInv, SuccessSettled, Success, rsu_prog, bmc_retimer, vars, fwlpVars, workVars,
     ghostVars
<1> QED BY <1>1, <1>2, <1>3, <1>4, <1>5, <1>6, <1>7, <1>8, <1>9, <1>10 DEF TypeInv, BmcInv

\* The BMC gives up an update the host has left.
LEMMA BmcTimeoutKeepsBmc ==
  ASSUME SecIInv, IInv', Client # "any", bmc_timeout, UNCHANGED <<vars, secVars, late, otherVars>>
  PROVE  TypeInv' /\ BmcInv'
<1>1. OpType'
  BY DEF SecIInv, TypeInv, OpType, secVars
<1>2. DoorbellType'
  BY DEF SecIInv, TypeInv, DoorbellType, RsuProg, RsuStat, HostStat, FwState, bmc_timeout
<1>3. StagedType'
  BY DEF SecIInv, TypeInv, StagedType, bmc_timeout
<1>4. OthersType'
  BY DEF SecIInv, TypeInv, OthersType, otherVars
<1>5. DoorbellSound'
  BY DEF DoorbellSound, bmc_timeout
<1>6. DoorbellOwned'
  BY DEF SecIInv, BmcInv, DoorbellOwned, Transferring, rsu_prog, Sent, rsu_status_ok, bmc_timeout,
     vars, secVars, workVars
<1>7. StagedMatches'
  BY DEF SecIInv, BmcInv, StagedMatches, PrepareLocked, Prepared, bmc_timeout, vars, secVars,
     workVars, ghostVars
<1>8. SentMatches'
  BY DEF SentMatches, rsu_status_ok, bmc_timeout
<1>9. CancelSeen'
  BY DEF SecIInv, BmcInv, CancelSeen, vars, secVars, workVars
<1>10. SuccessSettled'
  BY DEF SecIInv, BmcInv, SuccessSettled, Success, bmc_timeout, vars, fwlpVars, workVars, ghostVars
<1> QED BY <1>1, <1>2, <1>3, <1>4, <1>5, <1>6, <1>7, <1>8, <1>9, <1>10 DEF TypeInv, BmcInv

\* A retimer load is requested: it leaves the update's part of the doorbell alone.
LEMMA TriggerRetimerEepromLoadKeepsBmc ==
  ASSUME SecIInv, IInv', Client # "any", trigger_retimer_eeprom_load,
         UNCHANGED <<vars, sop, flash_busy, staged, programmed, late>>
  PROVE  TypeInv' /\ BmcInv'
<1>1. OpType'
  BY DEF SecIInv, TypeInv, OpType, trigger_retimer_eeprom_load
<1>2. DoorbellType'
  BY DEF SecIInv, TypeInv, DoorbellType, FwState, trigger_retimer_eeprom_load, Access
<1>3. StagedType'
  BY DEF SecIInv, TypeInv, StagedType
<1>4. OthersType'
  BY DEF SecIInv, TypeInv, OthersType, trigger_retimer_eeprom_load
<1>5. DoorbellSound'
  BY DEF SecIInv, BmcInv, DoorbellSound, rsu_prog, trigger_retimer_eeprom_load
<1>6. DoorbellOwned'
  BY DEF SecIInv, BmcInv, DoorbellOwned, PrepareSet, Transferring, rsu_prog, Sent, rsu_status_ok,
     trigger_retimer_eeprom_load, vars, workVars
<1>7. StagedMatches'
  BY DEF SecIInv, BmcInv, StagedMatches, PrepareLocked, Prepared, vars, workVars, ghostVars
<1>8. SentMatches'
  BY DEF SecIInv, BmcInv, SentMatches, Sent, rsu_status_ok, rsu_prog, trigger_retimer_eeprom_load,
     vars, ghostVars
<1>9. CancelSeen'
  BY DEF SecIInv, BmcInv, CancelSeen, vars, workVars
<1>10. SuccessSettled'
  BY DEF SecIInv, BmcInv, SuccessSettled, Success, rsu_prog, trigger_retimer_eeprom_load, vars,
     fwlpVars, workVars, ghostVars
<1> QED BY <1>1, <1>2, <1>3, <1>4, <1>5, <1>6, <1>7, <1>8, <1>9, <1>10 DEF TypeInv, BmcInv

\* The wait for a retimer load ends, and its request is withdrawn if it is still there.
LEMMA PollRetimerDoneKeepsBmc ==
  ASSUME SecIInv, IInv', Client # "any", poll_retimer_done,
         UNCHANGED <<vars, sop, flash_busy, staged, programmed, late>>
  PROVE  TypeInv' /\ BmcInv'
<1>1. OpType'
  BY DEF SecIInv, TypeInv, OpType, poll_retimer_done
<1>2. DoorbellType'
  BY DEF SecIInv, TypeInv, DoorbellType, RsuProg, RsuStat, HostStat, FwState, poll_retimer_done,
     vars, fwlpVars, workVars, userVars, ghostVars
<1>3. StagedType'
  BY DEF SecIInv, TypeInv, StagedType
<1>4. OthersType'
  BY DEF SecIInv, TypeInv, OthersType, poll_retimer_done
<1>5. DoorbellSound'
  BY DEF SecIInv, BmcInv, DoorbellSound, rsu_prog, TypeInv, DoorbellType, poll_retimer_done
<1>6. DoorbellOwned'
  BY DEF SecIInv, BmcInv, DoorbellOwned, PrepareSet, Transferring, rsu_prog, Sent, rsu_status_ok,
     TypeInv, DoorbellType, poll_retimer_done, vars, workVars
<1>7. StagedMatches'
  BY DEF SecIInv, BmcInv, StagedMatches, PrepareLocked, Prepared, vars, workVars, ghostVars
<1>8. SentMatches'
  BY DEF SecIInv, BmcInv, SentMatches, Sent, rsu_status_ok, rsu_prog, TypeInv, DoorbellType,
     poll_retimer_done, vars, ghostVars
<1>9. CancelSeen'
  BY DEF SecIInv, BmcInv, CancelSeen, vars, workVars
<1>10. SuccessSettled'
  BY DEF SecIInv, BmcInv, SuccessSettled, Success, rsu_prog, TypeInv, DoorbellType,
     poll_retimer_done, vars, fwlpVars, workVars, ghostVars
<1> QED BY <1>1, <1>2, <1>3, <1>4, <1>5, <1>6, <1>7, <1>8, <1>9, <1>10 DEF TypeInv, BmcInv

\* Every step keeps the invariant, given that of the framework after it.
LEMMA SecStepIInv ==
  ASSUME SecIInv, IInv', Client # "any", [SecNext]_allVars
  PROVE  SecIInv'
<1>1. LockInv'
  BY LockStep DEF SecIInv
<1>2. CASE SecUser
  BY <1>1, <1>2, UserKeepsBmc DEF SecIInv
<1>3. CASE SecWorkerOwn
  <2>1. CASE fw_upload_main
    BY <1>1, <1>3, <2>1, MainKeepsBmc DEF SecIInv, SecWorkerOwn
  <2>2. CASE transfer
    BY <1>1, <1>3, <2>2, TransferKeepsBmc DEF SecIInv, SecWorkerOwn
  <2>3. CASE transfer_loop
    BY <1>1, <1>3, <2>3, TransferLoopKeepsBmc DEF SecIInv, SecWorkerOwn
  <2>4. CASE program
    BY <1>1, <1>3, <2>4, ProgramKeepsBmc DEF SecIInv, SecWorkerOwn
  <2>5. CASE putdev_exit
    BY <1>1, <1>3, <2>5, PutdevExitKeepsBmc DEF SecIInv, SecWorkerOwn
  <2>6. CASE fw_upload_prog_complete
    BY <1>1, <1>3, <2>6, ProgCompleteKeepsBmc DEF SecIInv, SecWorkerOwn
  <2>7. CASE eventfd_put
    BY <1>1, <1>3, <2>7, EventfdPutKeepsBmc DEF SecIInv, SecWorkerOwn
  <2> QED BY <1>3, <2>1, <2>2, <2>3, <2>4, <2>5, <2>6, <2>7 DEF SecWorkerOwn, WorkerOwn
<1>4. CASE SecDriver
  <2>1. CASE prepare_begin
    BY <1>1, <2>1, PrepareBeginKeepsBmc DEF SecIInv
  <2>2. CASE prepare_lock
    BY <1>1, <2>2, PrepareLockKeepsBmc DEF SecIInv
  <2>3. CASE rsu_check_idle
    BY <1>1, <2>3, RsuCheckIdleKeepsBmc DEF SecIInv
  <2>4. CASE rsu_update_init
    BY <1>1, <2>4, RsuUpdateInitKeepsBmc DEF SecIInv
  <2>5. CASE rsu_update_init_wait
    BY <1>1, <2>5, RsuUpdateInitWaitKeepsBmc DEF SecIInv
  <2>6. CASE rsu_prog_ready
    BY <1>1, <2>6, RsuProgReadyKeepsBmc DEF SecIInv
  <2>7. CASE prepare_end
    BY <1>1, <2>7, PrepareEndKeepsBmc DEF SecIInv
  <2>8. CASE m10bmc_sec_fw_write
    BY <1>1, <2>8, FwWriteKeepsBmc DEF SecIInv
  <2>9. CASE m10bmc_sec_write
    BY <1>1, <2>9, WriteKeepsBmc DEF SecIInv
  <2>10. CASE m10bmc_sec_poll_complete
    BY <1>1, <2>10, PollCompleteKeepsBmc DEF SecIInv
  <2>11. CASE rsu_send_data
    BY <1>1, <2>11, RsuSendDataKeepsBmc DEF SecIInv
  <2>12. CASE rsu_send_data_wait
    BY <1>1, <2>12, RsuSendDataWaitKeepsBmc DEF SecIInv
  <2>13. CASE rsu_check_complete
    BY <1>1, <2>13, RsuCheckCompleteKeepsBmc DEF SecIInv
  <2>14. CASE m10bmc_sec_cleanup
    BY <1>1, <2>14, CleanupKeepsBmc DEF SecIInv
  <2> QED BY <1>4, <2>1, <2>2, <2>3, <2>4, <2>5, <2>6, <2>7, <2>8, <2>9, <2>10, <2>11, <2>12, <2>13,
             <2>14 DEF SecDriver
<1>5. CASE Bmc
  <2>1. CASE bmc_request
    BY <1>1, <1>5, <2>1, BmcRequestKeepsBmc DEF SecIInv, Bmc
  <2>2. CASE bmc_erase
    BY <1>1, <1>5, <2>2, BmcEraseKeepsBmc DEF SecIInv, Bmc
  <2>3. CASE bmc_host_status
    BY <1>1, <1>5, <2>3, BmcHostStatusKeepsBmc DEF SecIInv, Bmc
  <2>4. CASE bmc_finish
    BY <1>1, <1>5, <2>4, BmcFinishKeepsBmc DEF SecIInv, Bmc
  <2>5. CASE bmc_retimer
    BY <1>1, <1>5, <2>5, BmcRetimerKeepsBmc DEF SecIInv, Bmc
  <2>6. CASE bmc_timeout
    BY <1>1, <1>5, <2>6, BmcTimeoutKeepsBmc DEF SecIInv, Bmc
  <2> QED BY <1>5, <2>1, <2>2, <2>3, <2>4, <2>5, <2>6 DEF Bmc, BmcWorks
<1>6. CASE Others
  <2>1. CASE trigger_retimer_eeprom_load
    BY <1>1, <1>6, <2>1, TriggerRetimerEepromLoadKeepsBmc DEF SecIInv, Others
  <2>2. CASE poll_retimer_done
    BY <1>1, <1>6, <2>2, PollRetimerDoneKeepsBmc DEF SecIInv, Others
  <2>3. CASE retimer_begin \/ retimer_check_idle \/ retimer_exit \/ flash_read_begin \/ flash_read_end
    <3>1. BmcInv'
      BY <1>6, <2>3, BmcFrame DEF SecIInv, Others, retimer_begin, retimer_check_idle, retimer_exit,
         flash_read_begin, flash_read_end, vars, fwlpVars, workVars, ghostVars
    <3>2. OpType' /\ DoorbellType' /\ StagedType'
      BY <1>6, <2>3 DEF SecIInv, Others, retimer_begin, retimer_check_idle, retimer_exit,
         flash_read_begin, flash_read_end, TypeInv, OpType, DoorbellType, StagedType, FwState,
         m10bmc_fw_state_set
    <3>3. ASSUME retimer_begin PROVE OthersType'
      BY <1>6, <3>3, SecUpdateAssumption DEF SecIInv, TypeInv, OthersType, Others, retimer_begin
    <3>4. ASSUME retimer_check_idle PROVE OthersType'
      BY <1>6, <3>4 DEF SecIInv, TypeInv, OthersType, Others, retimer_check_idle
    <3>5. ASSUME retimer_exit PROVE OthersType'
      BY <1>6, <3>5 DEF SecIInv, TypeInv, OthersType, Others, retimer_exit
    <3>6. ASSUME flash_read_begin PROVE OthersType'
      BY <1>6, <3>6, SecUpdateAssumption DEF SecIInv, TypeInv, OthersType, Others, flash_read_begin
    <3>7. ASSUME flash_read_end PROVE OthersType'
      BY <1>6, <3>7, SecUpdateAssumption DEF SecIInv, TypeInv, OthersType, Others, flash_read_end
    <3> QED BY <1>1, <2>3, <3>1, <3>2, <3>3, <3>4, <3>5, <3>6, <3>7 DEF SecIInv, TypeInv
  <2> QED BY <1>6, <2>1, <2>2, <2>3 DEF Others, OthersEnd
<1>7. CASE UNCHANGED allVars
  <2>1. BmcInv'
    BY <1>7, BmcFrame DEF SecIInv, allVars, vars, fwlpVars, workVars, ghostVars, secVars, bmcVars
  <2>2. TypeInv'
    BY <1>7 DEF SecIInv, allVars, secVars, bmcVars, otherVars, TypeInv, OpType, DoorbellType,
       StagedType, OthersType
  <2> QED BY <1>1, <2>1, <2>2 DEF SecIInv
<1> QED BY <1>2, <1>3, <1>4, <1>5, <1>6, <1>7 DEF SecNext

\* Driver, BMC and framework agree on the update in every state, for a user who waits for
\* the eventfd of an upload before the next.
THEOREM SecInvariance ==
  ASSUME Client # "any"
  PROVE  SecSpec => []SecIInv
<1>1. SecInit => TypeInv /\ BmcInv
  <2> SUFFICES ASSUME SecInit PROVE TypeInv /\ BmcInv
    OBVIOUS
  <2>1. TypeInv
    <3>1. DoorbellType /\ OpType
      BY DEF SecInit, DoorbellType, OpType, FwState, RsuProg, HostStat, RsuStat
    <3>2. 0 \in 0..MaxUploads /\ 0 \in 0 .. (WordMod - 1) /\ 0 \in 0..StagingSize /\ 0 \in 0..MaxLoads
      BY ImageLoadAssumption, SecUpdateAssumption
    <3>3. StagedType /\ OthersType
      BY <3>2 DEF SecInit, StagedType, OthersType
    <3> QED BY <3>1, <3>3 DEF TypeInv
  <2>2. BmcInv
    BY DEF SecInit, Init, BmcInv, DoorbellSound, DoorbellOwned, StagedMatches, SentMatches,
       CancelSeen, SuccessSettled, rsu_prog, Transferring, Sent, PrepareLocked, Prepared
  <2> QED BY <2>1, <2>2
<1>2. IInv /\ LockInv /\ TypeInv /\ BmcInv /\ IInv' /\ [SecNext]_allVars => (TypeInv /\ BmcInv)'
  BY SecStepIInv DEF SecIInv
<1>3. SecSpec => []IInv
  BY ImplementsFramework, UploadInvariance, PTL
<1>4. IInv /\ LockInv /\ TypeInv /\ BmcInv => SecIInv
  BY DEF SecIInv
<1> QED BY <1>1, <1>2, <1>3, <1>4, LockInvariance, PTL DEF SecSpec

\* An upload that m10bmc_sec_poll_complete reports as done was programmed by the BMC, and
\* a cancel that came before the last look at cancel_request ends in an error.
THEOREM OutcomeIsTrue ==
  ASSUME Client # "any"
  PROVE  SecSpec => []OutcomeTrue
<1>1. SecIInv => OutcomeTrue
  BY DEF SecIInv, IInv, BmcInv, OutcomeTrue, SuccessMeansProgrammed, CancelHonoured, SuccessSettled,
     Success, ProgressMatches, Busy
<1> QED BY <1>1, SecInvariance, PTL

\* The BMC leaves ready for programming only with a whole image of one upload staged,
\* whatever an earlier upload left behind.
THEOREM WholeImageProgrammed ==
  ASSUME Client # "any"
  PROVE  SecSpec => ProgramsWholeImage
<1>1. SecIInv /\ [SecNext]_allVars =>
        [rsu_prog = "READY" /\ rsu_prog' = "BUSY" => staged.of # 0 /\ staged.blocks = staged.size]_allVars
  <2> SUFFICES ASSUME SecIInv, SecNext, rsu_prog = "READY", rsu_prog' = "BUSY"
               PROVE  staged.of # 0 /\ staged.blocks = staged.size
    OBVIOUS
  <2>1. bmc_host_status /\ doorbell.host = "WRITE_DONE"
    <3>1. CASE SecUser \/ SecWorkerOwn
      BY <3>1, UserFrame DEF SecWorkerOwn, bmcVars, rsu_prog
    <3>2. CASE SecDriver
      <4>1. rsu_prog' = rsu_prog
        BY <3>2 DEF SecIInv, TypeInv, DoorbellType, SecDriver, prepare_begin, prepare_lock,
           rsu_check_idle, rsu_update_init, rsu_update_init_wait, rsu_prog_ready, prepare_end,
           m10bmc_sec_fw_write, m10bmc_sec_write, m10bmc_sec_poll_complete, rsu_send_data,
           rsu_send_data_wait, rsu_check_complete, m10bmc_sec_cleanup, rsu_prog, rsu_cancel, bmcVars
      <4> QED BY <4>1
    <3>3. CASE Others
      <4>1. rsu_prog' = rsu_prog
        BY <3>3 DEF SecIInv, TypeInv, DoorbellType, Others, OthersEnd, retimer_begin,
           retimer_check_idle, trigger_retimer_eeprom_load, poll_retimer_done, retimer_exit,
           flash_read_begin, flash_read_end, rsu_prog
      <4> QED BY <4>1
    <3>4. CASE Bmc
      <4>1. ~(bmc_request \/ bmc_erase \/ bmc_finish \/ bmc_retimer \/ bmc_timeout)
        BY DEF SecIInv, TypeInv, DoorbellType, rsu_prog, rsu_progress_done, bmc_request, bmc_erase,
           bmc_finish, bmc_retimer, bmc_timeout
      <4>2. bmc_host_status
        BY <3>4, <4>1 DEF Bmc, BmcWorks
      <4> QED BY <4>2 DEF bmc_host_status, rsu_prog, SecIInv, TypeInv, DoorbellType
    <3> QED BY <3>1, <3>2, <3>3, <3>4 DEF SecNext
  <2> QED BY <2>1 DEF SecIInv, BmcInv, DoorbellSound
<1> QED BY <1>1, SecInvariance, PTL DEF SecSpec, ProgramsWholeImage

\* References, close, locks and outcome hold together for the driver in the framework.
THEOREM SecUpdateIsTrue ==
  ASSUME Client # "any"
  PROVE  SecSpec => []SecUpdateTrue
<1>1. SecIInv => SecTypeOK /\ RefsBalanced /\ CloseWaits
  BY DEF SecIInv, IInv, ReleaseWaits, CloseWaits, SecTypeOK, TypeInv, OpType, DoorbellType,
     StagedType, OthersType
<1> QED BY <1>1, SecInvariance, StateIsReleased, OutcomeIsTrue, PTL DEF SecUpdateTrue
=============================================================================
