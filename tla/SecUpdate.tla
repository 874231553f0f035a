----------------------------- MODULE SecUpdate -----------------------------
(***************************************************************************)
(* The MAX10 BMC secure update driver under the image load framework.      *)
(*                                                                         *)
(* The worker of ImageLoad calls prepare, write, poll_complete and cleanup *)
(* of this driver; each is a sequence of steps between the doorbell        *)
(* register accesses, interleaved with the user (who may cancel), with the *)
(* BMC firmware behind the doorbell, with a retimer image load from sysfs  *)
(* and with a reader of the flash.                                         *)
(***************************************************************************)
EXTENDS ImageLoad

CONSTANTS
  StagingSize,  \* csr_map->staging_size, in write blocks
  Board,        \* "N3000" and "D5005" have handshake registers, the former
                \* a retimer too; "N6000" has the flash bulk operations
  Faults,       \* "rw": register accesses may fail; "slow": waits may expire early
  MaxLoads      \* bound: retimer loads and flash reads in a behaviour

ASSUME SecUpdateAssumption ==
  /\ StagingSize \in Nat
  /\ Board \in {"N3000", "D5005", "N6000"}
  /\ Faults \subseteq {"rw", "slow"}
  /\ MaxLoads \in Nat
  /\ {"BUSY", "HW_ERROR", "TIMEOUT", "INVALID_SIZE", "WEAROUT", "CANCELED"} \subseteq Errors

Handshake == Board \in {"N3000", "D5005"}
Bulk == Board = "N6000"

FwState == {"NORMAL", "PREPARE", "WRITE", "PROGRAM", "RETIMER"}
\* BUSY stands for AUTHENTICATING, COPYING and PROGRAM_KEY_HASH.
RsuProg == {"IDLE", "PREPARE", "READY", "BUSY", "UPDATE_CANCEL", "RSU_DONE", "PKVL_DONE"}
RsuStat == {"NORMAL", "ERASE_FAIL", "WEAROUT", "AUTH_FAIL", "TIMEOUT"}
HostStat == {"IDLE", "WRITE_DONE", "ABORT_RSU"}

VARIABLES
  sop,         \* where the current operation of this driver is
  fw_state,    \* m10bmc->bmcfw_state
  flash_busy,  \* pmci->flash_busy
  doorbell,    \* the doorbell register: request, progress, host status, RSU status
  staged,      \* the staging area: whose image, its size, the blocks written
  programmed,  \* the upload whose image the BMC programmed last
  late,        \* cancel was requested after the last check of cancel_request
  reader,      \* a flash read holds flash_mutex and the flash mux
  retimer,     \* where the retimer load is
  loads        \* retimer loads and flash reads begun

secVars == <<sop, fw_state, flash_busy>>
bmcVars == <<doorbell, staged, programmed>>
otherVars == <<reader, retimer, loads>>
allVars == <<vars, secVars, bmcVars, late, otherVars>>

SecTypeOK ==
  /\ sop \in {"start", "lock", "idle", "init", "init_wait", "ready", "check_cancel",
              "data", "send", "send_wait", "done_wait"}
  /\ fw_state \in FwState
  /\ flash_busy \in BOOLEAN
  /\ doorbell \in [request : BOOLEAN, pkvl : BOOLEAN, prog : RsuProg, host : HostStat, stat : RsuStat]
  \* the staging area is never overrun
  /\ staged \in [of : 0..MaxUploads, size : 0 .. (WordMod - 1), blocks : 0..StagingSize]
  /\ programmed \in 0..MaxUploads
  /\ late \in BOOLEAN
  /\ reader \in BOOLEAN
  /\ retimer \in {"none", "check", "trigger", "wait", "exit"}
  /\ loads \in 0..MaxLoads

SecInit ==
  /\ Init
  /\ sop = "start"
  /\ fw_state = "NORMAL"
  /\ flash_busy = FALSE
  /\ doorbell = [request |-> FALSE, pkvl |-> FALSE, prog |-> "IDLE", host |-> "IDLE", stat |-> "NORMAL"]
  /\ staged = [of |-> 0, size |-> 0, blocks |-> 0]
  /\ programmed = 0
  /\ late = FALSE
  /\ reader = FALSE /\ retimer = "none" /\ loads = 0

-----------------------------------------------------------------------------
(* What the steps are made of.                                             *)

rsu_prog == doorbell.prog
rsu_progress_done == rsu_prog \in {"IDLE", "RSU_DONE"}
rsu_progress_busy == rsu_prog \in {"BUSY", "UPDATE_CANCEL"}
rsu_status_ok == doorbell.stat = "NORMAL"

m10bmc_fw_state_set(new) == fw_state' = IF Handshake THEN new ELSE fw_state

\* lock_write, unlock_write and a flash write take flash_mutex.
FlashMutexFree == Bulk => ~reader

\* Fault: the lock does not wait for a read that has begun.
flash_lock_write_NoMutex == flash_busy' = Bulk

flash_lock_write == FlashMutexFree /\ flash_busy' = Bulk
flash_unlock_write == FlashMutexFree /\ flash_busy' = FALSE

\* The BMC has nothing left to do: a condition that is false stays false.
BmcQuiet ==
  /\ ~doorbell.request
  /\ rsu_prog \in {"IDLE", "RSU_DONE"} \/ (rsu_prog = "READY" /\ doorbell.host = "IDLE")

\* The results of an access that returns err if it works, and of a wait for
\* a condition.  Either may fail; a wait expires when the BMC has nothing
\* left to do, and with the fault "slow" at any time.
RwError == IF "rw" \in Faults THEN {"RW_ERROR"} ELSE {}
Access(err) == {err} \cup RwError
WaitFor(cond, err) ==
  (IF cond THEN {err} ELSE IF "slow" \in Faults \/ BmcQuiet THEN {"TIMEOUT"} ELSE {}) \cup RwError

\* rsu_cancel: what it returns, and the abort it leaves in the doorbell.
rsu_cancel_result == Access(IF rsu_prog = "READY" THEN "CANCELED" ELSE "BUSY")

rsu_cancel(err) ==
  doorbell' = [doorbell EXCEPT !.host = IF err = "CANCELED" THEN "ABORT_RSU" ELSE @]

-----------------------------------------------------------------------------
(* m10bmc_sec_prepare.                                                     *)

prepare_begin ==
  /\ sop = "start"
  /\ prepare_forgets_cancel
  /\ sop' = "lock"
  /\ UNCHANGED <<fw_state, flash_busy, bmcVars, late, otherVars>>

prepare_lock ==
  /\ sop = "lock"
  /\ LET err == IF remaining_size = 0 \/ remaining_size > StagingSize THEN "INVALID_SIZE"
                ELSE IF flash_busy THEN "BUSY" ELSE "NONE"
     IN  \/ /\ err = "NONE"
            /\ flash_lock_write
            /\ sop' = "idle"
            /\ UNCHANGED vars
         \/ /\ err # "NONE"
            /\ prepare_returns(err)
            /\ sop' = "start"
            /\ UNCHANGED flash_busy
  /\ UNCHANGED <<fw_state, bmcVars, late, otherVars>>

rsu_check_idle ==
  /\ sop = "idle"
  /\ \E err \in Access(IF rsu_progress_done THEN "NONE" ELSE "BUSY") :
       \/ /\ err = "NONE"
          /\ m10bmc_fw_state_set("PREPARE")
          /\ sop' = "init"
          /\ UNCHANGED <<vars, flash_busy>>
       \/ /\ err # "NONE"
          /\ prepare_returns(err)
          /\ flash_unlock_write
          /\ sop' = "start"
          /\ UNCHANGED fw_state
  /\ UNCHANGED <<bmcVars, late, otherVars>>

\* Fault: the error exit of prepare leaves the flash locked.
prepare_exit_KeepsLock(err) ==
  /\ prepare_returns(err)
  /\ m10bmc_fw_state_set("NORMAL")
  /\ sop' = "start"
  /\ UNCHANGED flash_busy

\* fw_state_exit and unlock_flash.  The caller says what becomes of the doorbell.
prepare_exit(err) ==
  /\ prepare_returns(err)
  /\ m10bmc_fw_state_set("NORMAL")
  /\ flash_unlock_write
  /\ sop' = "start"

\* Fault: the host status of the last update is left in the doorbell.
rsu_update_init_KeepsHost ==
  /\ sop = "init"
  /\ \E err \in Access("NONE") :
       \/ /\ err = "NONE"
          /\ doorbell' = [doorbell EXCEPT !.request = TRUE]
          /\ sop' = "init_wait"
          /\ UNCHANGED <<vars, fw_state, flash_busy>>
       \/ err # "NONE" /\ prepare_exit(err) /\ UNCHANGED doorbell
  /\ UNCHANGED <<staged, programmed, late, otherVars>>

rsu_update_init ==
  /\ sop = "init"
  /\ \E err \in Access("NONE") :
       \/ /\ err = "NONE"
          /\ doorbell' = [doorbell EXCEPT !.request = TRUE, !.host = "IDLE"]
          /\ sop' = "init_wait"
          /\ UNCHANGED <<vars, fw_state, flash_busy>>
       \/ err # "NONE" /\ prepare_exit(err) /\ UNCHANGED doorbell
  /\ UNCHANGED <<staged, programmed, late, otherVars>>

rsu_start_done ==
  /\ ~doorbell.request
  /\ doorbell.stat \in {"ERASE_FAIL", "WEAROUT"} \/ ~rsu_progress_done

\* Fault: the wait for the BMC to start has no limit.
rsu_update_init_wait_Forever ==
  /\ sop = "init_wait"
  /\ rsu_start_done
  /\ \/ /\ doorbell.stat \notin {"ERASE_FAIL", "WEAROUT"}
        /\ sop' = "ready"
        /\ UNCHANGED <<vars, fw_state, flash_busy>>
     \/ doorbell.stat \in {"ERASE_FAIL", "WEAROUT"} /\ prepare_exit("HW_ERROR")
  /\ UNCHANGED <<bmcVars, late, otherVars>>

rsu_update_init_wait ==
  /\ sop = "init_wait"
  /\ \E err \in WaitFor(rsu_start_done, CASE doorbell.stat = "WEAROUT" -> "WEAROUT"
                                          [] doorbell.stat = "ERASE_FAIL" -> "HW_ERROR"
                                          [] OTHER -> "NONE") :
       \/ err = "NONE" /\ sop' = "ready" /\ UNCHANGED <<vars, fw_state, flash_busy>>
       \/ err # "NONE" /\ prepare_exit(err)
  /\ UNCHANGED <<bmcVars, late, otherVars>>

rsu_prog_ready ==
  /\ sop = "ready"
  /\ \E err \in WaitFor(rsu_prog # "PREPARE", IF rsu_prog = "READY" THEN "NONE" ELSE "HW_ERROR") :
       \/ err = "NONE" /\ sop' = "check_cancel" /\ UNCHANGED <<vars, fw_state, flash_busy>>
       \/ err # "NONE" /\ prepare_exit(err)
  /\ UNCHANGED <<bmcVars, late, otherVars>>

prepare_end ==
  /\ sop = "check_cancel"
  /\ \/ /\ cancel_request
        /\ \E err \in rsu_cancel_result : rsu_cancel(err) /\ prepare_exit(err)
     \/ /\ ~cancel_request
        /\ prepare_returns("NONE")
        /\ m10bmc_fw_state_set("WRITE")
        /\ sop' = "start"
        /\ UNCHANGED <<flash_busy, doorbell>>
  /\ UNCHANGED <<staged, programmed, late, otherVars>>

-----------------------------------------------------------------------------
(* m10bmc_sec_fw_write, m10bmc_sec_poll_complete, m10bmc_sec_cleanup.       *)

m10bmc_sec_fw_write ==
  /\ pc = "write" /\ sop = "start"
  /\ \/ /\ cancel_request
        /\ \E err \in rsu_cancel_result : rsu_cancel(err) /\ write_returns(err, 0)
        /\ UNCHANGED sop
     \/ /\ ~cancel_request
        /\ \E err \in Access(IF rsu_prog = "READY" THEN "NONE" ELSE "HW_ERROR") :
             \/ err = "NONE" /\ sop' = "data" /\ UNCHANGED vars
             \/ err # "NONE" /\ write_returns(err, 0) /\ UNCHANGED sop
        /\ UNCHANGED doorbell
  /\ UNCHANGED <<fw_state, flash_busy, staged, programmed, late, otherVars>>

\* One block goes to the staging area.
m10bmc_sec_write ==
  /\ sop = "data"
  /\ FlashMutexFree
  /\ \E err \in Access("NONE") :
       /\ write_returns(err, 1)
       /\ staged' = IF err = "NONE"
                    THEN [of |-> uploads, size |-> size, blocks |-> staged.blocks + 1]
                    ELSE staged
  /\ sop' = "start"
  /\ UNCHANGED <<fw_state, flash_busy, doorbell, programmed, late, otherVars>>

\* Fault: a cancel that came while the last block was written is not seen.
m10bmc_sec_poll_complete_NoCheck ==
  /\ pc = "poll" /\ sop = "start"
  /\ m10bmc_fw_state_set("PROGRAM")
  /\ sop' = "send"
  /\ late' = FALSE
  /\ UNCHANGED <<vars, bmcVars, flash_busy, otherVars>>

m10bmc_sec_poll_complete ==
  /\ pc = "poll" /\ sop = "start"
  /\ \/ /\ cancel_request
        /\ \E err \in rsu_cancel_result : rsu_cancel(err) /\ poll_complete_returns(err)
        /\ UNCHANGED <<sop, fw_state, late>>
     \/ /\ ~cancel_request
        /\ m10bmc_fw_state_set("PROGRAM")
        /\ sop' = "send"
        /\ late' = FALSE
        /\ UNCHANGED <<vars, doorbell>>
  /\ UNCHANGED <<flash_busy, staged, programmed, otherVars>>

\* Every early return of poll_complete.
poll_fails(err) == poll_complete_returns(err) /\ sop' = "start"

rsu_send_data ==
  /\ sop = "send"
  /\ \E err \in Access("NONE") :
       \/ /\ err = "NONE"
          /\ doorbell' = [doorbell EXCEPT !.host = "WRITE_DONE"]
          /\ sop' = "send_wait"
          /\ UNCHANGED vars
       \/ err # "NONE" /\ poll_fails(err) /\ UNCHANGED doorbell
  /\ UNCHANGED <<fw_state, flash_busy, staged, programmed, late, otherVars>>

rsu_send_data_wait ==
  /\ sop = "send_wait"
  /\ \E err \in WaitFor(rsu_prog # "READY", IF rsu_status_ok THEN "NONE" ELSE "HW_ERROR") :
       \/ err = "NONE" /\ sop' = "done_wait" /\ UNCHANGED vars
       \/ err # "NONE" /\ poll_fails(err)
  /\ UNCHANGED <<fw_state, flash_busy, bmcVars, late, otherVars>>

rsu_check_complete ==
  /\ sop = "done_wait"
  /\ \E err \in WaitFor(~rsu_status_ok \/ ~rsu_progress_busy,
                        IF rsu_status_ok /\ rsu_progress_done THEN "NONE" ELSE "HW_ERROR") :
       poll_complete_returns(err)
  /\ sop' = "start"
  /\ UNCHANGED <<fw_state, flash_busy, bmcVars, late, otherVars>>

\* Fault: cleanup forgets the firmware state.
m10bmc_sec_cleanup_KeepsState ==
  /\ pc = "cleanup"
  /\ \E err \in rsu_cancel_result : rsu_cancel(err)
  /\ flash_unlock_write
  /\ cleanup_returns
  /\ UNCHANGED <<sop, fw_state, staged, programmed, late, otherVars>>

m10bmc_sec_cleanup ==
  /\ pc = "cleanup"
  /\ \E err \in rsu_cancel_result : rsu_cancel(err)
  /\ m10bmc_fw_state_set("NORMAL")
  /\ flash_unlock_write
  /\ cleanup_returns
  /\ UNCHANGED <<sop, staged, programmed, late, otherVars>>

SecDriver ==
  \/ prepare_begin \/ prepare_lock \/ rsu_check_idle
  \/ rsu_update_init \/ rsu_update_init_wait \/ rsu_prog_ready \/ prepare_end
  \/ m10bmc_sec_fw_write \/ m10bmc_sec_write
  \/ m10bmc_sec_poll_complete \/ rsu_send_data \/ rsu_send_data_wait \/ rsu_check_complete
  \/ m10bmc_sec_cleanup

-----------------------------------------------------------------------------
(* The BMC firmware, as the driver expects it (external).                  *)

bmc_request ==
  /\ doorbell.request
  /\ \/ doorbell' = [doorbell EXCEPT !.request = FALSE, !.prog = "PREPARE", !.stat = "NORMAL"]
     \/ \E stat \in {"ERASE_FAIL", "WEAROUT"} :
          doorbell' = [doorbell EXCEPT !.request = FALSE, !.stat = stat]
  /\ UNCHANGED <<staged, programmed>>

\* The staging area is erased.
bmc_erase ==
  /\ rsu_prog = "PREPARE"
  /\ \/ /\ doorbell' = [doorbell EXCEPT !.prog = "READY"]
        /\ staged' = [of |-> 0, size |-> 0, blocks |-> 0]
     \/ /\ doorbell' = [doorbell EXCEPT !.prog = "IDLE", !.stat = "ERASE_FAIL"]
        /\ UNCHANGED staged
  /\ UNCHANGED programmed

bmc_host_status ==
  /\ rsu_prog = "READY"
  /\ \/ doorbell.host = "WRITE_DONE" /\ doorbell' = [doorbell EXCEPT !.prog = "BUSY"]
     \/ doorbell.host = "ABORT_RSU" /\ doorbell' = [doorbell EXCEPT !.prog = "UPDATE_CANCEL"]
  /\ UNCHANGED <<staged, programmed>>

bmc_finish ==
  /\ \/ /\ rsu_prog = "BUSY"
        /\ \/ /\ doorbell' = [doorbell EXCEPT !.prog = "RSU_DONE"]
              /\ programmed' = staged.of
           \/ /\ doorbell' = [doorbell EXCEPT !.prog = "RSU_DONE", !.stat = "AUTH_FAIL"]
              /\ UNCHANGED programmed
     \/ /\ rsu_prog \in {"UPDATE_CANCEL", "PKVL_DONE"}
        /\ doorbell' = [doorbell EXCEPT !.prog = "IDLE"]
        /\ UNCHANGED programmed
  /\ UNCHANGED staged

bmc_retimer ==
  /\ doorbell.pkvl
  /\ rsu_progress_done
  /\ doorbell' = [doorbell EXCEPT !.pkvl = FALSE, !.prog = "PKVL_DONE"]
  /\ UNCHANGED <<staged, programmed>>

\* An update the host abandoned.
bmc_timeout ==
  /\ rsu_prog = "READY" /\ doorbell.host = "IDLE"
  /\ doorbell' = [doorbell EXCEPT !.prog = "IDLE", !.stat = "TIMEOUT"]
  /\ UNCHANGED <<staged, programmed>>

BmcWorks == bmc_request \/ bmc_erase \/ bmc_host_status \/ bmc_finish \/ bmc_retimer

Bmc == (BmcWorks \/ bmc_timeout) /\ UNCHANGED <<vars, secVars, late, otherVars>>

-----------------------------------------------------------------------------
(* m10bmc_sec_retimer_eeprom_load and m10bmc_pmci_flash_read.              *)

retimer_begin ==
  /\ Board = "N3000"
  /\ retimer = "none" /\ loads < MaxLoads
  /\ loads' = loads + 1
  /\ m10bmc_fw_state_set("RETIMER")
  /\ retimer' = "check"
  /\ UNCHANGED <<doorbell, reader>>

retimer_check_idle ==
  /\ retimer = "check"
  /\ \E err \in Access(IF rsu_progress_done \/ rsu_prog = "PKVL_DONE" THEN "NONE" ELSE "BUSY") :
       retimer' = IF err = "NONE" THEN "trigger" ELSE "exit"
  /\ UNCHANGED <<fw_state, doorbell, reader, loads>>

trigger_retimer_eeprom_load ==
  /\ retimer = "trigger"
  /\ \E err \in Access("NONE") :
       /\ doorbell' = [doorbell EXCEPT !.pkvl = @ \/ err = "NONE"]
       /\ retimer' = IF err = "NONE" THEN "wait" ELSE "exit"
  /\ UNCHANGED <<fw_state, reader, loads>>

\* The waits for the load end with it or expire, when the bit is taken back;
\* a read that fails ends them too and leaves the bit.
poll_retimer_done ==
  /\ retimer = "wait"
  /\ \/ (~doorbell.pkvl \/ "rw" \in Faults) /\ UNCHANGED doorbell
     \/ doorbell.pkvl /\ doorbell' = [doorbell EXCEPT !.pkvl = FALSE]
  /\ retimer' = "exit"
  /\ UNCHANGED <<fw_state, reader, loads>>

retimer_exit ==
  /\ retimer = "exit"
  /\ m10bmc_fw_state_set("NORMAL")
  /\ retimer' = "none"
  /\ UNCHANGED <<doorbell, reader, loads>>

\* The reader keeps flash_mutex from the check of flash_busy to the end.
flash_read_begin ==
  /\ Bulk
  /\ ~reader /\ loads < MaxLoads
  /\ ~flash_busy
  /\ loads' = loads + 1
  /\ reader' = TRUE
  /\ UNCHANGED <<fw_state, doorbell, retimer>>

flash_read_end ==
  /\ reader
  /\ reader' = FALSE
  /\ UNCHANGED <<fw_state, doorbell, retimer, loads>>

OthersEnd ==
  retimer_check_idle \/ trigger_retimer_eeprom_load \/ poll_retimer_done \/ retimer_exit \/ flash_read_end

Others ==
  /\ OthersEnd \/ retimer_begin \/ flash_read_begin
  /\ UNCHANGED <<vars, sop, flash_busy, staged, programmed, late>>

-----------------------------------------------------------------------------
\* The user of ImageLoad; a cancel is late once poll_complete began to send.
SecUser ==
  /\ User
  /\ late' = (late \/ (cancel_request' /\ ~cancel_request /\ (sop \in {"send", "send_wait", "done_wait"}
                                            \/ pc \in {"cleanup", "put", "complete"})))
  /\ UNCHANGED <<secVars, bmcVars, otherVars>>

SecWorkerOwn == WorkerOwn /\ UNCHANGED <<secVars, bmcVars, late, otherVars>>

SecNext == SecUser \/ SecWorkerOwn \/ SecDriver \/ Bmc \/ Others

SecSpec == SecInit /\ [][SecNext]_allVars

\* The worker and the flushes as in ImageLoad; the BMC answers, and the
\* retimer load and the flash read go on to their end.
SecFairSpec ==
  /\ SecSpec
  /\ WF_allVars(SecWorkerOwn \/ SecDriver)
  /\ WF_allVars(SecUser /\ release_flushed)
  /\ WF_allVars(SecUser /\ unregister_flushed)
  /\ WF_allVars(Bmc /\ BmcWorks)
  /\ WF_allVars(Others /\ OthersEnd)

-----------------------------------------------------------------------------
(* What the driver must guarantee.                                         *)

\* Outside the operations of an upload the flash is unlocked and the firmware
\* state is not that of an update, whichever operation failed; and no
\* operation writes to the flash or unlocks it without holding the lock.
UpdateStateReleased ==
  /\ pc \in {"none", "put", "complete", "evput"} =>
       ~flash_busy /\ fw_state \in {"NORMAL", "RETIMER"}
  /\ Bulk /\ (sop = "data" \/ pc = "cleanup") => flash_busy

\* From the request of an update to the last block, while the driver waits
\* for the erase or writes, nobody is let at the handshake registers, and
\* nobody reads the flash.
EraseWriteProtected ==
  sop \in {"init", "init_wait", "ready", "check_cancel", "data"} =>
    /\ Handshake => fw_state \in {"PREPARE", "WRITE", "RETIMER"}
    /\ ~reader

\* The BMC starts to program only a complete image, of one upload.
ProgramsWholeImage ==
  [][rsu_prog = "READY" /\ rsu_prog' = "BUSY"
       => staged.of # 0 /\ staged.blocks = staged.size]_allVars

\* An upload that ends without an error was programmed by the BMC.
SuccessMeansProgrammed ==
  Idle /\ uploads > 0 /\ err_code = "NONE" => programmed = uploads

\* A cancel requested after prepare began and before the image is sent off
\* ends the upload with an error.
CancelHonoured ==
  Idle /\ uploads > 0 /\ cancel_request /\ ~late => err_code # "NONE"

\* Taken together: the result of an upload is true to the BMC and to the user.
OutcomeTrue == SuccessMeansProgrammed /\ CancelHonoured

\* What the framework and the driver guarantee a user who waits for the eventfd
\* only, with a retimer load beside the update: references, close, locks and
\* outcome as in the runs of each.
SecUpdateTrue == SecTypeOK /\ RefsBalanced /\ CloseWaits /\ UpdateStateReleased /\ OutcomeTrue

\* The driver with the BMC is a lower-level driver as ImageLoad assumes it:
\* each operation returns, with a result ImageLoad handles.
ImplementsImageLoad == FairSpec
=============================================================================
