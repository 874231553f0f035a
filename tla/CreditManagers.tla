--------------------------- MODULE CreditManagers ---------------------------
(***************************************************************************)
(* The two managers that push data against credits the device grants while *)
(* they run: CvP over PCIe (version 2 counts credits, version 1 does not)  *)
(* and the partial reconfiguration engine of the FME.                      *)
(***************************************************************************)
EXTENDS FpgaMgr

CONSTANTS
  CreditWrap,   \* values of the CvP credit register (256 in the device)
  Fifo,         \* credits the device grants ahead
  PrMaxWaits    \* PR_WAIT_TIMEOUT: polls for a credit over a whole write

ASSUME CreditAssumption == CreditWrap \in Nat \ {0} /\ Fifo \in Nat \ {0} /\ PrMaxWaits \in Nat

VARIABLES
  cvp,   \* struct altera_cvp_conf and the CvP registers
  pre    \* struct fme_mgr_priv and the PR engine

cred_vars == <<mgr_vars, cvp, pre>>

altera_cvp_ops == [NoOps EXCEPT !.write = TRUE, !.complete = TRUE]
fme_mgr_ops == [NoOps EXCEPT !.write = TRUE, !.complete = TRUE]
CvpOff == [on |-> FALSE, pc |-> "none", v2 |-> FALSE, chk |-> FALSE, left |-> 0, sent |-> 0, granted |-> 0,
           config |-> FALSE, xfer |-> FALSE, ready |-> FALSE, user |-> FALSE, err |-> FALSE, mem |-> FALSE]
PreOff == [on |-> FALSE, pc |-> "none", left |-> 0, credit |-> 0, hw |-> 0, waits |-> 0,
           start |-> FALSE, dirty |-> FALSE, sts |-> FALSE, hwerr |-> FALSE, pr_error |-> FALSE]

CredInit == MgrInit /\ cvp = CvpOff /\ pre = PreOff

-----------------------------------------------------------------------------
(* CvP.                                                                    *)

altera_cvp_state(user, en) == IF user THEN "operating" ELSE IF en THEN "power up" ELSE "unknown"

\* Memory access is enabled and the BAR requested, or all is undone.
altera_cvp_probe ==
  /\ \/ \E v2, chk, user, en \in BOOLEAN :
          /\ cvp' = [CvpOff EXCEPT !.on = TRUE, !.v2 = v2, !.chk = chk, !.user = user, !.mem = TRUE]
          /\ fpga_mgr_register_full(altera_cvp_ops, altera_cvp_state(user, en))
     \/ ~mgr.reg /\ cvp' = CvpOff /\ UNCHANGED mgr_vars
  /\ UNCHANGED pre

altera_cvp_remove ==
  /\ cvp.on /\ fpga_mgr_unregister
  /\ cvp' = CvpOff /\ UNCHANGED pre

chkcfg_store == cvp.on /\ cvp' = [cvp EXCEPT !.chk = ~@] /\ UNCHANGED <<mgr_vars, pre>>

\* A status bit that follows within the poll time, or not.
altera_cvp_wait_status == BOOLEAN

\* Version 2 drops what an earlier transfer left and its credits start again; a
\* register is not reached, or the device does not follow in time.
altera_cvp_v2_clear_state(c) ==
  LET low == [c EXCEPT !.xfer = FALSE, !.config = FALSE] IN
  IF ~c.v2 THEN {[ok |-> TRUE, c |-> c]}
  ELSE {[ok |-> FALSE, c |-> c], [ok |-> FALSE, c |-> [low EXCEPT !.user = FALSE]],
        [ok |-> TRUE, c |-> [low EXCEPT !.granted = Fifo]]}

\* End of a transfer: both control bits are cleared, CFG_RDY must follow.
altera_cvp_teardown(c, down) == [c EXCEPT !.xfer = FALSE, !.config = FALSE, !.ready = @ /\ ~down]

\* Refused for a partial image, and by a device whose CvP mode is off (CVP_EN).  A
\* transfer that an earlier load left started is torn down first.
altera_cvp_write_init ==
  /\ cvp.on /\ load.pc = "write_init"
  /\ \/ MgrWriteInit(FALSE) /\ UNCHANGED cvp
     \/ /\ ~load.partial
        /\ \E down, up, sound \in altera_cvp_wait_status :
             LET c0 == IF cvp.ready THEN altera_cvp_teardown(cvp, down) ELSE cvp IN
             IF c0.ready THEN cvp' = c0 /\ MgrWriteInit(FALSE)
             ELSE \E o \in altera_cvp_v2_clear_state(c0) :
                    LET c1 == [o.c EXCEPT !.sent = 0, !.user = FALSE, !.err = FALSE, !.config = TRUE, !.ready = up] IN
                    IF ~o.ok THEN cvp' = o.c /\ MgrWriteInit(FALSE)
                    ELSE IF ~up \/ (c1.chk /\ ~sound) THEN cvp' = c1 /\ MgrWriteInit(FALSE)
                    ELSE cvp' = [c1 EXCEPT !.xfer = TRUE] /\ MgrWriteInit(TRUE)
  /\ UNCHANGED pre

cvp_write_begin ==
  /\ cvp.on /\ load.pc = "write" /\ cvp.pc = "none"
  /\ cvp' = [cvp EXCEPT !.pc = "block", !.left = MgrChunk]
  /\ UNCHANGED <<mgr_vars, pre>>

\* The device makes room, or finds an error in the data.
cvp_device ==
  /\ cvp.pc = "block" /\ UNCHANGED <<mgr_vars, pre>>
  /\ \/ cvp.v2 /\ cvp.granted - cvp.sent < Fifo /\ cvp' = [cvp EXCEPT !.granted = @ + 1]
     \/ ~cvp.err /\ cvp.sent > 0 /\ cvp' = [cvp EXCEPT !.err = TRUE]

\* Fault: counts compared by size, which fails once the register has wrapped.
altera_cvp_v2_wait_for_credit_Less == (cvp.sent % CreditWrap) <= (cvp.granted % CreditWrap)
\* The register and the count of blocks sent differ, both in eight bits.
altera_cvp_v2_wait_for_credit == cvp.granted % CreditWrap # cvp.sent % CreditWrap

\* A block is sent when there is room for it.
altera_cvp_send_block ==
  /\ cvp.pc = "block" /\ cvp.left > 0
  /\ cvp.v2 => altera_cvp_v2_wait_for_credit
  /\ cvp' = [cvp EXCEPT !.left = @ - 1, !.sent = @ + 1, !.pc = IF cvp.chk THEN "check" ELSE "block"]
  /\ UNCHANGED <<mgr_vars, pre>>

\* The credit register is not reached, at any time; or there is no room, and the
\* error flag polled meanwhile is set or the wait times out.
cvp_no_credit ==
  /\ cvp.pc = "block" /\ cvp.left > 0 /\ cvp.v2
  /\ cvp' = [cvp EXCEPT !.pc = "none"] /\ MgrWrite(FALSE) /\ UNCHANGED pre

\* The error flag, after whole 4 kB and at the end, if the check is on.
altera_cvp_chk_error ==
  /\ cvp.pc = "check"
  /\ IF cvp.err THEN cvp' = [cvp EXCEPT !.pc = "none"] /\ MgrWrite(FALSE)
     ELSE cvp' = [cvp EXCEPT !.pc = "block"] /\ UNCHANGED mgr_vars
  /\ UNCHANGED pre

altera_cvp_write ==
  /\ cvp.pc = "block" /\ cvp.left = 0
  /\ cvp' = [cvp EXCEPT !.pc = "none"]
  /\ MgrWrite(~(cvp.chk /\ cvp.err)) /\ UNCHANGED pre

\* Torn down; the latched error tells a bad image; the device must go to user
\* mode, which one with an error does not.
altera_cvp_write_complete ==
  /\ cvp.on /\ load.pc = "write_complete"
  /\ \E down, user \in altera_cvp_wait_status :
       LET up == down /\ ~cvp.err /\ user IN
       /\ cvp' = [altera_cvp_teardown(cvp, down) EXCEPT !.user = up]
       /\ MgrWriteComplete(up)
  /\ UNCHANGED pre

-----------------------------------------------------------------------------
(* The PR engine of the FME.                                               *)

\* The engine is as an earlier driver left it: with an error, or showing its status.
fme_mgr_probe ==
  /\ fpga_mgr_register_full(fme_mgr_ops, "unknown")
  /\ \E sts, hwerr \in BOOLEAN : pre' = [PreOff EXCEPT !.on = TRUE, !.sts = sts, !.hwerr = hwerr]
  /\ UNCHANGED cvp

\* The error of the engine is read and cleared, but only while the status bit
\* PR_STS is set: without it the error stays in the device and reads as none.
fme_mgr_pr_error_handle(p) ==
  IF ~p.sts THEN [p EXCEPT !.pr_error = FALSE] ELSE [p EXCEPT !.pr_error = p.hwerr, !.hwerr = FALSE]

\* Reset, which drops the data of an earlier load, then a poll for PR_STS to be
\* clear: after a poll that succeeds nothing is read, and an error of an earlier
\* load stays.  Without the acknowledgement the reset stays set.
fme_mgr_write_init ==
  /\ pre.on /\ load.pc = "write_init"
  /\ \/ ~load.partial /\ MgrWriteInit(FALSE) /\ UNCHANGED pre
     \/ load.partial /\ MgrWriteInit(FALSE) /\ UNCHANGED pre
     \/ /\ load.partial
        /\ \E busy \in BOOLEAN :
             /\ pre' = fme_mgr_pr_error_handle([pre EXCEPT !.start = FALSE, !.dirty = FALSE, !.hw = Fifo, !.sts = busy])
             /\ MgrWriteInit(~busy)
  /\ UNCHANGED cvp

\* The push starts with the credits read once; they are then counted down.
fme_write_begin ==
  /\ pre.on /\ load.pc = "write" /\ pre.pc = "none"
  /\ pre' = [pre EXCEPT !.pc = "push", !.left = MgrChunk, !.waits = 0, !.credit = pre.hw, !.start = TRUE]
  /\ UNCHANGED <<mgr_vars, cvp>>

\* From the start of a load on the engine makes room, changes its status bit and
\* finds errors, with the bit set or not.
pre_device ==
  /\ pre.on /\ pre.start /\ UNCHANGED <<mgr_vars, cvp>>
  /\ \/ pre.hw < Fifo /\ pre' = [pre EXCEPT !.hw = @ + 1]
     \/ pre' = [pre EXCEPT !.sts = ~@]
     \/ ~pre.hwerr /\ pre' = [pre EXCEPT !.hwerr = TRUE]

fme_push ==
  /\ pre.pc = "push" /\ pre.left > 0 /\ pre.credit > 1
  /\ pre' = [pre EXCEPT !.left = @ - 1, !.credit = @ - 1, !.hw = @ - 1, !.dirty = TRUE]
  /\ UNCHANGED <<mgr_vars, cvp>>

\* Not enough credit: read it again, so many times in all.
fme_wait_credit ==
  /\ pre.pc = "push" /\ pre.left > 0 /\ pre.credit <= 1
  /\ IF pre.waits > PrMaxWaits THEN MgrWrite(FALSE) /\ pre' = [pre EXCEPT !.pc = "none"]
     ELSE pre' = [pre EXCEPT !.waits = @ + 1, !.credit = pre.hw] /\ UNCHANGED mgr_vars
  /\ UNCHANGED cvp

fme_mgr_write ==
  /\ pre.pc = "push" /\ pre.left = 0
  /\ pre' = [pre EXCEPT !.pc = "none"] /\ MgrWrite(TRUE) /\ UNCHANGED cvp

\* The engine releases its resources, or not in time; its error is read, if it
\* shows one by its status bit, and fails the load.
fme_mgr_write_complete ==
  /\ pre.on /\ load.pc = "write_complete" /\ UNCHANGED cvp
  /\ \/ MgrWriteComplete(FALSE) /\ UNCHANGED pre
     \/ /\ pre' = fme_mgr_pr_error_handle([pre EXCEPT !.start = FALSE, !.dirty = FALSE])
        /\ MgrWriteComplete(~(pre.sts /\ pre.hwerr))

CredNext ==
  \/ altera_cvp_probe \/ altera_cvp_remove \/ chkcfg_store \/ fme_mgr_probe
  \/ MgrFramework(BOOLEAN) /\ UNCHANGED <<cvp, pre>> /\ mgr'.reg = mgr.reg
  \/ fpga_mgr_unregister /\ pre.on /\ pre' = PreOff /\ UNCHANGED cvp
  \/ altera_cvp_write_init \/ cvp_write_begin \/ cvp_device \/ altera_cvp_send_block \/ cvp_no_credit
  \/ altera_cvp_chk_error \/ altera_cvp_write \/ altera_cvp_write_complete
  \/ fme_mgr_write_init \/ fme_write_begin \/ pre_device \/ fme_push \/ fme_wait_credit
  \/ fme_mgr_write \/ fme_mgr_write_complete

CredSpec == CredInit /\ [][CredNext]_cred_vars

-----------------------------------------------------------------------------
(* Properties.                                                             *)

\* CvP never sends a block the device has no room for, also after the eight bit
\* counts have wrapped.
CvpNoOverrun == cvp.on /\ cvp.v2 => cvp.sent <= cvp.granted

\* A CvP load that succeeded configured the device: an error it flagged is seen
\* at the end even when the check after each part is turned off.
CvpOperatingUser == cvp.on /\ LoadDone => cvp.user

\* The PR engine is never written without a credit: the count of the driver,
\* read once and counted down, is no more than what the engine has.
FmeNoOverrun == pre.on => pre.hw >= 0 /\ (pre.pc = "push" => pre.credit <= pre.hw)

\* Data is pushed only into an engine that holds nothing of an earlier load.
FmeFreshStart == pre.on /\ load.pc = "write" /\ pre.pc = "none" /\ load.sent = 0 => ~pre.dirty

\* A load that succeeded shows no error, and none that the engine reported with
\* its status bit was left to it: what is not promised is that an error without the
\* bit, or of an earlier load, has been seen or cleared.
FmeErrorSeen == pre.on /\ LoadDone => ~pre.pr_error /\ (pre.sts => ~pre.hwerr)

\* Taken together: data goes only where there is room for it, into an engine that
\* holds none of an earlier load, and a load does not succeed over an error that the
\* device shows.
CreditLoadTrue == CvpNoOverrun /\ CvpOperatingUser /\ FmeNoOverrun /\ FmeFreshStart /\ FmeErrorSeen
=============================================================================
