----------------------------- MODULE SocfpgaMgr -----------------------------
(***************************************************************************)
(* The managers of the Cyclone V and the Arria 10 SoC.  The first resets   *)
(* and configures the device and waits for the interrupt that tells the    *)
(* end of it, with a short timeout and open to signals; the second only    *)
(* does partial reconfiguration and polls.                                 *)
(***************************************************************************)
EXTENDS FpgaMgr

VARIABLES
  soc,    \* driver and registers it sets: step, control bits, interrupt, completion
  fab     \* the device: mode, CONF_DONE

soc_vars == <<mgr_vars, soc, fab>>

socfpga_fpga_ops == [NoOps EXCEPT !.write = TRUE, !.complete = TRUE]
socfpga_a10_fpga_mgr_ops == [NoOps EXCEPT !.hdr = 1, !.write = TRUE, !.complete = TRUE]
SocOff == [kind |-> "none", pc |-> "none", en |-> FALSE, axi |-> FALSE, irq |-> FALSE, done |-> FALSE,
           pr |-> FALSE, sel |-> FALSE, ratio |-> 0]

SocInit == MgrInit /\ soc = SocOff /\ fab = [mode |-> "off", confdone |-> FALSE]

socfpga_state_to_framework_state(mode) ==
  CASE mode = "off" -> "power off" [] mode = "reset" -> "reset" [] mode = "user" -> "operating"
    [] mode \in {"cfg", "init"} -> "write init" [] OTHER -> "unknown"

socfpga_fpga_probe ==
  \E mode \in {"off", "cfg", "user"} :
    /\ soc' = [SocOff EXCEPT !.kind = "socfpga"] /\ fab' = [mode |-> mode, confdone |-> mode = "user"]
    /\ fpga_mgr_register_full(socfpga_fpga_ops, socfpga_state_to_framework_state(mode))

socfpga_a10_fpga_state(mode) ==
  CASE mode = "user" -> "operating" [] mode = "cfg" -> "write" [] mode = "reset" -> "reset" [] OTHER -> "unknown"

socfpga_a10_fpga_probe ==
  \E mode \in {"cfg", "user"} :
    /\ soc' = [SocOff EXCEPT !.kind = "a10"] /\ fab' = [mode |-> mode, confdone |-> mode = "user"]
    /\ fpga_mgr_register_full(socfpga_a10_fpga_mgr_ops, socfpga_a10_fpga_state(mode))

SocIs(kind, pc) == soc.kind = kind /\ soc.pc = "none" /\ load.pc = pc

-----------------------------------------------------------------------------
(* Cyclone V.                                                              *)

\* The configuration mode read from the pins must be one of the table.
socfpga_fpga_cfg_mode_set == BOOLEAN
\* A state that comes within the polls, or not.
socfpga_fpga_wait_for_state == BOOLEAN

\* nCONFIG is pulled and released again whether or not the reset was seen.
socfpga_fpga_reset(cfg, reset) ==
  /\ soc' = IF cfg THEN [soc EXCEPT !.en = TRUE] ELSE soc
  /\ fab' = IF cfg /\ reset THEN [mode |-> "reset", confdone |-> FALSE] ELSE fab

\* Reset, then the configuration phase, then the data path is opened.
socfpga_fpga_ops_configure_init ==
  /\ SocIs("socfpga", "write_init")
  /\ \/ load.partial /\ MgrWriteInit(FALSE) /\ UNCHANGED <<soc, fab>>
     \/ /\ ~load.partial
        /\ \E cfg \in socfpga_fpga_cfg_mode_set, reset \in socfpga_fpga_wait_for_state :
             socfpga_fpga_reset(cfg, reset) /\ MgrWriteInit(FALSE)
     \/ /\ ~load.partial
        /\ soc' = [soc EXCEPT !.en = TRUE, !.axi = TRUE] /\ fab' = [mode |-> "cfg", confdone |-> FALSE]
        /\ MgrWriteInit(TRUE)

\* Words, then the bytes that remain; nothing is refused but nothing itself.
socfpga_fpga_ops_configure_write ==
  /\ SocIs("socfpga", "write")
  /\ MgrWrite(MgrChunk > 0) /\ UNCHANGED <<soc, fab>>

\* A device in its configuration phase that got a good image raises CONF_DONE.
fab_conf_done ==
  /\ fab.mode = "cfg" /\ ~fab.confdone /\ load.pc = "write_complete" /\ soc.axi
  /\ fab' = [fab EXCEPT !.confdone = TRUE]
  /\ UNCHANGED <<mgr_vars, soc>>

\* The wait starts: a fresh completion, then the interrupt is enabled.
socfpga_fpga_wait_for_config_done ==
  /\ SocIs("socfpga", "write_complete")
  /\ soc' = [soc EXCEPT !.pc = "wait", !.done = FALSE, !.irq = TRUE]
  /\ UNCHANGED <<mgr_vars, fab>>

\* The level of CONF_DONE; the handler masks itself when it succeeded.
socfpga_fpga_isr ==
  /\ soc.irq /\ fab.confdone
  /\ soc' = [soc EXCEPT !.irq = FALSE, !.done = TRUE]
  /\ UNCHANGED <<mgr_vars, fab>>

\* Fault: the interrupt stays enabled when the wait times out.
socfpga_config_wait_end_Irq ==
  /\ soc.pc = "wait"
  /\ \/ soc' = [soc EXCEPT !.pc = "none"] /\ MgrWriteComplete(FALSE)
     \/ soc' = [soc EXCEPT !.pc = "finish", !.irq = FALSE] /\ soc.done /\ UNCHANGED mgr_vars
  /\ UNCHANGED fab

\* Time is up: an error.  Woken, or interrupted by a signal: both go on.
socfpga_config_wait_end ==
  /\ soc.pc = "wait"
  /\ \/ soc' = [soc EXCEPT !.pc = "none", !.irq = FALSE] /\ MgrWriteComplete(FALSE)
     \/ soc' = [soc EXCEPT !.pc = "finish", !.irq = FALSE] /\ UNCHANGED mgr_vars
  /\ UNCHANGED fab

\* The data path is closed, clocks are sent, the device must reach user mode,
\* which one that is not done does not; then the interface is released.
socfpga_fpga_ops_configure_complete ==
  /\ soc.pc = "finish"
  /\ \E clocks, user \in BOOLEAN :
       LET up == clocks /\ fab.confdone /\ user IN
       /\ soc' = [soc EXCEPT !.pc = "none", !.axi = FALSE, !.en = @ /\ ~up]
       /\ fab' = [fab EXCEPT !.mode = IF up THEN "user" ELSE @]
       /\ MgrWriteComplete(up)

-----------------------------------------------------------------------------
(* Arria 10.                                                               *)

\* The clock to data ratio: 1, 2, 4 or 8, as the exponent that is written.
socfpga_a10_fpga_get_cd_ratio(width32, encrypt, compress) ==
  IF ~compress /\ ~encrypt THEN 0
  ELSE (IF compress THEN 2 ELSE 1) + (IF width32 THEN 1 ELSE 0)

\* Partial reconfiguration is 16 bits wide; the header tells the rest.
socfpga_a10_fpga_set_cdratio(encrypt, compress) == socfpga_a10_fpga_get_cd_ratio(FALSE, encrypt, compress)

socfpga_a10_fpga_wait_for_pr_ready == BOOLEAN
\* Refused: a full image, the wrong mode pins, a device held by others.  Then the
\* request is made, and stays made when the device is not ready for it.
socfpga_a10_fpga_write_init ==
  /\ SocIs("a10", "write_init")
  /\ \/ MgrWriteInit(FALSE) /\ UNCHANGED soc
     \/ /\ load.partial
        /\ \E encrypt, compress \in BOOLEAN, ready \in socfpga_a10_fpga_wait_for_pr_ready :
             /\ soc' = [soc EXCEPT !.sel = TRUE, !.pr = TRUE,
                                   !.ratio = socfpga_a10_fpga_set_cdratio(encrypt, compress)]
             /\ MgrWriteInit(ready)
  /\ UNCHANGED fab

socfpga_a10_fpga_write ==
  /\ SocIs("a10", "write")
  /\ fab' = [fab EXCEPT !.mode = "cfg"] /\ MgrWrite(MgrChunk > 0) /\ UNCHANGED soc

socfpga_a10_fpga_wait_for_pr_done == BOOLEAN

\* The request, the clocks and the chip select are withdrawn in any case; then
\* the error is returned and the status is checked.
socfpga_a10_fpga_write_complete ==
  /\ SocIs("a10", "write_complete")
  /\ soc' = [soc EXCEPT !.pr = FALSE, !.sel = FALSE]
  /\ \E done \in socfpga_a10_fpga_wait_for_pr_done, mode \in {"cfg", "user"} :
       /\ fab' = [mode |-> mode, confdone |-> mode = "user"]
       /\ MgrWriteComplete(done /\ mode = "user")

SocNext ==
  \/ socfpga_fpga_probe \/ socfpga_a10_fpga_probe
  \/ MgrFramework(BOOLEAN) /\ UNCHANGED <<soc, fab>>
  \/ socfpga_fpga_ops_configure_init \/ socfpga_fpga_ops_configure_write \/ fab_conf_done
  \/ socfpga_fpga_wait_for_config_done \/ socfpga_fpga_isr \/ socfpga_config_wait_end
  \/ socfpga_fpga_ops_configure_complete
  \/ socfpga_a10_fpga_write_init \/ socfpga_a10_fpga_write \/ socfpga_a10_fpga_write_complete

SocSpec == SocInit /\ [][SocNext]_soc_vars

-----------------------------------------------------------------------------
(* Properties.                                                             *)

\* A load that succeeded left the device in user mode, also when the wait for
\* the interrupt was ended by a signal and not by the end of the configuration.
SocOperatingUser == mgr.reg /\ LoadDone /\ soc.kind # "none" => fab.mode = "user"

\* No interrupt is left enabled behind a wait, so none can complete a later one.
SocIrqOnlyInWait == soc.irq => soc.pc = "wait"

\* A write_complete withdraws the request of a partial reconfiguration also when it
\* goes wrong; a load that fails before leaves it made.
A10Released ==
  soc.kind = "a10" /\ load.pc = "none" /\ mgr.state \in {"operating", "write complete error"} /\ load.user # NoUser
    => ~soc.pr /\ ~soc.sel

\* Taken together: success means a running device; a load that failed leaves no
\* interrupt behind, and no request once write_complete has run.  (The request of
\* an Arria 10 that was not ready in write_init stays made.)
SocLoadTrue == SocOperatingUser /\ SocIrqOnlyInWait /\ A10Released
=============================================================================
