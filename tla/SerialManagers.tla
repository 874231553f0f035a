--------------------------- MODULE SerialManagers ---------------------------
(***************************************************************************)
(* The managers that configure a device in one pass: iCE40, Xilinx slave   *)
(* serial, Altera passive serial and MachXO2 over SPI, TS-73xx through a   *)
(* register, ZynqMP and Versal through firmware, and the Altera partial    *)
(* reconfiguration IP.  Each operation runs under the lock of the manager  *)
(* and is one step; the device, its pins and the bus answer as they like.  *)
(***************************************************************************)
EXTENDS FpgaMgr

CONSTANT MachPage   \* MACHXO2_PAGE_SIZE, in the units of the images

VARIABLE sm    \* driver and device: configuration memory, reset pin, PR start bit, CONF_DONE wired

ser_vars == <<mgr_vars, sm>>

\* versal and zynqmp have no write_complete.
SmOps(kind) == [NoOps EXCEPT !.write = TRUE, !.complete = kind \notin {"zynqmp", "versal"}]

SerInit == MgrInit /\ sm = [kind |-> "none", cfg |-> "none", held |-> FALSE, start |-> FALSE, confd |-> TRUE]

Configured == sm.cfg = "image"
SmIs(kind, pc) == sm.kind = kind /\ load.pc = pc
SmSet(cfg, held) == sm' = [sm EXCEPT !.cfg = cfg, !.held = held]

-----------------------------------------------------------------------------
(* The state operations, from the DONE or status of the device, and the    *)
(* probes, on a device in any condition.                                   *)

ice40_fpga_ops_state(cfg) == IF cfg = "image" THEN "operating" ELSE "unknown"
xilinx_spi_state(cfg) == IF cfg = "image" THEN "unknown" ELSE "reset"
\* The status pin shows a device that is held in reset.
altera_ps_state(status) == IF status THEN "reset" ELSE "unknown"
machxo2_spi_state(cfg, busy) == IF ~busy /\ cfg = "image" THEN "operating" ELSE "unknown"
zynqmp_fpga_ops_state(cfg) == IF cfg = "image" THEN "operating" ELSE "unknown"
\* From the status field of the IP.
alt_pr_fpga_state(cfg, start) ==
  CASE start -> "write" [] ~start /\ cfg = "image" -> "operating" [] ~start /\ cfg = "part" -> "write error" [] OTHER -> "reset"

SmProbed(kind, cfg, held, confd) ==
  sm' = [kind |-> kind, cfg |-> cfg, held |-> held, start |-> FALSE, confd |-> confd]
AnyCfg == {"none", "image"}

\* The reset line is taken asserted: the device loses its configuration.
ice40_fpga_probe ==
  /\ SmProbed("ice40", "none", TRUE, TRUE)
  /\ fpga_mgr_register_full(SmOps("ice40"), ice40_fpga_ops_state("none"))

xilinx_spi_probe ==
  \E cfg \in AnyCfg :
    /\ SmProbed("xilinx_spi", cfg, FALSE, TRUE)
    /\ fpga_mgr_register_full(SmOps("xilinx_spi"), xilinx_spi_state(cfg))

\* The CONF_DONE pin need not be wired.
altera_ps_probe ==
  \E cfg \in AnyCfg, confd, status \in BOOLEAN :
    /\ SmProbed("altera_ps", cfg, FALSE, confd)
    /\ fpga_mgr_register_full(SmOps("altera_ps"), altera_ps_state(status))

machxo2_spi_probe ==
  \E cfg \in AnyCfg, busy \in BOOLEAN :
    /\ SmProbed("machxo2", cfg, FALSE, TRUE)
    /\ fpga_mgr_register_full(SmOps("machxo2"), machxo2_spi_state(cfg, busy))

ts73xx_fpga_probe ==
  \E cfg \in AnyCfg : SmProbed("ts73xx", cfg, FALSE, TRUE) /\ fpga_mgr_register_full(SmOps("ts73xx"), "unknown")

zynqmp_fpga_probe ==
  \E cfg \in AnyCfg :
    SmProbed("zynqmp", cfg, FALSE, TRUE) /\ fpga_mgr_register_full(SmOps("zynqmp"), zynqmp_fpga_ops_state(cfg))

versal_fpga_probe ==
  \E cfg \in AnyCfg : SmProbed("versal", cfg, FALSE, TRUE) /\ fpga_mgr_register_full(SmOps("versal"), "unknown")

alt_pr_register ==
  \E cfg \in AnyCfg :
    SmProbed("alt_pr", cfg, FALSE, TRUE) /\ fpga_mgr_register_full(SmOps("alt_pr"), alt_pr_fpga_state(cfg, FALSE))

-----------------------------------------------------------------------------
(* The device.                                                             *)

\* A device that is reset loses its configuration, unless the reset fails.
Reset == {"none", sm.cfg}
\* What a write leaves: the device is configured by a whole image at most.
Written(ok) == IF ok /\ WriteEnds(load.pos + MgrChunk, load.sent + MgrChunk) THEN {"part", "image"} ELSE {"part"}

-----------------------------------------------------------------------------
(* iCE40.                                                                  *)

ice40_fpga_ops_write_init ==
  /\ SmIs("ice40", "write_init")
  /\ \/ load.partial /\ MgrWriteInit(FALSE) /\ UNCHANGED sm
     \/ ~load.partial /\ \E cfg \in Reset, select, settle \in BOOLEAN :
          SmSet(cfg, FALSE) /\ MgrWriteInit(select /\ cfg # "image" /\ settle)

ice40_fpga_ops_write ==
  /\ SmIs("ice40", "write")
  /\ \E ok \in BOOLEAN : MgrWrite(ok) /\ \E cfg \in Written(ok) : SmSet(cfg, sm.held)

\* CDONE must be up before the padding is sent.
ice40_fpga_ops_write_complete ==
  /\ SmIs("ice40", "write_complete")
  /\ \E pad \in BOOLEAN : MgrWriteComplete(Configured /\ pad)
  /\ UNCHANGED sm

-----------------------------------------------------------------------------
(* Xilinx slave serial.                                                    *)

\* INIT_B up with PROGRAM_B asserted, down after its release, DONE down.
xilinx_spi_write_init ==
  /\ SmIs("xilinx_spi", "write_init")
  /\ \/ load.partial /\ MgrWriteInit(FALSE) /\ UNCHANGED sm
     \/ ~load.partial /\ \E cfg \in Reset, up, down \in BOOLEAN :
          SmSet(cfg, FALSE) /\ MgrWriteInit(up /\ down /\ cfg # "image")

xilinx_spi_write ==
  /\ SmIs("xilinx_spi", "write")
  /\ \E ok \in BOOLEAN : MgrWrite(ok) /\ \E cfg \in Written(ok) : SmSet(cfg, sm.held)

\* DONE is polled until the time is up, with clock cycles after each read.
xilinx_spi_write_complete ==
  /\ SmIs("xilinx_spi", "write_complete")
  /\ \E read, cycles \in BOOLEAN : MgrWriteComplete(read /\ cycles /\ Configured)
  /\ UNCHANGED sm

-----------------------------------------------------------------------------
(* Altera passive serial.                                                  *)

\* The status pin must show the reset, or nCONFIG is left asserted, and then
\* the end of the reset.
altera_ps_write_init ==
  /\ SmIs("altera_ps", "write_init")
  /\ \/ load.partial /\ MgrWriteInit(FALSE) /\ UNCHANGED sm
     \/ ~load.partial /\ SmSet("none", TRUE) /\ MgrWriteInit(FALSE)
     \/ ~load.partial /\ SmSet("none", FALSE) /\ \E ready \in BOOLEAN : MgrWriteInit(ready)

altera_ps_write ==
  /\ SmIs("altera_ps", "write")
  /\ \E ok \in BOOLEAN : MgrWrite(ok) /\ \E cfg \in Written(ok) : SmSet(cfg, sm.held)

\* The status pin tells an error, CONF_DONE, when it is wired, the end.
altera_ps_write_complete ==
  /\ SmIs("altera_ps", "write_complete")
  /\ \E end \in BOOLEAN : MgrWriteComplete((sm.confd => Configured) /\ end)
  /\ UNCHANGED sm

-----------------------------------------------------------------------------
(* MachXO2.                                                                *)

\* The status is polled a bounded number of times; a transfer can fail.
wait_until_not_busy == BOOLEAN

\* Enable and erase, wait, and set the address.  When the device reports that
\* the erase failed, the result is that of the wait before: success.
machxo2_write_init ==
  /\ SmIs("machxo2", "write_init")
  /\ \/ load.partial /\ MgrWriteInit(FALSE) /\ UNCHANGED sm
     \/ /\ ~load.partial
        /\ \E cfg \in Reset, erase, fail, addr \in BOOLEAN, idle \in wait_until_not_busy :
             SmSet(cfg, FALSE) /\ MgrWriteInit(erase /\ idle /\ (fail \/ addr))

\* Whole pages only, page by page.
machxo2_write ==
  /\ SmIs("machxo2", "write")
  /\ IF MgrChunk % MachPage # 0 THEN MgrWrite(FALSE) /\ UNCHANGED sm
     ELSE \E ok \in BOOLEAN : MgrWrite(ok) /\ \E cfg \in Written(ok) : SmSet(cfg, sm.held)

\* Erase and refresh; the result is not used.
machxo2_cleanup == \E cfg \in Reset : SmSet(cfg, sm.held)

\* Transfers that fail are reported.  A device that is not done, at once or
\* after the last refresh, is cleaned up and the result is that of the last
\* transfer: success.
machxo2_write_complete ==
  /\ SmIs("machxo2", "write_complete")
  /\ \E sent, refreshed, up \in BOOLEAN, idle \in wait_until_not_busy :
       IF ~sent \/ ~idle THEN MgrWriteComplete(FALSE) /\ UNCHANGED sm
       ELSE IF ~Configured THEN machxo2_cleanup /\ MgrWriteComplete(TRUE)
       ELSE IF ~refreshed THEN MgrWriteComplete(FALSE) /\ UNCHANGED sm
       ELSE MgrWriteComplete(TRUE) /\ IF up THEN UNCHANGED sm ELSE machxo2_cleanup

-----------------------------------------------------------------------------
(* TS-73xx: a byte at a time, each after the one before was taken.         *)

ts73xx_fpga_write_init ==
  /\ SmIs("ts73xx", "write_init")
  /\ SmSet("none", FALSE) /\ MgrWriteInit(TRUE)

ts73xx_fpga_write ==
  /\ SmIs("ts73xx", "write")
  /\ \E ok \in BOOLEAN : MgrWrite(ok) /\ \E cfg \in Written(ok) : SmSet(cfg, sm.held)

ts73xx_fpga_write_complete ==
  /\ SmIs("ts73xx", "write_complete")
  /\ MgrWriteComplete(Configured) /\ UNCHANGED sm

-----------------------------------------------------------------------------
(* ZynqMP and Versal: each write is a whole load by the firmware.          *)

zynqmp_fpga_ops_write_init ==
  /\ load.pc = "write_init" /\ sm.kind \in {"zynqmp", "versal"}
  /\ MgrWriteInit(TRUE) /\ UNCHANGED sm

\* No memory for the copy: nothing happened to the device.  The firmware
\* reports whether what it was given configured the device.
zynqmp_fpga_ops_write ==
  /\ SmIs("zynqmp", "write")
  /\ \/ MgrWrite(FALSE) /\ UNCHANGED sm
     \/ \E cfg \in {"part", "image"} : SmSet(cfg, FALSE) /\ MgrWrite(cfg = "image")

versal_fpga_ops_write ==
  /\ SmIs("versal", "write")
  /\ \/ MgrWrite(FALSE) /\ UNCHANGED sm
     \/ \E cfg \in {"part", "image"} : SmSet(cfg, FALSE) /\ MgrWrite(cfg = "image")

-----------------------------------------------------------------------------
(* The partial reconfiguration IP.  It drops its start bit at the end.     *)

\* Fault: a reconfiguration under way is started again.
alt_pr_fpga_write_init_Restart ==
  /\ SmIs("alt_pr", "write_init")
  /\ sm' = [sm EXCEPT !.start = TRUE, !.cfg = IF sm.start THEN "bad" ELSE "none"]
  /\ MgrWriteInit(load.partial)

alt_pr_fpga_write_init ==
  /\ SmIs("alt_pr", "write_init")
  /\ IF ~load.partial \/ sm.start THEN MgrWriteInit(FALSE) /\ UNCHANGED sm
     ELSE MgrWriteInit(TRUE) /\ sm' = [sm EXCEPT !.start = TRUE, !.cfg = "none"]

\* The status is read after the words are written: an error ends the load.
alt_pr_fpga_write ==
  /\ SmIs("alt_pr", "write")
  /\ \/ MgrChunk > 0 /\ MgrWrite(TRUE) /\ \E cfg \in Written(TRUE) : sm' = [sm EXCEPT !.cfg = cfg, !.start = cfg # "image"]
     \/ MgrWrite(FALSE) /\ IF MgrChunk > 0 THEN sm' = [sm EXCEPT !.cfg = "part", !.start = FALSE] ELSE UNCHANGED sm

\* Polled until it succeeds, reports an error or the time is up, in which case
\* the reconfiguration can still be under way.
alt_pr_fpga_write_complete ==
  /\ SmIs("alt_pr", "write_complete")
  /\ \/ Configured /\ MgrWriteComplete(TRUE) /\ UNCHANGED sm
     \/ ~Configured /\ MgrWriteComplete(FALSE) /\ \E busy \in BOOLEAN : sm' = [sm EXCEPT !.start = busy]

SerNext ==
  \/ ice40_fpga_probe \/ xilinx_spi_probe \/ altera_ps_probe \/ machxo2_spi_probe
  \/ ts73xx_fpga_probe \/ zynqmp_fpga_probe \/ versal_fpga_probe \/ alt_pr_register
  \/ MgrFramework(BOOLEAN) /\ UNCHANGED sm
  \/ ice40_fpga_ops_write_init \/ ice40_fpga_ops_write \/ ice40_fpga_ops_write_complete
  \/ xilinx_spi_write_init \/ xilinx_spi_write \/ xilinx_spi_write_complete
  \/ altera_ps_write_init \/ altera_ps_write \/ altera_ps_write_complete
  \/ machxo2_write_init \/ machxo2_write \/ machxo2_write_complete
  \/ ts73xx_fpga_write_init \/ ts73xx_fpga_write \/ ts73xx_fpga_write_complete
  \/ zynqmp_fpga_ops_write_init \/ zynqmp_fpga_ops_write \/ versal_fpga_ops_write
  \/ alt_pr_fpga_write_init \/ alt_pr_fpga_write \/ alt_pr_fpga_write_complete

SerSpec == SerInit /\ [][SerNext]_ser_vars

-----------------------------------------------------------------------------
(* Properties.                                                             *)

\* "operating" after a load means that the device holds the image: no driver
\* but MachXO2 lets a load succeed that the device did not confirm, where it can
\* confirm it.
SmOperatingConfigured ==
  mgr.reg /\ LoadDone /\ sm.kind \notin {"none", "machxo2"} /\ sm.confd => Configured

\* Image data is sent only to a device that has been let out of its reset.
SmSentOutOfReset == load.pc \in {"write", "write_complete"} => ~sm.held

\* A partial reconfiguration is not started over one that is still under way
\* after an earlier load timed out.
AltPrNotRestarted == sm.kind = "alt_pr" => sm.cfg # "bad"

\* Taken together: a device is in the right condition when data is sent, and
\* holds the image when the load succeeded.
SerialLoadTrue == SmOperatingConfigured /\ SmSentOutOfReset /\ AltPrNotRestarted
=============================================================================
