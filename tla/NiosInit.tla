------------------------------ MODULE NiosInit ------------------------------
(***************************************************************************)
(* The N3000's Nios core shares its SPI master with the host: the driver   *)
(* has the firmware initialise the retimers, once after power up, and      *)
(* creates the SPI controller for the BMC when the core has let go of it.  *)
(***************************************************************************)
EXTENDS Integers

CONSTANTS
  NiosVersions,   \* major versions of the firmware, 0 if it is missing
  FecModes,       \* values of the module parameter that are accepted
  MaxProbes       \* bound: times the driver is bound

VARIABLES
  nn,    \* the driver
  fw     \* the firmware (external) and its registers

nios_vars == <<nn, fw>>

NiosInit0 ==
  /\ nn = [pc |-> "unbound", fec |-> "none", ret |-> 0, spi |-> FALSE, probes |-> 0]
  /\ \E v \in NiosVersions : fw = [ver |-> v, start |-> FALSE, done |-> FALSE, fec |-> "none", ok |-> TRUE, starts |-> 0]

\* The firmware of before version 3 initialises the retimers by itself, later ones when told to.
FirmwareDone ==
  /\ fw.ver > 0 /\ ~fw.done /\ (fw.ver >= 3 => fw.start)
  /\ \E ok \in BOOLEAN : fw' = [fw EXCEPT !.done = TRUE, !.ok = ok]
  /\ UNCHANGED nn

n3000_nios_probe ==
  /\ nn.pc = "unbound" /\ nn.probes < MaxProbes
  /\ \E fec \in FecModes \cup {"bad"} : nn' = [nn EXCEPT !.pc = "version", !.fec = fec, !.probes = @ + 1]
  /\ UNCHANGED fw

\* A register access polls for its end a number of times and gives up; a write may
\* have reached the register all the same.
n3000_nios_reg_fails ==
  /\ nn.pc \in {"version", "init", "poll", "status"}
  /\ nn' = [nn EXCEPT !.pc = "unbound"] /\ UNCHANGED fw
NiosStart(f, fec) == [f EXCEPT !.start = TRUE, !.fec = fec, !.starts = @ + 1]
n3000_nios_write_fails ==
  /\ nn.pc = "start"
  /\ nn' = [nn EXCEPT !.pc = "unbound"]
  /\ fw' \in {fw, NiosStart(fw, nn.fec)}

nios_version ==
  /\ nn.pc = "version"
  /\ nn' = [nn EXCEPT !.pc = IF fw.ver = 0 THEN "spi" ELSE IF fw.ver >= 3 THEN "init" ELSE "poll"]
  /\ UNCHANGED fw

already_started == fw.done \/ fw.start
nios_init ==
  /\ nn.pc = "init"
  /\ nn' = [nn EXCEPT !.pc = IF already_started THEN "poll" ELSE IF nn.fec \in FecModes THEN "start" ELSE "unbound"]
  /\ UNCHANGED fw
nios_start == nn.pc = "start" /\ fw' = NiosStart(fw, nn.fec) /\ nn' = [nn EXCEPT !.pc = "poll"]

\* The firmware is polled for its end, with a timeout.
nios_poll_done ==
  /\ nn.pc = "poll"
  /\ \/ fw.done /\ nn' = [nn EXCEPT !.pc = "status", !.ret = 0]
     \/ ~fw.done /\ nn' = [nn EXCEPT !.pc = "status", !.ret = 1]
  /\ UNCHANGED fw

\* Fault: a timeout is only reported.
init_result_Go(ret) == TRUE
\* A timeout fails the probe; retimers that failed do not, so that the card can be
\* repaired through the BMC.
init_result(ret) == ret = 0
n3000_nios_init_done_check ==
  /\ nn.pc = "status"
  /\ nn' = [nn EXCEPT !.pc = IF init_result(nn.ret) THEN "spi" ELSE "unbound", !.ret = 0]
  /\ UNCHANGED fw

create_altera_spi_controller ==
  /\ nn.pc = "spi"
  /\ \/ nn' = [nn EXCEPT !.pc = "bound", !.spi = TRUE]
     \/ nn' = [nn EXCEPT !.pc = "unbound"]
  /\ UNCHANGED fw
n3000_nios_remove == nn.pc = "bound" /\ nn' = [nn EXCEPT !.pc = "unbound", !.spi = FALSE] /\ UNCHANGED fw

NiosNext ==
  \/ FirmwareDone \/ n3000_nios_probe \/ n3000_nios_reg_fails \/ n3000_nios_write_fails \/ nios_version \/ nios_init \/ nios_start
  \/ nios_poll_done \/ n3000_nios_init_done_check \/ create_altera_spi_controller \/ n3000_nios_remove

NiosSpec == NiosInit0 /\ [][NiosNext]_nios_vars

-----------------------------------------------------------------------------
(* Properties.                                                             *)

\* The host has an SPI controller only when the Nios core has let go of the SPI master,
\* or has no firmware that would use it.
NiosReleasedSpi == nn.spi => fw.ver = 0 \/ fw.done

\* The retimers are initialised once, although the driver is unbound and bound again,
\* with another mode, while the firmware works, and although a register write that
\* took effect may have been reported as failed.
NiosStartsOnce == fw.starts <= 1

\* Taken together: host and firmware keep out of each other's way over probes
\* that fail and are repeated.
NiosHandshakeSafe == NiosReleasedSpi /\ NiosStartsOnce
=============================================================================
