---------------------------- MODULE IndirectRegs ----------------------------
(***************************************************************************)
(* Registers behind a mailbox of command, address and data registers.  The *)
(* device (external) carries out a command when it likes, acknowledges it, *)
(* and takes the acknowledgement back when the command was cleared; the    *)
(* host waits for each with a timeout.                                     *)
(***************************************************************************)
EXTENDS Integers

CONSTANTS
  IrRegs,   \* registers
  IrVals    \* values

VARIABLES
  ir,    \* the access under way (the register map's lock allows one)
  mb     \* the mailbox and the device behind it

indirect_vars == <<ir, mb>>

Clear == mb.cmd = "clr" /\ ~mb.ack

\* The command of an earlier user is reset before the map is there.
IndirectInit ==
  \E cmd \in {"clr", "rd"}, ack \in BOOLEAN, r \in IrRegs, v \in IrVals :
    /\ ir = [pc |-> "clear", wr |-> FALSE, reg |-> r, val |-> v, ret |-> "none", ret2 |-> "none", open |-> FALSE, tmp |-> v, residue |-> FALSE]
    /\ mb = [cmd |-> cmd, ack |-> ack, addr |-> r, data |-> v, rd |-> v, mem |-> [x \in IrRegs |-> v], did |-> 0]

\* The command register is looked at (a residue only draws a warning), then data and address are written.
indirect_bus_entry ==
  /\ ir.pc = "idle"
  /\ \E wr \in BOOLEAN, r \in IrRegs, v \in IrVals :
       /\ ir' = [ir EXCEPT !.pc = "cmd", !.wr = wr, !.reg = r, !.val = v, !.ret = "none", !.ret2 = "none", !.residue = ~Clear]
       /\ mb' = [mb EXCEPT !.addr = r, !.data = IF wr THEN v ELSE @, !.did = 0]
indirect_bus_cmd ==
  /\ ir.pc = "cmd"
  /\ mb' = [mb EXCEPT !.cmd = IF ir.wr THEN "wr" ELSE "rd"]
  /\ ir' = [ir EXCEPT !.pc = "ack"]

Acked == mb.ack

indirect_bus_reg_write ==
  /\ ir.pc = "ack" /\ ir.wr /\ Acked
  /\ ir' = [ir EXCEPT !.pc = "clear", !.ret = "ok"] /\ UNCHANGED mb
indirect_bus_reg_read ==
  /\ ir.pc = "ack" /\ ~ir.wr /\ Acked
  /\ ir' = [ir EXCEPT !.pc = "clear", !.ret = "ok", !.tmp = mb.rd] /\ UNCHANGED mb

\* The command is cleared after a timeout as well.
indirect_bus_timeout ==
  /\ ir.pc = "ack" /\ ~Acked
  /\ ir' = [ir EXCEPT !.pc = "clear", !.ret = "timeout"] /\ UNCHANGED mb

\* Fault: the clear is not waited for.
wait_clear_Not == TRUE
wait_clear == Clear
indirect_bus_clear_cmd ==
  /\ ir.pc = "clear"
  /\ mb' = [mb EXCEPT !.cmd = "clr"] /\ ir' = [ir EXCEPT !.pc = "wait"]
clear_done ==
  /\ ir.pc = "wait" /\ wait_clear
  /\ ir' = [ir EXCEPT !.pc = "idle", !.ret2 = "ok", !.open = TRUE] /\ UNCHANGED mb
clear_timeout ==
  /\ ir.pc = "wait" /\ ~Clear
  /\ ir' = [ir EXCEPT !.pc = "idle", !.ret2 = "timeout", !.open = TRUE] /\ UNCHANGED mb

-----------------------------------------------------------------------------
(* The device (external).                                                  *)

DeviceActs ==
  /\ mb.cmd \in {"rd", "wr"} /\ ~mb.ack
  /\ mb' = [mb EXCEPT !.ack = TRUE, !.did = IF @ < 2 THEN @ + 1 ELSE @, !.rd = IF mb.cmd = "rd" THEN mb.mem[mb.addr] ELSE @,
                      !.mem[mb.addr] = IF mb.cmd = "wr" THEN mb.data ELSE @]
  /\ UNCHANGED ir
DeviceDropsAck == mb.cmd = "clr" /\ mb.ack /\ mb' = [mb EXCEPT !.ack = FALSE] /\ UNCHANGED ir

IndirectNext ==
  \/ indirect_bus_entry \/ indirect_bus_cmd \/ indirect_bus_reg_write \/ indirect_bus_reg_read \/ indirect_bus_timeout
  \/ indirect_bus_clear_cmd \/ clear_done \/ clear_timeout \/ DeviceActs \/ DeviceDropsAck

IndirectSpec == IndirectInit /\ [][IndirectNext]_indirect_vars

-----------------------------------------------------------------------------
(* Properties.                                                             *)

Returned == ir.pc = "idle" /\ ir.open
Ok == ir.ret = "ok" /\ ir.ret2 = "ok"

\* An access that succeeds was carried out once, and a read returns what the register
\* holds, also after accesses that timed out; unless it began on a command register
\* that could not be cleared.
IndirectTrue ==
  Returned /\ Ok /\ ~ir.residue => mb.did = 1 /\ (IF ir.wr THEN mb.mem[ir.reg] = ir.val ELSE ir.tmp = mb.mem[ir.reg])

\* The mailbox is left clear by every access whose clear did not time out, so a device
\* that is slow to acknowledge does not spoil the next access.
IndirectLeftClear == Returned /\ ir.ret2 = "ok" => Clear

\* Taken together: a timeout of one access does not falsify the next one.
IndirectAccessTrue == IndirectTrue /\ IndirectLeftClear
=============================================================================
