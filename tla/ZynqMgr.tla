------------------------------- MODULE ZynqMgr -------------------------------
(***************************************************************************)
(* The Zynq manager: the scatter list is queued to a DMA engine, first by  *)
(* the writer and then by the interrupt handler, under dma_lock.  The      *)
(* engine runs by itself and the writer waits with a timeout.              *)
(***************************************************************************)
EXTENDS FpgaMgr

CONSTANT DmaQueue    \* length of the command queue of the engine
ASSUME ZynqAssumption == DmaQueue \in Nat \ {0}

VARIABLES
  zq,    \* struct zynq_fpga_priv and the write under way
  pcap   \* the hardware: status, mask, queue, what it took, shifters and resets

zynq_vars == <<mgr_vars, zq, pcap>>

zynq_fpga_ops == [NoOps EXCEPT !.hdr = 1, !.sg = TRUE, !.complete = TRUE]
Elements == Len(load.image.ends)

ZynqInit ==
  /\ MgrInit
  /\ zq = [pc |-> "none", cur |-> 0, elm |-> 0, done |-> FALSE, isr |-> FALSE, clk |-> 0, mapped |-> FALSE]
  /\ pcap = [sts |-> {}, mask |-> {}, queue |-> <<>>, taken |-> <<>>, lvl |-> "all", rst |-> FALSE, live |-> TRUE]

\* The state operation needs the clock; PCFG_DONE tells a configured device.
zynq_fpga_ops_state(live, clk) == IF live /\ clk THEN "operating" ELSE "unknown"

zynq_fpga_probe ==
  /\ \E live, clk \in BOOLEAN :
       /\ pcap' = [sts |-> {}, mask |-> {}, queue |-> <<>>, taken |-> <<>>, rst |-> FALSE,
                   lvl |-> IF live THEN "all" ELSE "ps", live |-> live]
       /\ fpga_mgr_register_full(zynq_fpga_ops, zynq_fpga_ops_state(live, clk))
  /\ zq' = [zq EXCEPT !.pc = "none", !.isr = FALSE, !.done = FALSE, !.cur = 0]

-----------------------------------------------------------------------------
(* write_init: a full image resets the PL and cuts it off.                 *)

\* Refused before the reset: no clock, no secure system, no sync word.  After
\* it: PCFG_INIT does not follow, or the command queue is not empty.
zynq_fpga_ops_write_init ==
  /\ load.pc = "write_init"
  /\ \/ MgrWriteInit(FALSE) /\ UNCHANGED pcap
     \/ LET cut == [pcap EXCEPT !.rst = TRUE, !.lvl = "ps", !.live = FALSE] IN
        /\ pcap' = IF load.partial THEN pcap ELSE cut
        /\ \E init \in BOOLEAN : MgrWriteInit(init /\ pcap.queue = <<>>)
  /\ UNCHANGED zq

-----------------------------------------------------------------------------
(* write_sg: the handover of the list to the interrupt handler.            *)

\* Fault: the interrupt for the end of a transfer stays on for the last one.
zynq_step_dma_Mask(z, p) ==
  LET room == DmaQueue - Len(p.queue)
      k == IF Elements - z.cur + 1 < room THEN Elements - z.cur + 1 ELSE room
      cur == IF z.cur + k > Elements THEN 0 ELSE z.cur + k
  IN  /\ zq' = [z EXCEPT !.cur = cur]
      /\ pcap' = [p EXCEPT !.queue = @ \o [i \in 1..k |-> z.cur + i - 1], !.mask = {"dma_done", "error"}]

\* Queue elements until the engine is full or the list ends.  With the last one
\* the interrupt changes from the end of a transfer to the end of it all.
zynq_step_dma(z, p) ==
  LET room == DmaQueue - Len(p.queue)
      k == IF Elements - z.cur + 1 < room THEN Elements - z.cur + 1 ELSE room
      cur == IF z.cur + k > Elements THEN 0 ELSE z.cur + k
  IN  /\ zq' = [z EXCEPT !.cur = cur, !.elm = IF cur = 0 THEN Elements - 1 ELSE z.elm + k]
      /\ pcap' = [p EXCEPT !.queue = @ \o [i \in 1..k |-> z.cur + i - 1],
                           !.mask = IF cur = 0 THEN {"dp_done", "error"}
                                    ELSE IF z.elm = 0 THEN {"dma_done", "error"} ELSE @]

\* Not aligned, not mapped or no clock: the mapping is undone.
zynq_write_refused ==
  /\ load.pc = "write" /\ zq.pc = "none"
  /\ MgrWrite(FALSE) /\ UNCHANGED <<zq, pcap>>

zynq_write_start ==
  /\ load.pc = "write" /\ zq.pc = "none"
  /\ zynq_step_dma([zq EXCEPT !.pc = "wait", !.done = FALSE, !.cur = 1, !.elm = 0, !.clk = @ + 1, !.mapped = TRUE],
                   [pcap EXCEPT !.sts = {}, !.taken = <<>>])
  /\ UNCHANGED mgr_vars

\* Woken, or the time is up; by then a handler that had started is through.
zynq_write_end ==
  /\ zq.pc = "wait" /\ (zq.done \/ ~zq.isr)
  /\ zq' = [zq EXCEPT !.pc = IF zq.done THEN "none" ELSE "timedout", !.cur = 0, !.clk = @ - 1, !.mapped = FALSE]
  /\ pcap' = [pcap EXCEPT !.mask = {}, !.sts = {}]
  /\ MgrWrite("error" \notin pcap.sts /\ "dp_done" \in pcap.sts)

\* After a timeout nothing can stop the engine; the driver relies on it having
\* halted by itself before the next operation.
zynq_engine_halts ==
  /\ zq.pc = "timedout" /\ zq' = [zq EXCEPT !.pc = "none"]
  /\ pcap' = [pcap EXCEPT !.queue = <<>>]
  /\ UNCHANGED mgr_vars

\* The locked part of the handler: go on with the list, or stop.
zynq_fpga_isr ==
  /\ pcap.sts \cap pcap.mask # {} /\ ~zq.isr
  /\ IF "error" \notin pcap.sts /\ "dma_done" \in pcap.sts /\ zq.cur # 0
     THEN zynq_step_dma(zq, [pcap EXCEPT !.sts = @ \ {"dma_done"}])
     ELSE zq' = [zq EXCEPT !.isr = TRUE] /\ UNCHANGED pcap
  /\ UNCHANGED mgr_vars

\* The rest of it: mask all interrupts and wake the writer.
zynq_isr_complete ==
  /\ zq.isr
  /\ zq' = [zq EXCEPT !.isr = FALSE, !.done = TRUE]
  /\ pcap' = [pcap EXCEPT !.mask = {}]
  /\ UNCHANGED mgr_vars

\* The engine takes an element; the last one also ends the configuration.
\* On an error it halts.
pcap_transfer ==
  /\ pcap.queue # <<>> /\ zq.pc = "wait"
  /\ \/ pcap' = [pcap EXCEPT !.queue = Tail(@), !.taken = Append(@, Head(pcap.queue)),
                             !.sts = @ \cup {"dma_done"} \cup IF Head(pcap.queue) = Elements THEN {"dp_done"} ELSE {}]
     \/ pcap' = [pcap EXCEPT !.queue = <<>>, !.sts = @ \cup {"error"}]
  /\ UNCHANGED <<mgr_vars, zq>>

-----------------------------------------------------------------------------
(* write_complete.                                                         *)

\* No clock, or PCFG_DONE does not come: the PL stays cut off.
zynq_fpga_ops_write_complete ==
  /\ load.pc = "write_complete"
  /\ \/ MgrWriteComplete(FALSE) /\ UNCHANGED pcap
     \/ /\ MgrWriteComplete(TRUE)
        /\ pcap' = IF load.partial THEN pcap ELSE [pcap EXCEPT !.live = TRUE, !.lvl = "all", !.rst = FALSE]
  /\ UNCHANGED zq

ZynqNext ==
  \/ zynq_fpga_probe
  \/ zq.pc # "timedout" /\ MgrFramework(BOOLEAN) /\ UNCHANGED <<zq, pcap>>
  \/ zynq_fpga_ops_write_init
  \/ zynq_write_refused \/ zynq_write_start \/ zynq_write_end \/ zynq_engine_halts
  \/ zynq_fpga_isr \/ zynq_isr_complete \/ pcap_transfer
  \/ zynq_fpga_ops_write_complete

ZynqSpec == ZynqInit /\ [][ZynqNext]_zynq_vars

-----------------------------------------------------------------------------
(* Properties.                                                             *)

\* A write that succeeds has put every element into the device, once and in the
\* order of the list, whoever queued it.
ZynqAllTaken == mgr.ops = zynq_fpga_ops /\ load.pc = "write_complete" => pcap.taken = [i \in 1..Elements |-> i]

\* The writer gives up the mapping only when the engine is idle, unless its time
\* was up: the handler does not wake it while elements are queued.
ZynqUnmapQuiet == ~zq.mapped /\ zq.pc = "none" => pcap.queue = <<>>

\* No operation leaves the clock on, whichever way it ends.
ZynqClkBalanced == zq.clk = IF zq.pc = "wait" THEN 1 ELSE 0

\* The processor is connected to the PL only while that is configured: a load
\* that fails after the reset leaves it cut off.
ZynqIsolated == pcap.lvl = "all" => pcap.live /\ ~pcap.rst

\* Taken together: the whole list is taken before the mapping goes, and every
\* way out leaves clock and isolation right.
ZynqLoadTrue == ZynqAllTaken /\ ZynqUnmapQuiet /\ ZynqClkBalanced /\ ZynqIsolated
=============================================================================
