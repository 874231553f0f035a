----------------------------- MODULE MCDrivers ------------------------------
(* What drivers keep for user space (DMA memory, CXL buffers, address       *)
(* spaces, eventfds, performance events) and with their devices (register  *)
(* buses, staging flash, modules, firmware).  They have no state in common, *)
(* so each behaviour exercises one of them and leaves the others alone.    *)
EXTENDS DmaRegions, CxlCache, PciSva, IrqTriggers, SpiAvmm, QsfpHotplug, FmePerf, IndirectRegs, NiosInit, StagingFlash

CONSTANT Units
VARIABLE unit   \* the driver a behaviour exercises

MCProcOf == [t \in DmaThreads |-> t]
MCPfn == [p \in Pages |-> IF p = 3 THEN 5 ELSE p]
MCCxlPfn == [p \in CxlPages |-> p]

\* Addresses and values made of bytes that have to be escaped.
A1 == <<0, 0, 122, 74>>
A2 == <<0, 0, 122, 78>>
MCAvAddrs == {A1, A2}
MCAvNext == [a \in MCAvAddrs |-> A2]
MCAvVals == {<<123, 125, 74, 77>>}
\* Bound: one stale answer ends a behaviour, and one register is written.
AvNarrow ==
  /\ ~(slv.stale /\ av.pc = "idle" /\ av'.pc = "tx")
  /\ av'.pc = "tx" /\ ~av'.op.read => av'.op.addr = A2

Kn(t, e, p) == [type |-> t, evnt |-> e, port |-> p]
MCPfKinds == {Kn("fabric", 0, Root), Kn("fabric", 1, 0), Kn("basic", 0, Root)}

\* Bound: short buffers name the CSR, and only the first page is made read-only.
CxlNarrow ==
  /\ cxl_op'.buf # CxlNone => cxl_op'.buf.csrs = IF cxl_op'.buf.length = 1 THEN CxlCsrs ELSE {}
  /\ cxl_ro' \subseteq {1}

\* A unit that is not exercised starts in one state.
OneStart ==
  /\ unit # "qsfp" => qs.in
  /\ unit # "perf" => pf.cpu = 1 /\ pf.port = Root
  /\ unit # "indirect" => mb.cmd = "clr" /\ ~mb.ack /\ mb.addr = "x" /\ mb.data = 0
  /\ unit # "nios" => fw.ver = 0
  /\ unit # "staging" => sf.kind = "read" /\ sf.n = 4

MCInit ==
  /\ unit \in Units
  /\ DmaInit /\ CxlInit /\ SvaInit /\ IrqInit /\ AvmmInit /\ QsfpInit /\ PerfInit /\ IndirectInit /\ NiosInit0 /\ StagingInit
  /\ OneStart

users == <<dma_vars, cxl_vars, sva_vars, irq_vars>>
buses == <<avmm_vars, indirect_vars, staging_vars>>
parts == <<qsfp_vars, perf_vars, nios_vars>>

MCNext ==
  /\ UNCHANGED unit
  /\ \/ unit = "dma" /\ DmaNext /\ UNCHANGED <<cxl_vars, sva_vars, irq_vars, buses, parts>>
     \/ unit = "cxl" /\ CxlNext /\ CxlNarrow /\ UNCHANGED <<dma_vars, sva_vars, irq_vars, buses, parts>>
     \/ unit = "sva" /\ SvaNext /\ UNCHANGED <<dma_vars, cxl_vars, irq_vars, buses, parts>>
     \/ unit = "irq" /\ IrqNext /\ UNCHANGED <<dma_vars, cxl_vars, sva_vars, buses, parts>>
     \/ unit = "avmm" /\ AvmmNext /\ AvNarrow /\ UNCHANGED <<users, indirect_vars, staging_vars, parts>>
     \/ unit = "indirect" /\ IndirectNext /\ UNCHANGED <<users, avmm_vars, staging_vars, parts>>
     \/ unit = "staging" /\ StagingNext /\ UNCHANGED <<users, avmm_vars, indirect_vars, parts>>
     \/ unit = "qsfp" /\ QsfpNext /\ UNCHANGED <<users, buses, perf_vars, nios_vars>>
     \/ unit = "perf" /\ PerfNext /\ UNCHANGED <<users, buses, qsfp_vars, nios_vars>>
     \/ unit = "nios" /\ NiosNext /\ UNCHANGED <<users, buses, qsfp_vars, perf_vars>>

MCSpec == MCInit /\ [][MCNext]_<<unit, users, buses, parts>>
=============================================================================
