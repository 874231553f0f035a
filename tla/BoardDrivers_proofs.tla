------------------------- MODULE BoardDrivers_proofs -------------------------
(***************************************************************************)
(* Proofs about the drivers of the parts of a board: the work of a QSFP    *)
(* cage, the handshake with the Nios firmware, the mailbox of an indirect  *)
(* register bus, the performance events of the FME, and the transfers into *)
(* and out of the flash, in whatever order device, work, users and removal *)
(* act.                                                                    *)
(***************************************************************************)
EXTENDS QsfpHotplug, NiosInit, IndirectRegs, FmePerf, StagingFlash, FiniteSetTheorems, SequenceTheorems, TLAPS

(* The QSFP cage.                                                          *)

QsfpTypeOK ==
  qs \in [in : BOOLEAN, conf : {"off", "select", "poll"}, init : {"reset", "done"},
          work : {"none", "queued", "running"}, pc : {"check", "ready", "end"}, cnt : Nat,
          rm : {"no", "cancel", "done"}, fresh : BOOLEAN, failed : BOOLEAN, steady : BOOLEAN, shown : {0, 1}]

\* A pass of the work that is half way: a module is brought up only while it counts as
\* new, and an undisturbed pass has seen the cage as it is.
QsfpPass ==
  qs.work = "running" =>
    /\ qs.pc = "ready" => qs.init = "reset" /\ (qs.fresh => qs.in)
    /\ qs.pc = "end" /\ qs.fresh /\ ~qs.failed => (qs.init = "done" <=> qs.in)

QsfpIInv == QsfpTypeOK /\ QsfpPass /\ QsfpPolled /\ QsfpNoticed /\ QsfpStopped

\* At first the work is about to look at the cage.
LEMMA QsfpInitIInv == QsfpInit => QsfpIInv
  BY DEF QsfpInit, QsfpIInv, QsfpTypeOK, QsfpPass, QsfpPolled, QsfpNoticed, QsfpStopped

\* The work, a module that moves and the removal of the driver keep the invariant.
LEMMA QsfpStepIInv == QsfpIInv /\ [QsfpNext]_qsfp_vars => QsfpIInv'
<1> SUFFICES ASSUME QsfpIInv, [QsfpNext]_qsfp_vars PROVE QsfpIInv'
  OBVIOUS
<1> USE DEF QsfpIInv, QsfpTypeOK, QsfpPass, QsfpPolled, QsfpNoticed, QsfpStopped
<1>1. CASE ModuleMoves
  BY <1>1 DEF ModuleMoves
<1>2. CASE qsfp_check_hotplug
  BY <1>2 DEF qsfp_check_hotplug, QsfpRunning, hotplug_check
<1>3. CASE qsfp_init
  <2>0. qs.work = "running" /\ qs.pc = "ready" /\ qs.init = "reset"
    BY <1>3 DEF qsfp_init, QsfpRunning
  <2>1. CASE qs.in /\ qs' = hotplug_result(qs, TRUE)
    BY <2>0, <2>1 DEF hotplug_result
  <2>2. CASE qs' = [qs EXCEPT !.cnt = @ + 1]
    BY <2>0, <2>2
  <2>3. CASE qs' = hotplug_result(qs, FALSE)
    BY <2>0, <2>3 DEF hotplug_result
  <2> QED BY <1>3, <2>1, <2>2, <2>3 DEF qsfp_init
<1>4. CASE schedule_delayed_work
  BY <1>4 DEF schedule_delayed_work, QsfpRunning
<1>5. CASE QsfpTimer
  BY <1>5 DEF QsfpTimer
<1>6. CASE qsfp_connected_show
  BY <1>6 DEF qsfp_connected_show
<1>7. CASE qsfp_remove_device
  BY <1>7 DEF qsfp_remove_device
<1>8. CASE remove_returns
  BY <1>8 DEF remove_returns, cancel_delayed_work_sync
<1>9. CASE UNCHANGED qsfp_vars
  BY <1>9 DEF qsfp_vars
<1> QED BY <1>1, <1>2, <1>3, <1>4, <1>5, <1>6, <1>7, <1>8, <1>9 DEF QsfpNext

\* qsfp_check_hotplug follows the cage, whatever is plugged and whichever command fails
\* in the middle of a pass, and after qsfp_remove_device no pass runs or is queued.
THEOREM QsfpIsFollowed == QsfpSpec => []QsfpFollowsCage
<1>1. QsfpIInv => QsfpFollowsCage
  BY DEF QsfpIInv, QsfpFollowsCage
<1> QED BY <1>1, QsfpInitIInv, QsfpStepIInv, PTL DEF QsfpSpec

-----------------------------------------------------------------------------
(* The Nios firmware.                                                      *)

NiosTypeOK ==
  /\ nn \in [pc : {"unbound", "version", "init", "start", "poll", "status", "spi", "bound"},
             fec : FecModes \cup {"none", "bad"}, ret : {0, 1}, spi : BOOLEAN, probes : Nat]
  /\ fw \in [ver : NiosVersions, start : BOOLEAN, done : BOOLEAN, fec : FecModes \cup {"none", "bad"},
             ok : BOOLEAN, starts : {0, 1}]

\* What a probe has found out is still true when it uses it: the firmware is told to
\* start once at most, and never takes back that it is done.
NiosProbe ==
  /\ fw.starts = IF fw.start THEN 1 ELSE 0
  /\ nn.pc = "start" => ~fw.start
  /\ nn.pc = "status" /\ nn.ret = 0 => fw.done
  /\ nn.pc \in {"spi", "bound"} => fw.ver = 0 \/ fw.done
  /\ nn.spi => nn.pc = "bound"

NiosIInv == NiosTypeOK /\ NiosProbe

\* After power up nothing is started and no driver bound.
LEMMA NiosInitIInv == NiosInit0 => NiosIInv
  BY DEF NiosInit0, NiosIInv, NiosTypeOK, NiosProbe

\* The firmware is told to start: its registers afterwards.
LEMMA StartOnce ==
  ASSUME NiosTypeOK, ~fw.start, fw.starts = 0, NEW f, f = NiosStart(fw, nn.fec)
  PROVE  /\ f \in [ver : NiosVersions, start : BOOLEAN, done : BOOLEAN, fec : FecModes \cup {"none", "bad"},
                    ok : BOOLEAN, starts : {0, 1}]
         /\ f.start /\ f.starts = 1 /\ f.done = fw.done /\ f.ver = fw.ver
<1>1. f = [fw EXCEPT !.start = TRUE, !.fec = nn.fec, !.starts = 1]
  BY DEF NiosStart, NiosTypeOK
<1> QED BY <1>1 DEF NiosTypeOK

\* Firmware, probe, failing register accesses and removal keep the invariant.
LEMMA NiosStepIInv == NiosIInv /\ [NiosNext]_nios_vars => NiosIInv'
<1> SUFFICES ASSUME NiosIInv, [NiosNext]_nios_vars PROVE NiosIInv'
  OBVIOUS
<1> USE DEF NiosIInv, NiosTypeOK, NiosProbe
<1>1. CASE FirmwareDone
  BY <1>1 DEF FirmwareDone
<1>2. CASE n3000_nios_probe
  <2>1. PICK fec \in FecModes \cup {"bad"} : nn' = [nn EXCEPT !.pc = "version", !.fec = fec, !.probes = @ + 1]
    BY <1>2 DEF n3000_nios_probe
  <2>2. UNCHANGED fw /\ nn.pc = "unbound"
    BY <1>2 DEF n3000_nios_probe
  <2>3. nn.probes + 1 \in Nat /\ fec \in FecModes \cup {"none", "bad"}
    OBVIOUS
  <2>4. NiosTypeOK'
    BY <2>1, <2>2, <2>3
  <2> QED BY <2>1, <2>2, <2>4
<1>3. CASE n3000_nios_reg_fails
  BY <1>3 DEF n3000_nios_reg_fails
<1>4. CASE n3000_nios_write_fails
  <2>1. nn.pc = "start" /\ ~fw.start /\ fw.starts = 0 /\ nn' = [nn EXCEPT !.pc = "unbound"]
    BY <1>4 DEF n3000_nios_write_fails
  <2>2. CASE fw' = fw
    BY <2>1, <2>2
  <2>3. CASE fw' = NiosStart(fw, nn.fec)
    BY <2>1, <2>3, StartOnce
  <2> QED BY <1>4, <2>2, <2>3 DEF n3000_nios_write_fails
<1>5. CASE nios_version
  BY <1>5 DEF nios_version
<1>6. CASE nios_init
  BY <1>6 DEF nios_init, already_started
<1>7. CASE nios_start
  <2>1. ~fw.start /\ fw' = NiosStart(fw, nn.fec) /\ nn' = [nn EXCEPT !.pc = "poll"]
    BY <1>7 DEF nios_start
  <2> QED BY <1>7, <2>1, StartOnce DEF nios_start
<1>8. CASE nios_poll_done
  <2>1. CASE fw.done /\ nn' = [nn EXCEPT !.pc = "status", !.ret = 0]
    BY <1>8, <2>1 DEF nios_poll_done
  <2>2. CASE ~fw.done /\ nn' = [nn EXCEPT !.pc = "status", !.ret = 1]
    <3>1. NiosTypeOK'
      BY <1>8, <2>2 DEF nios_poll_done
    <3>2. nn'.ret = 1 /\ nn'.pc = "status" /\ nn'.spi = nn.spi /\ UNCHANGED fw
      BY <1>8, <2>2 DEF nios_poll_done
    <3> QED BY <1>8, <3>1, <3>2 DEF nios_poll_done
  <2> QED BY <1>8, <2>1, <2>2 DEF nios_poll_done
<1>9. CASE n3000_nios_init_done_check
  BY <1>9 DEF n3000_nios_init_done_check, init_result
<1>10. CASE create_altera_spi_controller
  BY <1>10 DEF create_altera_spi_controller
<1>11. CASE n3000_nios_remove
  BY <1>11 DEF n3000_nios_remove
<1>12. CASE UNCHANGED nios_vars
  BY <1>12 DEF nios_vars
<1> QED BY <1>1, <1>2, <1>3, <1>4, <1>5, <1>6, <1>7, <1>8, <1>9, <1>10, <1>11, <1>12 DEF NiosNext

\* n3000_nios_probe creates the SPI controller when the core has let go of the SPI
\* master, and over all probes starts the retimers once.
THEOREM NiosIsSafe == NiosSpec => []NiosHandshakeSafe
<1>1. NiosIInv => NiosHandshakeSafe
  BY DEF NiosIInv, NiosTypeOK, NiosProbe, NiosHandshakeSafe, NiosReleasedSpi, NiosStartsOnce
<1> QED BY <1>1, NiosInitIInv, NiosStepIInv, PTL DEF NiosSpec

-----------------------------------------------------------------------------
(* The mailbox of indirect registers.                                      *)

IndirectTypeOK ==
  /\ ir \in [pc : {"idle", "cmd", "ack", "clear", "wait"}, wr : BOOLEAN, reg : IrRegs, val : IrVals,
             ret : {"none", "ok", "timeout"}, ret2 : {"none", "ok", "timeout"}, open : BOOLEAN,
             tmp : IrVals, residue : BOOLEAN]
  /\ mb \in [cmd : {"clr", "rd", "wr"}, ack : BOOLEAN, addr : IrRegs, data : IrVals, rd : IrVals,
             mem : [IrRegs -> IrVals], did : {0, 1, 2}]

\* The device has carried the access out, once.
CarriedOut == mb.did = 1 /\ (ir.wr => mb.mem[ir.reg] = ir.val)

\* An access that began on a clear mailbox: the device acts on the command of this
\* access only, and while it is there.
IndirectAccess ==
  ~ir.residue =>
    /\ ir.pc \in {"cmd", "ack"} => mb.addr = ir.reg /\ (ir.wr => mb.data = ir.val)
    /\ ir.pc = "cmd" => mb.did = 0 /\ ~mb.ack
    /\ ir.pc = "ack" => IF mb.ack THEN CarriedOut /\ (~ir.wr => mb.rd = mb.mem[ir.reg]) ELSE mb.did = 0
    /\ ir.pc = "clear" /\ ir.ret = "ok" => mb.ack /\ mb.cmd # "clr"
    /\ ir.pc \in {"clear", "wait", "idle"} /\ ir.ret = "ok" =>
         CarriedOut /\ (~ir.wr => ir.tmp = mb.mem[ir.reg])

\* The command register follows the access; a cleared mailbox stays clear.
IndirectCommand ==
  /\ ir.pc \in {"wait", "idle", "cmd"} => mb.cmd = "clr"
  /\ ir.pc = "ack" => mb.cmd = IF ir.wr THEN "wr" ELSE "rd"
  /\ ir.pc \in {"cmd", "ack"} => ir.ret = "none"
  /\ ir.pc = "idle" /\ ir.ret2 = "ok" => ~mb.ack

IndirectIInv == IndirectTypeOK /\ IndirectAccess /\ IndirectCommand

\* The command an earlier user left is about to be cleared.
LEMMA IndirectInitIInv == IndirectInit => IndirectIInv
<1> SUFFICES ASSUME NEW cmd \in {"clr", "rd"}, NEW ack \in BOOLEAN, NEW r \in IrRegs, NEW v \in IrVals,
                    ir = [pc |-> "clear", wr |-> FALSE, reg |-> r, val |-> v, ret |-> "none", ret2 |-> "none",
                          open |-> FALSE, tmp |-> v, residue |-> FALSE],
                    mb = [cmd |-> cmd, ack |-> ack, addr |-> r, data |-> v, rd |-> v,
                          mem |-> [x \in IrRegs |-> v], did |-> 0]
             PROVE  IndirectIInv
  BY DEF IndirectInit
<1>1. IndirectTypeOK
  BY DEF IndirectTypeOK
<1>2. IndirectAccess /\ IndirectCommand
  BY DEF IndirectAccess, IndirectCommand
<1> QED BY <1>1, <1>2 DEF IndirectIInv

\* The steps of an access and of the device, timeouts included, keep the invariant.
LEMMA IndirectStepIInv == IndirectIInv /\ [IndirectNext]_indirect_vars => IndirectIInv'
<1> SUFFICES ASSUME IndirectIInv, [IndirectNext]_indirect_vars PROVE IndirectIInv'
  OBVIOUS
<1> USE DEF IndirectIInv, IndirectTypeOK, IndirectAccess, IndirectCommand, CarriedOut
<1>1. CASE indirect_bus_entry
  <2>1. PICK wr \in BOOLEAN, r \in IrRegs, v \in IrVals :
          /\ ir' = [ir EXCEPT !.pc = "cmd", !.wr = wr, !.reg = r, !.val = v, !.ret = "none", !.ret2 = "none",
                              !.residue = ~Clear]
          /\ mb' = [mb EXCEPT !.addr = r, !.data = IF wr THEN v ELSE @, !.did = 0]
    BY <1>1 DEF indirect_bus_entry
  <2>2. Clear \in BOOLEAN /\ (Clear <=> mb.cmd = "clr" /\ ~mb.ack) /\ ir.pc = "idle"
    BY <1>1 DEF Clear, indirect_bus_entry
  <2>3. IndirectTypeOK'
    BY <2>1, <2>2
  <2>4. IndirectAccess' /\ IndirectCommand'
    BY <2>1, <2>2
  <2> QED BY <2>3, <2>4
<1>2. CASE indirect_bus_cmd
  BY <1>2 DEF indirect_bus_cmd
<1>3. CASE indirect_bus_reg_write \/ indirect_bus_reg_read
  <2>1. PICK v \in IrVals :
          /\ ir' = [ir EXCEPT !.pc = "clear", !.ret = "ok", !.tmp = v]
          /\ ir.pc = "ack" /\ mb.ack /\ UNCHANGED mb
          /\ ~ir.wr => v = mb.rd
    <3>1. CASE indirect_bus_reg_write
      <4>1. ir' = [ir EXCEPT !.pc = "clear", !.ret = "ok", !.tmp = ir.tmp]
        BY <3>1 DEF indirect_bus_reg_write
      <4> QED BY <3>1, <4>1 DEF indirect_bus_reg_write, Acked
    <3>2. CASE indirect_bus_reg_read
      BY <3>2 DEF indirect_bus_reg_read, Acked
    <3> QED BY <1>3, <3>1, <3>2
  <2>2. IndirectTypeOK'
    BY <2>1
  <2>3. IndirectAccess'
    BY <2>1
  <2>4. IndirectCommand'
    BY <2>1
  <2> QED BY <2>2, <2>3, <2>4
<1>4. CASE indirect_bus_timeout
  BY <1>4 DEF indirect_bus_timeout
<1>5. CASE indirect_bus_clear_cmd
  BY <1>5 DEF indirect_bus_clear_cmd
<1>6. CASE clear_done \/ clear_timeout
  <2>1. PICK ret2 \in {"ok", "timeout"} :
          /\ ir' = [ir EXCEPT !.pc = "idle", !.ret2 = ret2, !.open = TRUE]
          /\ UNCHANGED mb /\ ir.pc = "wait" /\ (ret2 = "ok" => ~mb.ack)
    BY <1>6 DEF clear_done, clear_timeout, wait_clear, Clear
  <2>2. IndirectTypeOK'
    BY <2>1
  <2>3. IndirectAccess'
    BY <2>1
  <2>4. IndirectCommand'
    BY <2>1
  <2> QED BY <2>2, <2>3, <2>4
<1>7. CASE DeviceActs
  <2> DEFINE m == [mb.mem EXCEPT ![mb.addr] = IF mb.cmd = "wr" THEN mb.data ELSE @]
             n == IF mb.did < 2 THEN mb.did + 1 ELSE mb.did
             rd == IF mb.cmd = "rd" THEN mb.mem[mb.addr] ELSE mb.rd
  <2>1. mb' = [mb EXCEPT !.ack = TRUE, !.did = n, !.rd = rd, !.mem = m]
    BY <1>7 DEF DeviceActs
  <2>2. m \in [IrRegs -> IrVals] /\ rd \in IrVals
    OBVIOUS
  <2>3. n \in {0, 1, 2} /\ (mb.did = 0 => n = 1)
    OBVIOUS
  <2> HIDE DEF m, n, rd
  <2>4. IndirectTypeOK'
    BY <1>7, <2>1, <2>2, <2>3 DEF DeviceActs
  <2>5. IndirectAccess'
    BY <1>7, <2>1, <2>2, <2>3 DEF DeviceActs, m, rd
  <2>6. IndirectCommand'
    BY <1>7, <2>1 DEF DeviceActs
  <2> QED BY <2>4, <2>5, <2>6
<1>8. CASE DeviceDropsAck
  <2>1. IndirectTypeOK'
    BY <1>8 DEF DeviceDropsAck
  <2>2. IndirectAccess'
    BY <1>8 DEF DeviceDropsAck
  <2>3. IndirectCommand'
    BY <1>8 DEF DeviceDropsAck
  <2> QED BY <2>1, <2>2, <2>3
<1>9. CASE UNCHANGED indirect_vars
  BY <1>9 DEF indirect_vars
<1> QED BY <1>1, <1>2, <1>3, <1>4, <1>5, <1>6, <1>7, <1>8, <1>9 DEF IndirectNext

\* An access of the indirect bus that reports success was carried out once and returns
\* what the register holds, also after accesses that timed out, provided the mailbox was
\* clear when it began; and it is left clear whenever the clear is reported to succeed.
THEOREM IndirectIsTrue == IndirectSpec => []IndirectAccessTrue
<1>1. IndirectIInv => IndirectAccessTrue
  BY DEF IndirectIInv, IndirectTypeOK, IndirectAccess, IndirectCommand, CarriedOut, IndirectAccessTrue,
         IndirectTrue, IndirectLeftClear, Returned, Ok, Clear
<1> QED BY <1>1, IndirectInitIInv, IndirectStepIInv, PTL DEF IndirectSpec

-----------------------------------------------------------------------------
(* The performance events.                                                 *)

Evnts == {0} \cup {k.evnt : k \in PfKinds}
Modes == {Root, 0}
EventType ==
  [pc : {"none", "mode", "off", "on", "select", "poll", "cntr"}, k : PfKinds \cup {NoKind},
   cpu : PfCpus \cup {0}, v : [type : {"none"}, evnt : Evnts, port : Modes],
   why : {"none", "start", "stop", "read"}, now : Int, prev : Int, count : Int, last : Int, want : Int,
   own : BOOLEAN, mixed : BOOLEAN, bad : BOOLEAN]

PerfTypeOK ==
  /\ pf \in [users : Int, port : Modes, lock : BOOLEAN, cpu : PfCpus, mig : PfCpus \cup {0}, cnt : Int,
             ctrl : [Selected -> [filter : Modes, evnt : Evnts]]]
  /\ pe \in [PfEvents -> EventType]

\* Where an event may be: an open one is of a type the board has, and one that selects
\* its counter of a type with a control register.
PerfPlaces ==
  \A e \in PfEvents :
    /\ pe[e].pc = "none" => pe[e].k.type = "none"
    /\ pe[e].pc # "none" => pe[e].k.type \in Selected \cup {"basic"}
    /\ pe[e].pc \in {"select", "poll"} => pe[e].k.type \in Selected
    /\ pe[e].pc = "mode" => pe[e].k.type = "fabric"
    /\ Reading(e) => pe[e].why \in {"start", "stop", "read"}

\* All fabric events are for the mode in fab_port_id; while it is being changed, under
\* the lock, there is no fabric event but the one that changes it.
PerfOneMode ==
  /\ ~pf.lock => pf.ctrl["fabric"].filter = pf.port
  /\ \A e \in PfEvents :
       pe[e].k.type = "fabric" =>
         /\ pe[e].k.port = pf.port
         /\ pe[e].pc = "mode" <=> pf.lock
         /\ pe[e].pc = "select" => pe[e].v.port = pf.port
  /\ \A d, e \in PfEvents : pe[d].pc = "mode" /\ pe[e].pc = "mode" => d = e

\* Open events are on the driver's CPU, or still on the one they leave; of the events of
\* one CPU one is read at a time.
PerfOnCpus ==
  /\ pf.mig # pf.cpu
  /\ \A e \in PfEvents : pe[e].pc # "none" => pe[e].cpu = pf.cpu \/ (pf.mig # 0 /\ pe[e].cpu = pf.mig)
  /\ \A d, e \in PfEvents : Reading(d) /\ Reading(e) /\ pe[d].cpu = pe[e].cpu => d = e

\* A read that no migration touched: it keeps the events on their old CPU, and what it
\* selected is still selected.
PerfUnmixed ==
  \A e \in PfEvents :
    Reading(e) /\ ~pe[e].mixed =>
      /\ pe[e].cpu = IF pf.mig = 0 THEN pf.cpu ELSE pf.mig
      /\ pe[e].pc = "cntr" /\ pf.mig = 0 /\ pe[e].k.type \in Selected
           => pf.ctrl[pe[e].k.type].evnt = pe[e].k.evnt

PerfIInv ==
  PerfTypeOK /\ PerfPlaces /\ PerfOneMode /\ PerfOnCpus /\ PerfUnmixed /\ PerfUsersExact /\ PerfReadOwn

ReadingPcs == {"select", "poll", "cntr"}

\* No event is open, and the mode is the one the hardware was left in.
LEMMA PerfInitIInv == PerfInit => PerfIInv
<1> SUFFICES ASSUME PerfInit PROVE PerfIInv
  OBVIOUS
<1>1. PICK c \in PfCpus, f \in Modes :
        /\ pf = [users |-> 0, port |-> f, lock |-> FALSE, cpu |-> c, mig |-> 0, cnt |-> 0,
                 ctrl |-> [t \in Selected |-> [filter |-> IF t = "fabric" THEN f ELSE Root, evnt |-> 0]]]
        /\ pe = [e \in PfEvents |-> PfOff]
  BY DEF PerfInit, fme_perf_setup_hardware, Modes
<1>2. PfOff \in EventType
  BY DEF PfOff, EventType, NoKind, Evnts, Modes
<1>3. pf \in [users : Int, port : Modes, lock : BOOLEAN, cpu : PfCpus, mig : PfCpus \cup {0}, cnt : Int,
              ctrl : [Selected -> [filter : Modes, evnt : Evnts]]]
  <2>1. [t \in Selected |-> [filter |-> IF t = "fabric" THEN f ELSE Root, evnt |-> 0]]
          \in [Selected -> [filter : Modes, evnt : Evnts]]
    BY DEF Modes, Evnts
  <2> QED BY <1>1, <2>1
<1>4. PerfTypeOK
  BY <1>1, <1>2, <1>3 DEF PerfTypeOK
<1>5. \A e \in PfEvents : pe[e].pc = "none" /\ pe[e].k.type = "none" /\ pe[e].own /\ ~Reading(e)
  BY <1>1 DEF PfOff, NoKind, Reading
<1>6. PerfUsersExact
  <2>1. Fabric = {}
    BY <1>5 DEF Fabric
  <2> QED BY <1>1, <2>1, FS_EmptySet DEF PerfUsersExact
<1>7. pf.mig # pf.cpu /\ pf.ctrl["fabric"].filter = pf.port
  BY <1>1, PerfAssumption DEF Selected
<1> QED BY <1>4, <1>5, <1>6, <1>7 DEF PerfIInv, PerfPlaces, PerfOneMode, PerfOnCpus, PerfUnmixed, PerfReadOwn

\* An open event moves on, and stays the event it is: what is left to show is that the
\* mode and the selection of the reads stay.
LEMMA EventMoves ==
  ASSUME PerfIInv, PerfTypeOK', NEW e \in PfEvents, NEW x \in EventType, pe' = [pe EXCEPT ![e] = x],
         pe[e].pc # "none", x.pc \notin {"none", "mode"}, x.k = pe[e].k, x.cpu = pe[e].cpu,
         x.pc \in {"select", "poll"} => x.k.type \in Selected,
         x.pc \in ReadingPcs => /\ x.why # "none"
                                /\ Reading(e) \/ CpuFree(pe[e].cpu),
         x.own \/ x.mixed,
         pf'.users = pf.users, pf'.cpu = pf.cpu, pf'.mig = pf.mig
  PROVE  PerfPlaces' /\ PerfOnCpus' /\ PerfUsersExact' /\ PerfReadOwn'
<1>1. pe'[e] = x /\ \A d \in PfEvents : d # e => pe'[d] = pe[d]
  BY DEF PerfIInv, PerfTypeOK
<1>2. PerfPlaces'
  BY <1>1 DEF PerfIInv, PerfPlaces, Reading, ReadingPcs, EventType
<1>3. PerfOnCpus'
  BY <1>1 DEF PerfIInv, PerfOnCpus, Reading, ReadingPcs, CpuFree
<1>4. PerfUsersExact'
  <2>1. Fabric' = Fabric
    BY <1>1 DEF Fabric
  <2> QED BY <2>1 DEF PerfIInv, PerfUsersExact
<1>5. PerfReadOwn'
  BY <1>1 DEF PerfIInv, PerfReadOwn
<1> QED BY <1>2, <1>3, <1>4, <1>5

\* Start, stop and read begin: on a CPU with nobody reading, an event takes the mode of
\* its control register along.
LEMMA BeginKeeps ==
  ASSUME PerfIInv, NEW e \in PfEvents, NEW from \in {"off", "on"}, NEW why \in {"start", "stop", "read"},
         PerfBegin(e, from, why)
  PROVE  PerfIInv'
<1> DEFINE t == pe[e].k.type
           v == IF t = "basic" THEN NoKind ELSE [NoKind EXCEPT !.port = pf.ctrl[t].filter]
           x == [pe[e] EXCEPT !.pc = IF t = "basic" THEN "cntr" ELSE "select", !.why = why,
                              !.mixed = pf.mig # 0, !.own = TRUE, !.v = v]
<1>1. pe[e] \in EventType /\ pe[e].pc = from /\ CpuFree(pe[e].cpu) /\ UNCHANGED pf /\ pf' = pf
  BY DEF PerfIInv, PerfTypeOK, PerfBegin
<1>2. t \in Selected \cup {"basic"}
  BY <1>1 DEF PerfIInv, PerfPlaces
<1>3. pe' = [pe EXCEPT ![e] = x]
  BY <1>1 DEF PerfIInv, PerfTypeOK, PerfBegin
<1>4. v \in [type : {"none"}, evnt : Evnts, port : Modes] /\ (t \in Selected => v.port = pf.ctrl[t].filter)
  BY <1>2 DEF PerfIInv, PerfTypeOK, NoKind, Evnts, Modes, Selected
<1>5. /\ x \in EventType /\ x.k = pe[e].k /\ x.cpu = pe[e].cpu /\ x.why = why /\ x.own /\ x.v = v
      /\ x.pc \in {"cntr", "select"} /\ (x.pc = "select" <=> t # "basic") /\ (x.mixed <=> pf.mig # 0)
  <2> HIDE DEF v
  <2> QED BY <1>1, <1>4 DEF EventType
<1> HIDE DEF x, v
<1>6. PerfTypeOK'
  BY <1>1, <1>3, <1>5 DEF PerfIInv, PerfTypeOK
<1>7. PerfPlaces' /\ PerfOnCpus' /\ PerfUsersExact' /\ PerfReadOwn'
  BY <1>1, <1>2, <1>3, <1>5, <1>6, EventMoves
<1>8. pe'[e] = x /\ \A d \in PfEvents : d # e => pe'[d] = pe[d]
  BY <1>3 DEF PerfIInv, PerfTypeOK
<1>9. PerfOneMode'
  <2>1. t = "fabric" => ~pf.lock /\ pf.ctrl["fabric"].filter = pf.port
    BY <1>1 DEF PerfIInv, PerfOneMode
  <2> QED BY <1>1, <1>4, <1>5, <1>8, <2>1 DEF PerfIInv, PerfOneMode, Selected
<1>10. PerfUnmixed'
  <2>1. pf.mig = 0 => pe[e].cpu = pf.cpu
    BY <1>1 DEF PerfIInv, PerfOnCpus
  <2>2. x.pc = "cntr" => t \notin Selected
    BY <1>5 DEF Selected
  <2> QED BY <1>1, <1>5, <1>8, <2>1, <2>2 DEF PerfIInv, PerfUnmixed, Reading
<1> QED BY <1>6, <1>7, <1>9, <1>10 DEF PerfIInv

\* The event is written to the control register: its mode stays, and no other read is
\* spoilt unless events are moving.
LEMMA SelectKeeps ==
  ASSUME PerfIInv, NEW e \in PfEvents, read_counter_select(e)
  PROVE  PerfIInv'
<1> DEFINE t == pe[e].k.type
           x == [pe[e] EXCEPT !.pc = "poll", !.mixed = @ \/ pf.mig # 0]
           c == [filter |-> pe[e].v.port, evnt |-> pe[e].k.evnt]
<1>1. pe[e] \in EventType /\ pe[e].pc = "select" /\ t \in Selected
  BY DEF PerfIInv, PerfTypeOK, PerfPlaces, read_counter_select
<1>2. pe' = [pe EXCEPT ![e] = x] /\ pf' = [pf EXCEPT !.ctrl = [pf.ctrl EXCEPT ![t] = c]]
  BY DEF PerfIInv, PerfTypeOK, read_counter_select
<1>3. /\ x \in EventType /\ x.k = pe[e].k /\ x.cpu = pe[e].cpu /\ x.why = pe[e].why /\ x.own = pe[e].own
      /\ x.pc = "poll" /\ (x.mixed <=> pe[e].mixed \/ pf.mig # 0)
  BY <1>1 DEF EventType
<1>4. c \in [filter : Modes, evnt : Evnts]
  <2>1. pe[e].v.port \in Modes
    BY <1>1 DEF EventType
  <2>2. pe[e].k.evnt \in Evnts
    BY <1>1 DEF EventType, Evnts, NoKind
  <2> QED BY <2>1, <2>2
<1> HIDE DEF x, c
<1>5. /\ pf'.users = pf.users /\ pf'.cpu = pf.cpu /\ pf'.mig = pf.mig
      /\ pf'.lock = pf.lock /\ pf'.port = pf.port
      /\ pf'.ctrl = [pf.ctrl EXCEPT ![t] = c]
  BY <1>2 DEF PerfIInv, PerfTypeOK
<1>6. PerfTypeOK'
  BY <1>1, <1>2, <1>3, <1>4 DEF PerfIInv, PerfTypeOK
<1>7. PerfPlaces' /\ PerfOnCpus' /\ PerfUsersExact' /\ PerfReadOwn'
  <2>1. x.own \/ x.mixed
    BY <1>3 DEF PerfIInv, PerfReadOwn
  <2>2. x.why # "none" /\ Reading(e)
    BY <1>1, <1>3 DEF PerfIInv, PerfPlaces, Reading
  <2> QED BY <1>1, <1>2, <1>3, <1>5, <1>6, <2>1, <2>2, EventMoves
<1>8. pe'[e] = x /\ \A d \in PfEvents : d # e => pe'[d] = pe[d]
  BY <1>2 DEF PerfIInv, PerfTypeOK
<1>9. PerfOneMode'
  <2>1. pf'.ctrl["fabric"].filter = IF t = "fabric" THEN pe[e].v.port ELSE pf.ctrl["fabric"].filter
    BY <1>1, <1>5 DEF PerfIInv, PerfTypeOK, Selected, c
  <2>2. t = "fabric" => ~pf.lock /\ pe[e].v.port = pf.port
    BY <1>1 DEF PerfIInv, PerfOneMode
  <2> QED BY <1>1, <1>3, <1>5, <1>8, <2>1, <2>2 DEF PerfIInv, PerfOneMode
<1>10. PerfUnmixed'
  <2>1. ASSUME NEW d \in PfEvents, d # e, Reading(d), ~pe[d].mixed, pf.mig = 0 PROVE FALSE
    <3>1. pe[d].cpu = pf.cpu /\ pe[e].cpu = pf.cpu
      BY <1>1, <2>1 DEF PerfIInv, PerfUnmixed, PerfOnCpus
    <3> QED BY <1>1, <2>1, <3>1 DEF PerfIInv, PerfOnCpus, Reading
  <2> QED BY <1>1, <1>3, <1>5, <1>8, <2>1 DEF PerfIInv, PerfUnmixed, Reading
<1> QED BY <1>6, <1>7, <1>9, <1>10 DEF PerfIInv

\* The control register shows the event: it is selected.
LEMMA PollKeeps ==
  ASSUME PerfIInv, NEW e \in PfEvents, read_counter_poll(e)
  PROVE  PerfIInv'
<1> DEFINE t == pe[e].k.type
           x == [pe[e] EXCEPT !.pc = "cntr", !.mixed = @ \/ pf.mig # 0]
<1>1. pe[e] \in EventType /\ pe[e].pc = "poll" /\ t \in Selected /\ pf.ctrl[t].evnt = pe[e].k.evnt /\ pf' = pf
  BY DEF PerfIInv, PerfTypeOK, PerfPlaces, read_counter_poll
<1>2. pe' = [pe EXCEPT ![e] = x]
  BY DEF PerfIInv, PerfTypeOK, read_counter_poll
<1>3. /\ x \in EventType /\ x.k = pe[e].k /\ x.cpu = pe[e].cpu /\ x.why = pe[e].why /\ x.own = pe[e].own
      /\ x.pc = "cntr" /\ (x.mixed <=> pe[e].mixed \/ pf.mig # 0)
  BY <1>1 DEF EventType
<1> HIDE DEF x
<1>4. PerfTypeOK'
  BY <1>1, <1>2, <1>3 DEF PerfIInv, PerfTypeOK
<1>5. PerfPlaces' /\ PerfOnCpus' /\ PerfUsersExact' /\ PerfReadOwn'
  <2>1. x.own \/ x.mixed
    BY <1>3 DEF PerfIInv, PerfReadOwn
  <2>2. x.why # "none" /\ Reading(e)
    BY <1>1, <1>3 DEF PerfIInv, PerfPlaces, Reading
  <2> QED BY <1>1, <1>2, <1>3, <1>4, <2>1, <2>2, EventMoves
<1>6. pe'[e] = x /\ \A d \in PfEvents : d # e => pe'[d] = pe[d]
  BY <1>2 DEF PerfIInv, PerfTypeOK
<1>7. PerfOneMode'
  BY <1>1, <1>3, <1>6 DEF PerfIInv, PerfOneMode
<1>8. PerfUnmixed'
  BY <1>1, <1>3, <1>6 DEF PerfIInv, PerfUnmixed, Reading
<1> QED BY <1>4, <1>5, <1>7, <1>8 DEF PerfIInv

\* Whatever the counter is taken for, the event is the same and no longer read.
LEMMA DoneIs ==
  ASSUME NEW x \in EventType, x.why \in {"start", "stop", "read"}, NEW now \in Int
  PROVE  /\ PerfDone(x, now) \in EventType /\ PerfDone(x, now).pc \in {"on", "off"}
         /\ PerfDone(x, now).k = x.k /\ PerfDone(x, now).cpu = x.cpu
         /\ PerfDone(x, now).own = x.own /\ PerfDone(x, now).mixed = x.mixed
<1>1. CASE x.why = "start"
  <2>1. PerfDone(x, now) = [x EXCEPT !.pc = "on", !.prev = now, !.last = now]
    BY <1>1 DEF PerfDone
  <2> QED BY <2>1 DEF EventType
<1>2. CASE x.why # "start"
  <2> DEFINE u == fme_perf_event_update(x, now)
  <2>1. x.count + now - x.prev \in Int /\ x.want + now - x.last \in Int
    BY DEF EventType
  <2>2. u = [x EXCEPT !.count = x.count + now - x.prev, !.want = x.want + now - x.last, !.last = now]
    BY DEF fme_perf_event_update, EventType
  <2>3. u \in EventType /\ u.k = x.k /\ u.cpu = x.cpu /\ u.own = x.own /\ u.mixed = x.mixed
    BY <2>1, <2>2 DEF EventType
  <2> HIDE DEF u
  <2>4. PICK pc \in {"on", "off"} : PerfDone(x, now) = [u EXCEPT !.pc = pc]
    BY <1>2 DEF PerfDone, u
  <2> QED BY <2>3, <2>4 DEF EventType
<1> QED BY <1>1, <1>2

\* The end of a read, by its counter or by a timeout.
LEMMA ReadEnds ==
  ASSUME PerfIInv, NEW e \in PfEvents, Reading(e), UNCHANGED pf, NEW x \in EventType,
         pe' = [pe EXCEPT ![e] = x], x.pc \in {"on", "off"}, x.k = pe[e].k, x.cpu = pe[e].cpu,
         x.own \/ x.mixed
  PROVE  PerfIInv'
<1>1. pe[e].pc \notin {"none", "mode"} /\ pf' = pf
  BY DEF Reading
<1>2. PerfTypeOK'
  BY <1>1 DEF PerfIInv, PerfTypeOK
<1>3. PerfPlaces' /\ PerfOnCpus' /\ PerfUsersExact' /\ PerfReadOwn'
  BY <1>1, <1>2, EventMoves DEF ReadingPcs
<1>4. pe'[e] = x /\ \A d \in PfEvents : d # e => pe'[d] = pe[d]
  BY DEF PerfIInv, PerfTypeOK
<1>5. PerfOneMode'
  BY <1>1, <1>4 DEF PerfIInv, PerfOneMode
<1>6. PerfUnmixed'
  BY <1>1, <1>4 DEF PerfIInv, PerfUnmixed, Reading
<1> QED BY <1>2, <1>3, <1>5, <1>6 DEF PerfIInv

\* fme_read_perf_cntr_reg reads what the event selected, in the mode it was opened for.
LEMMA CntrKeeps ==
  ASSUME PerfIInv, NEW e \in PfEvents, fme_read_perf_cntr_reg(e)
  PROVE  PerfIInv'
<1> DEFINE t == pe[e].k.type
           own == t \in Selected => /\ pf.ctrl[t].evnt = pe[e].k.evnt
                                    /\ t = "fabric" => pf.ctrl[t].filter = pe[e].k.port
           y == PerfDone(pe[e], pf.cnt)
           x == [y EXCEPT !.own = own, !.mixed = y.mixed \/ pf.mig # 0, !.v = NoKind]
<1>1. pe[e] \in EventType /\ pe[e].pc = "cntr" /\ Reading(e) /\ UNCHANGED pf /\ pf.cnt \in Int
  BY DEF PerfIInv, PerfTypeOK, Reading, fme_read_perf_cntr_reg
<1>2. pe[e].why \in {"start", "stop", "read"}
  BY <1>1 DEF PerfIInv, PerfPlaces
<1>3. /\ y \in EventType /\ y.pc \in {"on", "off"} /\ y.k = pe[e].k /\ y.cpu = pe[e].cpu
      /\ y.own = pe[e].own /\ y.mixed = pe[e].mixed
  BY <1>1, <1>2, DoneIs
<1>4. pe' = [pe EXCEPT ![e] = x]
  BY DEF fme_read_perf_cntr_reg
<1>5. ~pe[e].mixed /\ pf.mig = 0 => own
  <2>1. ASSUME ~pe[e].mixed, pf.mig = 0, t \in Selected PROVE pf.ctrl[t].evnt = pe[e].k.evnt
    BY <1>1, <2>1 DEF PerfIInv, PerfUnmixed
  <2>2. ASSUME t = "fabric" PROVE pf.ctrl[t].filter = pe[e].k.port
    BY <1>1, <2>2 DEF PerfIInv, PerfOneMode
  <2> QED BY <2>1, <2>2
<1>6. own \in BOOLEAN /\ NoKind \in [type : {"none"}, evnt : Evnts, port : Modes]
  BY DEF NoKind, Evnts, Modes
<1> HIDE DEF own, y
<1>7. /\ x \in EventType /\ x.pc = y.pc /\ x.k = y.k /\ x.cpu = y.cpu
      /\ (x.own <=> own) /\ (x.mixed <=> y.mixed \/ pf.mig # 0)
  BY <1>3, <1>6 DEF EventType
<1> HIDE DEF x
<1> QED BY <1>1, <1>3, <1>4, <1>5, <1>7, ReadEnds

\* A timeout ends a read without looking at the counter.
LEMMA TimeoutKeeps ==
  ASSUME PerfIInv, NEW e \in PfEvents, read_counter_timeout(e)
  PROVE  PerfIInv'
<1> DEFINE y == PerfDone(pe[e], 0)
           x == [y EXCEPT !.bad = TRUE, !.v = NoKind]
<1>1. pe[e] \in EventType /\ Reading(e) /\ UNCHANGED pf
  BY DEF PerfIInv, PerfTypeOK, Reading, read_counter_timeout
<1>2. pe[e].why \in {"start", "stop", "read"}
  BY <1>1 DEF PerfIInv, PerfPlaces
<1>3. /\ y \in EventType /\ y.pc \in {"on", "off"} /\ y.k = pe[e].k /\ y.cpu = pe[e].cpu
      /\ y.own = pe[e].own /\ y.mixed = pe[e].mixed
  BY <1>1, <1>2, DoneIs
<1>4. pe' = [pe EXCEPT ![e] = x]
  BY DEF read_counter_timeout
<1>5. NoKind \in [type : {"none"}, evnt : Evnts, port : Modes]
  BY DEF NoKind, Evnts, Modes
<1>6. pe[e].own \/ pe[e].mixed
  BY DEF PerfIInv, PerfReadOwn
<1> HIDE DEF y
<1>7. /\ x \in EventType /\ x.pc = y.pc /\ x.k = y.k /\ x.cpu = y.cpu
      /\ x.own = y.own /\ x.mixed = y.mixed
  BY <1>3, <1>5 DEF EventType
<1> HIDE DEF x
<1> QED BY <1>1, <1>3, <1>4, <1>6, <1>7, ReadEnds

\* Fabric events are counted in a finite set.
LEMMA FabricFinite == IsFiniteSet(Fabric) /\ Cardinality(Fabric) \in Nat
<1>1. Fabric \subseteq PfEvents
  BY DEF Fabric
<1> QED BY <1>1, PerfAssumption, FS_Subset, FS_CardinalityType

\* An event of a kind the board has.
LEMMA OpenedIs ==
  ASSUME PerfIInv, NEW k \in PfKinds, event_init_ok(k)
  PROVE  /\ Opened(k) \in EventType /\ Opened(k).pc = "off" /\ Opened(k).k = k /\ Opened(k).cpu = pf.cpu
         /\ Opened(k).own /\ ~Opened(k).mixed
         /\ k.type \in Selected \cup {"basic"} /\ (k.type = "fabric" => k.port \in Modes)
<1>1. k.type \in Selected \cup {"basic"} /\ (k.type = "fabric" => k.port \in Modes)
  BY DEF event_init_ok, Selected, Modes
<1>2. PfOff \in EventType
  BY DEF PfOff, EventType, NoKind, Evnts, Modes
<1>3. pf.cpu \in PfCpus
  BY DEF PerfIInv, PerfTypeOK
<1> QED BY <1>1, <1>2, <1>3 DEF Opened, EventType, PfOff

\* A closed event is opened, off its counter: what is left are the fabric events.
LEMMA EventOpens ==
  ASSUME PerfIInv, PerfTypeOK', NEW e \in PfEvents, NEW x \in EventType, pe' = [pe EXCEPT ![e] = x],
         pe[e].pc = "none", x.pc \in {"off", "mode"}, x.cpu = pf.cpu, x.own,
         x.k.type \in Selected \cup {"basic"}, x.pc = "mode" => x.k.type = "fabric",
         pf'.cpu = pf.cpu, pf'.mig = pf.mig, pf'.ctrl = pf.ctrl
  PROVE  PerfPlaces' /\ PerfOnCpus' /\ PerfUnmixed' /\ PerfReadOwn'
<1>1. pe'[e] = x /\ \A d \in PfEvents : d # e => pe'[d] = pe[d]
  BY DEF PerfIInv, PerfTypeOK
<1>2. PerfPlaces'
  BY <1>1 DEF PerfIInv, PerfPlaces, Reading
<1>3. PerfOnCpus'
  BY <1>1 DEF PerfIInv, PerfOnCpus, Reading
<1>4. PerfUnmixed'
  BY <1>1 DEF PerfIInv, PerfUnmixed, Reading
<1>5. PerfReadOwn'
  BY <1>1 DEF PerfIInv, PerfReadOwn
<1> QED BY <1>2, <1>3, <1>4, <1>5

\* fme_perf_event_init: an event that needs no mode.
LEMMA InitKeeps ==
  ASSUME PerfIInv, NEW e \in PfEvents, fme_perf_event_init(e)
  PROVE  PerfIInv'
<1>1. PICK k \in PfKinds : k.type # "fabric" /\ event_init_ok(k) /\ pe' = [pe EXCEPT ![e] = Opened(k)]
  BY DEF fme_perf_event_init
<1>2. pe[e].pc = "none" /\ pf' = pf
  BY <1>1 DEF fme_perf_event_init
<1>3. /\ Opened(k) \in EventType /\ Opened(k).pc = "off" /\ Opened(k).k = k /\ Opened(k).cpu = pf.cpu
      /\ Opened(k).own /\ k.type \in Selected \cup {"basic"}
  BY <1>1, OpenedIs
<1>4. PerfTypeOK'
  BY <1>1, <1>2, <1>3 DEF PerfIInv, PerfTypeOK
<1>5. PerfPlaces' /\ PerfOnCpus' /\ PerfUnmixed' /\ PerfReadOwn'
  BY <1>1, <1>2, <1>3, <1>4, EventOpens
<1>6. pe'[e] = Opened(k) /\ \A d \in PfEvents : d # e => pe'[d] = pe[d]
  BY <1>1 DEF PerfIInv, PerfTypeOK
<1>7. PerfOneMode'
  BY <1>1, <1>2, <1>3, <1>6 DEF PerfIInv, PerfOneMode
<1>8. PerfUsersExact'
  <2>1. pe[e].k.type # "fabric"
    BY <1>2 DEF PerfIInv, PerfPlaces
  <2>2. Fabric' = Fabric
    BY <1>1, <1>3, <1>6, <2>1 DEF Fabric
  <2> QED BY <1>2, <2>2 DEF PerfIInv, PerfUsersExact
<1> QED BY <1>4, <1>5, <1>7, <1>8 DEF PerfIInv

\* A fabric event that is opened is counted once.
LEMMA FabricOpens ==
  ASSUME PerfIInv, NEW e \in PfEvents, NEW x, pe' = [pe EXCEPT ![e] = x],
         pe[e].k.type # "fabric", x.k.type = "fabric", pf'.users = pf.users + 1
  PROVE  PerfUsersExact'
<1>1. Fabric' = Fabric \cup {e} /\ e \notin Fabric
  BY DEF Fabric, PerfIInv, PerfTypeOK
<1>2. Cardinality(Fabric') = Cardinality(Fabric) + 1
  BY <1>1, FabricFinite, FS_AddElement
<1> QED BY <1>2 DEF PerfIInv, PerfUsersExact

\* fabric_event_init: for the mode in use, for another one when there is no user, or
\* refused.
LEMMA FabricInitKeeps ==
  ASSUME PerfIInv, NEW e \in PfEvents, fabric_event_init(e)
  PROVE  PerfIInv'
<1>1. PICK k \in PfKinds :
        /\ k.type = "fabric" /\ event_init_ok(k)
        /\ IF fabric_conflict(k.port) THEN fabric_refused /\ UNCHANGED pe
           ELSE IF pf.port = k.port
           THEN pf' = [pf EXCEPT !.users = @ + 1] /\ pe' = [pe EXCEPT ![e] = Opened(k)]
           ELSE /\ pf' = [pf EXCEPT !.users = @ + 1, !.port = k.port, !.lock = TRUE]
                /\ pe' = [pe EXCEPT ![e] = [Opened(k) EXCEPT !.pc = "mode",
                                            !.v = [NoKind EXCEPT !.evnt = pf.ctrl["fabric"].evnt]]]
  BY DEF fabric_event_init
<1>2. pe[e].pc = "none" /\ ~pf.lock /\ pe[e].k.type # "fabric"
  BY DEF fabric_event_init, PerfIInv, PerfPlaces
<1>3. /\ Opened(k) \in EventType /\ Opened(k).pc = "off" /\ Opened(k).k = k /\ Opened(k).cpu = pf.cpu
      /\ Opened(k).own /\ k.type \in Selected \cup {"basic"} /\ k.port \in Modes
  BY <1>1, OpenedIs
<1>4. CASE fabric_refused /\ UNCHANGED pe
  BY <1>4 DEF fabric_refused, PerfIInv, PerfTypeOK, PerfPlaces, PerfOneMode, PerfOnCpus, PerfUnmixed,
              PerfUsersExact, PerfReadOwn, Fabric, Reading
<1>5. CASE /\ pf.port = k.port
           /\ pf' = [pf EXCEPT !.users = @ + 1] /\ pe' = [pe EXCEPT ![e] = Opened(k)]
  <2>1. /\ pf'.users = pf.users + 1 /\ pf'.port = pf.port /\ pf'.lock = pf.lock /\ pf'.cpu = pf.cpu
        /\ pf'.mig = pf.mig /\ pf'.ctrl = pf.ctrl
    BY <1>5 DEF PerfIInv, PerfTypeOK
  <2>2. PerfTypeOK'
    BY <1>3, <1>5 DEF PerfIInv, PerfTypeOK
  <2>3. PerfPlaces' /\ PerfOnCpus' /\ PerfUnmixed' /\ PerfReadOwn'
    BY <1>2, <1>3, <1>5, <2>1, <2>2, EventOpens
  <2>4. PerfUsersExact'
    BY <1>1, <1>2, <1>3, <1>5, <2>1, FabricOpens
  <2>5. pe'[e] = Opened(k) /\ \A d \in PfEvents : d # e => pe'[d] = pe[d]
    BY <1>5 DEF PerfIInv, PerfTypeOK
  <2>6. PerfOneMode'
    BY <1>2, <1>3, <1>5, <2>1, <2>5 DEF PerfIInv, PerfOneMode
  <2> QED BY <2>2, <2>3, <2>4, <2>6 DEF PerfIInv
<1>6. CASE /\ ~fabric_conflict(k.port) /\ pf.port # k.port
           /\ pf' = [pf EXCEPT !.users = @ + 1, !.port = k.port, !.lock = TRUE]
           /\ pe' = [pe EXCEPT ![e] = [Opened(k) EXCEPT !.pc = "mode",
                                       !.v = [NoKind EXCEPT !.evnt = pf.ctrl["fabric"].evnt]]]
  <2> DEFINE v == [NoKind EXCEPT !.evnt = pf.ctrl["fabric"].evnt]
             x == [Opened(k) EXCEPT !.pc = "mode", !.v = v]
  <2>1. /\ pf'.users = pf.users + 1 /\ pf'.port = k.port /\ pf'.lock /\ pf'.cpu = pf.cpu
        /\ pf'.mig = pf.mig /\ pf'.ctrl = pf.ctrl
    BY <1>6 DEF PerfIInv, PerfTypeOK
  <2>2. v \in [type : {"none"}, evnt : Evnts, port : Modes]
    BY DEF PerfIInv, PerfTypeOK, Selected, NoKind, Modes
  <2> HIDE DEF v
  <2>3. x \in EventType /\ x.pc = "mode" /\ x.k = k /\ x.cpu = pf.cpu /\ x.own
    BY <1>3, <2>2 DEF EventType
  <2>4. pe' = [pe EXCEPT ![e] = x]
    BY <1>6 DEF v
  <2> HIDE DEF x
  <2>5. PerfTypeOK'
    <3>1. pe' \in [PfEvents -> EventType]
      BY <2>3, <2>4 DEF PerfIInv, PerfTypeOK
    <3>2. pf' = [[pf EXCEPT !.users = pf.users + 1] EXCEPT !.port = k.port, !.lock = TRUE]
      BY <1>6 DEF PerfIInv, PerfTypeOK
    <3>3. [pf EXCEPT !.users = pf.users + 1]
            \in [users : Int, port : Modes, lock : BOOLEAN, cpu : PfCpus, mig : PfCpus \cup {0}, cnt : Int,
                 ctrl : [Selected -> [filter : Modes, evnt : Evnts]]]
      BY DEF PerfIInv, PerfTypeOK
    <3> QED BY <1>3, <3>1, <3>2, <3>3 DEF PerfTypeOK
  <2>6. PerfPlaces' /\ PerfOnCpus' /\ PerfUnmixed' /\ PerfReadOwn'
    BY <1>1, <1>2, <1>3, <2>1, <2>3, <2>4, <2>5, EventOpens
  <2>7. PerfUsersExact'
    BY <1>1, <1>2, <2>1, <2>3, <2>4, FabricOpens
  <2>8. \A d \in PfEvents : pe[d].k.type # "fabric"
    <3>1. ~(pf.users > 0)
      BY <1>6 DEF fabric_conflict
    <3>2. Cardinality(Fabric) = 0
      BY <3>1, FabricFinite DEF PerfIInv, PerfUsersExact
    <3>3. Fabric = {}
      BY <3>2, FabricFinite, FS_EmptySet
    <3> QED BY <3>3 DEF Fabric
  <2>9. pe'[e] = x /\ \A d \in PfEvents : d # e => pe'[d] = pe[d]
    BY <2>4 DEF PerfIInv, PerfTypeOK
  <2>10. PerfOneMode'
    <3>1. \A d \in PfEvents : pe[d].pc # "mode"
      BY <2>8 DEF PerfIInv, PerfPlaces
    <3> QED BY <1>1, <2>1, <2>3, <2>8, <2>9, <3>1 DEF PerfOneMode
  <2> QED BY <2>5, <2>6, <2>7, <2>10 DEF PerfIInv
<1> QED BY <1>1, <1>4, <1>5, <1>6

\* The mode is written and the lock dropped.
LEMMA FabricWriteKeeps ==
  ASSUME PerfIInv, NEW e \in PfEvents, fabric_event_init_write(e)
  PROVE  PerfIInv'
<1> DEFINE x == [pe[e] EXCEPT !.pc = "off", !.v = NoKind]
           c == [filter |-> pe[e].k.port, evnt |-> pe[e].v.evnt]
<1>1. pe[e] \in EventType /\ pe[e].pc = "mode" /\ pe[e].k.type = "fabric"
  BY DEF PerfIInv, PerfTypeOK, PerfPlaces, fabric_event_init_write
<1>2. /\ pe' = [pe EXCEPT ![e] = x]
      /\ pf' = [pf EXCEPT !.ctrl = [pf.ctrl EXCEPT !["fabric"] = c], !.lock = FALSE]
  BY DEF PerfIInv, PerfTypeOK, fabric_event_init_write
<1>3. NoKind \in [type : {"none"}, evnt : Evnts, port : Modes]
  BY DEF NoKind, Evnts, Modes
<1>4. /\ x \in EventType /\ x.k = pe[e].k /\ x.cpu = pe[e].cpu /\ x.own = pe[e].own /\ x.mixed = pe[e].mixed
      /\ x.pc = "off"
  BY <1>1, <1>3 DEF EventType
<1>5. c \in [filter : Modes, evnt : Evnts] /\ c.filter = pf.port
  <2>1. pe[e].k.port = pf.port /\ pf.port \in Modes
    BY <1>1 DEF PerfIInv, PerfTypeOK, PerfOneMode
  <2>2. pe[e].v.evnt \in Evnts
    BY <1>1 DEF EventType
  <2> QED BY <2>1, <2>2
<1> HIDE DEF x, c
<1>6. /\ pf'.users = pf.users /\ pf'.cpu = pf.cpu /\ pf'.mig = pf.mig
      /\ pf'.lock = FALSE /\ pf'.port = pf.port
      /\ pf'.ctrl = [pf.ctrl EXCEPT !["fabric"] = c]
  BY <1>2 DEF PerfIInv, PerfTypeOK
<1>7. PerfTypeOK'
  BY <1>1, <1>2, <1>4, <1>5 DEF PerfIInv, PerfTypeOK
<1>8. PerfPlaces' /\ PerfOnCpus' /\ PerfUsersExact' /\ PerfReadOwn'
  <2>1. x.own \/ x.mixed
    BY <1>4 DEF PerfIInv, PerfReadOwn
  <2> QED BY <1>1, <1>2, <1>4, <1>6, <1>7, <2>1, EventMoves DEF ReadingPcs
<1>9. pe'[e] = x /\ \A d \in PfEvents : d # e => pe'[d] = pe[d]
  BY <1>2 DEF PerfIInv, PerfTypeOK
<1>10. pf.lock
  BY <1>1 DEF PerfIInv, PerfOneMode
<1>11. \A d \in PfEvents : pe[d].k.type = "fabric" => pe[d].pc = "mode"
  BY <1>10 DEF PerfIInv, PerfOneMode
<1>12. PerfOneMode'
  <2>1. pf'.ctrl["fabric"].filter = pf'.port
    BY <1>5, <1>6 DEF PerfIInv, PerfTypeOK, Selected
  <2>2. \A d \in PfEvents : d # e => pe[d].pc # "mode"
    BY <1>1 DEF PerfIInv, PerfOneMode
  <2> QED BY <1>1, <1>4, <1>6, <1>9, <1>11, <2>1, <2>2 DEF PerfIInv, PerfOneMode
<1>13. PerfUnmixed'
  <2>1. \A t \in Selected : t # "fabric" => pf'.ctrl[t] = pf.ctrl[t]
    BY <1>6 DEF PerfIInv, PerfTypeOK
  <2> QED BY <1>4, <1>6, <1>9, <1>11, <2>1 DEF PerfIInv, PerfUnmixed, Reading
<1> QED BY <1>7, <1>8, <1>12, <1>13 DEF PerfIInv

\* fme_perf_event_destroy: a fabric event is no longer counted.
LEMMA DestroyKeeps ==
  ASSUME PerfIInv, NEW e \in PfEvents, fme_perf_event_destroy(e)
  PROVE  PerfIInv'
<1>1. pe[e].pc = "off" /\ pe' = [pe EXCEPT ![e] = PfOff]
  BY DEF fme_perf_event_destroy
<1>2. /\ PfOff \in EventType /\ PfOff.pc = "none" /\ PfOff.k.type = "none" /\ PfOff.own
  BY DEF PfOff, EventType, NoKind, Evnts, Modes
<1>3. /\ pf' = IF pe[e].k.type = "fabric" THEN [pf EXCEPT !.users = pf.users - 1] ELSE pf
  BY DEF fme_perf_event_destroy, fabric_event_destroy
<1>4. /\ pf'.users = IF pe[e].k.type = "fabric" THEN pf.users - 1 ELSE pf.users
      /\ pf'.port = pf.port /\ pf'.lock = pf.lock
      /\ pf'.cpu = pf.cpu /\ pf'.mig = pf.mig /\ pf'.ctrl = pf.ctrl
  BY <1>3 DEF PerfIInv, PerfTypeOK
<1>5. PerfTypeOK'
  BY <1>1, <1>2, <1>3 DEF PerfIInv, PerfTypeOK
<1>6. pe'[e] = PfOff /\ \A d \in PfEvents : d # e => pe'[d] = pe[d]
  BY <1>1 DEF PerfIInv, PerfTypeOK
<1>7. PerfPlaces' /\ PerfReadOwn'
  BY <1>2, <1>6 DEF PerfIInv, PerfPlaces, PerfReadOwn, Reading
<1>8. PerfOneMode'
  BY <1>2, <1>4, <1>6 DEF PerfIInv, PerfOneMode
<1>9. PerfOnCpus' /\ PerfUnmixed'
  BY <1>2, <1>4, <1>6 DEF PerfIInv, PerfOnCpus, PerfUnmixed, Reading
<1>10. PerfUsersExact'
  <2>1. Fabric' = Fabric \ {e}
    BY <1>2, <1>6 DEF Fabric
  <2>2. CASE e \in Fabric
    <3>1. Cardinality(Fabric \ {e}) = Cardinality(Fabric) - 1
      BY <2>2, FabricFinite, FS_RemoveElement
    <3> QED BY <1>4, <2>1, <2>2, <3>1 DEF PerfIInv, PerfUsersExact, Fabric
  <2>3. CASE e \notin Fabric
    <3>1. Fabric' = Fabric
      BY <2>1, <2>3
    <3> QED BY <1>4, <2>3, <3>1 DEF PerfIInv, PerfUsersExact, Fabric
  <2> QED BY <2>2, <2>3
<1> QED BY <1>5, <1>7, <1>8, <1>9, <1>10 DEF PerfIInv

\* fme_perf_offline_cpu stores the new CPU: the events are still on the old one.
LEMMA OfflineKeeps ==
  ASSUME PerfIInv, fme_perf_offline_cpu
  PROVE  PerfIInv'
<1>1. PICK c \in PfCpus \ {pf.cpu} : pf' = [pf EXCEPT !.cpu = c, !.mig = pf.cpu]
  BY DEF fme_perf_offline_cpu
<1>2. pf.mig = 0 /\ pe' = pe
  BY DEF fme_perf_offline_cpu
<1>3. /\ pf'.users = pf.users /\ pf'.port = pf.port /\ pf'.lock = pf.lock /\ pf'.cpu = c
      /\ pf'.mig = pf.cpu /\ pf'.ctrl = pf.ctrl /\ pf'.mig # 0
  BY <1>1, PerfAssumption DEF PerfIInv, PerfTypeOK
<1>4. PerfTypeOK'
  BY <1>1, <1>2 DEF PerfIInv, PerfTypeOK
<1>5. PerfPlaces' /\ PerfReadOwn' /\ PerfOneMode'
  BY <1>2, <1>3 DEF PerfIInv, PerfPlaces, PerfReadOwn, PerfOneMode, Reading
<1>6. PerfOnCpus' /\ PerfUnmixed'
  BY <1>1, <1>2, <1>3 DEF PerfIInv, PerfOnCpus, PerfUnmixed, Reading
<1>7. PerfUsersExact'
  BY <1>2, <1>3 DEF PerfIInv, PerfUsersExact, Fabric
<1> QED BY <1>4, <1>5, <1>6, <1>7 DEF PerfIInv

\* perf_pmu_migrate_context moves every event that is still on the old CPU.  A read on
\* the new CPU that began before was touched by the migration.
LEMMA MigrateKeeps ==
  ASSUME PerfIInv, PerfMigrates
  PROVE  PerfIInv'
<1>1. /\ pf.mig # 0 /\ CpuFree(pf.mig) /\ pf' = [pf EXCEPT !.mig = 0]
      /\ pe' = [e \in PfEvents |-> IF pe[e].cpu = pf.mig THEN [pe[e] EXCEPT !.cpu = pf.cpu] ELSE pe[e]]
  BY DEF PerfMigrates, perf_pmu_migrate_context
<1>2. /\ pf'.users = pf.users /\ pf'.port = pf.port /\ pf'.lock = pf.lock /\ pf'.cpu = pf.cpu
      /\ pf'.mig = 0 /\ pf'.ctrl = pf.ctrl /\ pf.cpu \in PfCpus
  BY <1>1 DEF PerfIInv, PerfTypeOK
<1>3. \A e \in PfEvents :
        /\ pe'[e] \in EventType /\ pe'[e].pc = pe[e].pc /\ pe'[e].k = pe[e].k /\ pe'[e].v = pe[e].v
        /\ pe'[e].why = pe[e].why /\ pe'[e].own = pe[e].own /\ pe'[e].mixed = pe[e].mixed
        /\ pe'[e].cpu = IF pe[e].cpu = pf.mig THEN pf.cpu ELSE pe[e].cpu
  <2> SUFFICES ASSUME NEW e \in PfEvents
               PROVE  /\ pe'[e] \in EventType /\ pe'[e].pc = pe[e].pc
                      /\ pe'[e].k = pe[e].k /\ pe'[e].v = pe[e].v
                      /\ pe'[e].why = pe[e].why /\ pe'[e].own = pe[e].own /\ pe'[e].mixed = pe[e].mixed
                      /\ pe'[e].cpu = IF pe[e].cpu = pf.mig THEN pf.cpu ELSE pe[e].cpu
    OBVIOUS
  <2>1. pe[e] \in EventType
    BY DEF PerfIInv, PerfTypeOK
  <2>2. pe'[e] = IF pe[e].cpu = pf.mig THEN [pe[e] EXCEPT !.cpu = pf.cpu] ELSE pe[e]
    BY <1>1
  <2> QED BY <1>2, <2>1, <2>2 DEF EventType
<1>4. PerfTypeOK'
  <2>1. pe' \in [PfEvents -> EventType]
    BY <1>1, <1>3
  <2> QED BY <1>1, <2>1 DEF PerfIInv, PerfTypeOK
<1>5. PerfPlaces' /\ PerfReadOwn' /\ PerfOneMode'
  BY <1>2, <1>3 DEF PerfIInv, PerfPlaces, PerfReadOwn, PerfOneMode, Reading
<1>6. \A e \in PfEvents : Reading(e) => pe[e].cpu = pf.cpu /\ pe[e].mixed /\ pe'[e].cpu = pf.cpu
  BY <1>1, <1>3 DEF PerfIInv, PerfOnCpus, PerfUnmixed, Reading, CpuFree
<1>7. PerfOnCpus' /\ PerfUnmixed'
  <2>1. \A e \in PfEvents : Reading(e)' <=> Reading(e)
    BY <1>3 DEF Reading
  <2>2. pf'.mig # pf'.cpu
    BY <1>2, PerfAssumption
  <2>3. \A e \in PfEvents : pe'[e].pc # "none" => pe'[e].cpu = pf.cpu
    BY <1>3 DEF PerfIInv, PerfOnCpus
  <2> QED BY <1>2, <1>3, <1>6, <2>1, <2>2, <2>3 DEF PerfIInv, PerfOnCpus, PerfUnmixed
<1>8. PerfUsersExact'
  <2>1. Fabric' = Fabric
    BY <1>3 DEF Fabric
  <2> QED BY <1>2, <2>1 DEF PerfIInv, PerfUsersExact
<1> QED BY <1>4, <1>5, <1>7, <1>8 DEF PerfIInv

\* The hardware counts on.
LEMMA CountKeeps ==
  ASSUME PerfIInv, CounterRuns
  PROVE  PerfIInv'
<1>1. pf' = [pf EXCEPT !.cnt = pf.cnt + 1] /\ pe' = pe
  BY DEF CounterRuns
<1>2. /\ pf'.users = pf.users /\ pf'.port = pf.port /\ pf'.lock = pf.lock /\ pf'.cpu = pf.cpu
      /\ pf'.mig = pf.mig /\ pf'.ctrl = pf.ctrl
  BY <1>1 DEF PerfIInv, PerfTypeOK
<1>3. PerfTypeOK'
  BY <1>1 DEF PerfIInv, PerfTypeOK
<1>4. PerfPlaces' /\ PerfReadOwn' /\ PerfOneMode'
  BY <1>1, <1>2 DEF PerfIInv, PerfPlaces, PerfReadOwn, PerfOneMode, Reading
<1>5. PerfOnCpus' /\ PerfUnmixed' /\ PerfUsersExact'
  BY <1>1, <1>2 DEF PerfIInv, PerfOnCpus, PerfUnmixed, Reading, PerfUsersExact, Fabric
<1> QED BY <1>3, <1>4, <1>5 DEF PerfIInv

\* Every step keeps the invariant.
LEMMA PerfNextIInv == PerfIInv /\ [PerfNext]_perf_vars => PerfIInv'
<1> SUFFICES ASSUME PerfIInv, [PerfNext]_perf_vars PROVE PerfIInv'
  OBVIOUS
<1>1. CASE UNCHANGED perf_vars
  <2>1. pf' = pf /\ pe' = pe
    BY <1>1 DEF perf_vars
  <2> QED BY <2>1 DEF PerfIInv, PerfTypeOK, PerfPlaces, PerfOneMode, PerfOnCpus, PerfUnmixed,
                      PerfUsersExact, PerfReadOwn, Fabric, Reading
<1>2. ASSUME NEW e \in PfEvents,
             \/ fme_perf_event_init(e) \/ fabric_event_init(e) \/ fabric_event_init_write(e)
             \/ fme_perf_event_destroy(e)
      PROVE  PerfIInv'
  BY <1>2, InitKeeps, FabricInitKeeps, FabricWriteKeeps, DestroyKeeps
<1>3. ASSUME NEW e \in PfEvents,
             fme_perf_event_start(e) \/ fme_perf_event_stop(e) \/ fme_perf_event_read(e)
      PROVE  PerfIInv'
  BY <1>3, BeginKeeps DEF fme_perf_event_start, fme_perf_event_stop, fme_perf_event_read
<1>4. ASSUME NEW e \in PfEvents,
             \/ read_counter_select(e) \/ read_counter_poll(e) \/ fme_read_perf_cntr_reg(e)
             \/ read_counter_timeout(e)
      PROVE  PerfIInv'
  BY <1>4, SelectKeeps, PollKeeps, CntrKeeps, TimeoutKeeps
<1>5. CASE CounterRuns \/ fme_perf_offline_cpu \/ PerfMigrates
  BY <1>5, CountKeeps, OfflineKeeps, MigrateKeeps
<1> QED BY <1>1, <1>2, <1>3, <1>4, <1>5 DEF PerfNext

\* The events' invariant holds in every state.
THEOREM PerfInvariance == PerfSpec => []PerfIInv
<1> QED BY PerfInitIInv, PerfNextIInv, PTL DEF PerfSpec

\* For any number of events, CPUs and kinds, and however far the counters run: the users
\* of the fabric counters are counted exactly, a counter that is read outside of a
\* migration is the event's own, and the open events are on one CPU.
THEOREM PerfIsIsolated == PerfSpec => []PerfEventsIsolated
<1>1. PerfIInv => PerfEventsIsolated
  BY DEF PerfIInv, PerfEventsIsolated, PerfOnCpus, PerfOneCpu
<1> QED BY <1>1, PerfInvariance, PTL

-----------------------------------------------------------------------------
(* The staging area and the FIFO of the flash.                             *)

Whole(a) == a % StWord = 0

\* Whole words are a number of words.
LEMMA WholeIs ==
  ASSUME NEW a \in Nat
  PROVE  Whole(a) <=> \E q \in Nat : a = q * StWord
<1>0. StWord \in Nat /\ StWord # 0
  BY StagingAssumption
<1>1. a = StWord * (a \div StWord) + (a % StWord) /\ a \div StWord \in Nat
  BY <1>0
<1>2. ASSUME Whole(a) PROVE \E q \in Nat : a = q * StWord
  <2>1. PICK q \in Nat : q = a \div StWord
    BY <1>1
  <2>2. a = StWord * q + 0
    BY <1>1, <1>2, <2>1 DEF Whole
  <2>3. a = q * StWord
    BY <1>0, <2>2
  <2> QED BY <2>3
<1>3. ASSUME NEW q \in Nat, a = q * StWord PROVE Whole(a)
  BY <1>0, <1>3 DEF Whole
<1> QED BY <1>2, <1>3

\* Sums and differences of whole words are whole words.
LEMMA WholeSum ==
  ASSUME NEW a \in Nat, NEW b \in Nat, Whole(a), Whole(b)
  PROVE  Whole(a + b) /\ (b <= a => Whole(a - b))
<1>0. StWord \in Nat /\ StWord # 0
  BY StagingAssumption
<1>1. PICK q \in Nat, r \in Nat : a = q * StWord /\ b = r * StWord
  BY WholeIs
<1>2. a + b = (q + r) * StWord
  BY <1>0, <1>1
<1>3. ASSUME b <= a PROVE Whole(a - b)
  <2>1. r <= q
    BY <1>0, <1>1, <1>3
  <2>2. a - b = (q - r) * StWord /\ q - r \in Nat /\ a - b \in Nat
    BY <1>0, <1>1, <1>3, <2>1
  <2> QED BY <2>2, WholeIs
<1> QED BY <1>2, <1>3, WholeIs

\* Whole words, counted and counted back.
LEMMA WholeCount ==
  ASSUME NEW a \in Nat, Whole(a)
  PROVE  (a \div StWord) * StWord = a /\ ((a + StWord - 1) \div StWord) * StWord = a /\ (a < StWord => a = 0)
<1>0. PICK w \in Nat : w = StWord /\ w # 0
  BY StagingAssumption
<1>1. PICK q \in Nat : a = q * w
  BY <1>0, WholeIs
<1>2. (q * w) \div w = q
  BY <1>0
<1>3. (q * w + w - 1) \div w = q
  BY <1>0
<1>4. q * w < w => q = 0
  BY <1>0
<1> QED BY <1>0, <1>1, <1>2, <1>3, <1>4

\* The smaller of two sizes.
LEMMA LeastIs ==
  ASSUME NEW a \in Nat, NEW b \in Nat
  PROVE  Least(a, b) \in Nat /\ Least(a, b) <= a /\ Least(a, b) <= b /\ (Whole(a) /\ Whole(b) => Whole(Least(a, b)))
  BY DEF Least

\* No more words than there is room for.
LEMMA FitsFifo ==
  ASSUME NEW a \in Nat, a <= StFifo * StWord
  PROVE  a \div StWord <= StFifo /\ a \div StWord \in Nat
<1>0. PICK w \in Nat, f \in Nat : w = StWord /\ w # 0 /\ f = StFifo
  BY StagingAssumption
<1>1. a \div w <= f /\ a \div w \in Nat
  BY <1>0
<1> QED BY <1>0, <1>1

-----------------------------------------------------------------------------
\* The bytes behind the first a.
Behind(a, k) == [j \in 1..k |-> a + j]

\* The bytes of an image, and those behind its first.
LEMMA BytesAre ==
  ASSUME NEW a \in Nat, NEW k \in Nat
  PROVE  /\ Bytes(k) \in Seq(Nat) /\ Len(Bytes(k)) = k /\ \A i \in 1..k : Bytes(k)[i] = i
         /\ Behind(a, k) \in Seq(Nat) /\ Len(Behind(a, k)) = k /\ \A i \in 1..k : Behind(a, k)[i] = a + i
  BY DEF Bytes, Behind

\* The first a bytes and the k behind them are the first a + k.
LEMMA BytesGrow ==
  ASSUME NEW a \in Nat, NEW k \in Nat
  PROVE  Bytes(a) \o Behind(a, k) = Bytes(a + k)
<1>1. Bytes(a) \in Seq(Nat) /\ Behind(a, k) \in Seq(Nat) /\ Len(Bytes(a)) = a /\ Len(Behind(a, k)) = k
      /\ (\A i \in 1..a : Bytes(a)[i] = i) /\ \A i \in 1..k : Behind(a, k)[i] = a + i
  BY BytesAre
<1>2. Bytes(a + k) \in Seq(Nat) /\ Len(Bytes(a + k)) = a + k /\ \A i \in 1..(a + k) : Bytes(a + k)[i] = i
  BY BytesAre
<1> DEFINE s == Bytes(a) \o Behind(a, k)
<1>3. /\ s \in Seq(Nat) /\ Len(s) = a + k
      /\ \A i \in 1..(a + k) : s[i] = IF i <= a THEN Bytes(a)[i] ELSE Behind(a, k)[i - a]
  <2>1. PICK p \in Seq(Nat), q \in Seq(Nat) : p = Bytes(a) /\ q = Behind(a, k) /\ Len(p) = a /\ Len(q) = k
    BY <1>1
  <2>2. p \o q \in Seq(Nat) /\ Len(p \o q) = a + k /\ \A i \in 1..(a + k) : (p \o q)[i] = IF i <= a THEN p[i] ELSE q[i - a]
    BY <2>1
  <2> QED BY <2>1, <2>2
<1>4. \A i \in 1..(a + k) : s[i] = i
  BY <1>1, <1>3
<1> HIDE DEF s
<1>5. s = Bytes(a + k)
  BY <1>2, <1>3, <1>4, SeqEqual
<1> QED BY <1>5 DEF s

\* A slice of an image is what is behind its offset.
LEMMA SliceIs ==
  ASSUME NEW n \in Nat, NEW a \in Nat, NEW k \in Nat, a + k <= n
  PROVE  Slice(Bytes(n), a, k) = Behind(a, k)
<1>1. Bytes(n) \in Seq(Nat) /\ Len(Bytes(n)) = n /\ \A i \in 1..n : Bytes(n)[i] = i
  BY BytesAre
<1>2. Behind(a, k) \in Seq(Nat) /\ Len(Behind(a, k)) = k /\ \A i \in 1..k : Behind(a, k)[i] = a + i
  BY BytesAre
<1> DEFINE s == SubSeq(Bytes(n), a + 1, a + k)
<1>3. s \in Seq(Nat) /\ Len(s) = k /\ \A i \in 1..k : s[i] = Bytes(n)[a + i]
  BY <1>1
<1>4. \A i \in 1..k : s[i] = a + i
  BY <1>1, <1>3
<1> HIDE DEF s
<1>5. s = Behind(a, k)
  BY <1>2, <1>3, <1>4, SeqEqual
<1> QED BY <1>5 DEF s, Slice

\* A block that is read to its end leaves nothing.
LEMMA SliceOfAll ==
  ASSUME NEW a \in Nat, NEW k \in Nat
  PROVE  Slice(Behind(a, k), 0, k) = Behind(a, k) /\ SubSeq(Behind(a, k), k + 1, k) = <<>>
<1>1. Behind(a, k) \in Seq(Nat) /\ Len(Behind(a, k)) = k /\ \A i \in 1..k : Behind(a, k)[i] = a + i
  BY BytesAre
<1> HIDE DEF Behind
<1>2. SubSeq(Behind(a, k), 1, k) = Behind(a, k)
  BY <1>1
<1>3. SubSeq(Behind(a, k), k + 1, k) = <<>>
  BY <1>1
<1> QED BY <1>2, <1>3 DEF Slice

-----------------------------------------------------------------------------
StTyped ==
  /\ DOMAIN sf = {"kind", "n", "pc", "offset", "size", "at", "fifo", "flash", "rdMode", "words", "res"}
  /\ sf.kind \in {"n3000", "n6000", "read"}
  /\ sf.n \in Nat /\ sf.offset \in Nat /\ sf.size \in Nat /\ sf.at \in Nat
  /\ sf.pc \in IF sf.kind = "read" THEN {"read", "poll", "readrest", "end"} ELSE {"next", "regs", "bulk", "rest", "end"}
  /\ sf.res = "ok" => sf.pc = "end"

\* Words are put into an empty FIFO only.
StRoom == sf.fifo \in Nat /\ sf.fifo <= StFifo /\ (sf.pc = "rest" => sf.fifo = 0)

\* The transfer stays inside of the image.
StInside ==
  /\ sf.pc = "next" => sf.offset <= sf.n
  /\ sf.pc = "regs" => sf.offset + sf.size <= sf.n
  /\ sf.pc \in {"bulk", "rest"} => sf.offset + sf.at + sf.size <= sf.n

\* What was written so far are the first bytes of the image, by whole words.
StWritten ==
  sf.kind # "read" /\ Whole(sf.n) =>
    /\ sf.pc \in {"next", "regs"} => sf.flash = Bytes(sf.offset) /\ Whole(sf.offset)
    /\ sf.pc = "regs" => Whole(sf.size)
    /\ sf.pc = "bulk" => sf.flash = Bytes(sf.offset + sf.at) /\ Whole(sf.offset) /\ Whole(sf.at) /\ Whole(sf.size)
    /\ sf.pc # "rest"
    /\ sf.res = "ok" => sf.flash = Bytes(sf.n)

\* What was read so far are the first bytes of the flash.
StReadSoFar ==
  sf.kind = "read" /\ Whole(sf.n) =>
    /\ sf.pc \in {"read", "poll"} => sf.flash = Bytes(sf.at) /\ sf.at + sf.size = sf.n /\ Whole(sf.size)
    /\ sf.pc = "read" => ~sf.rdMode
    /\ sf.pc = "poll" => sf.words = Behind(sf.at, Least(sf.size, StReadBlock))
    /\ sf.pc # "readrest"
    /\ sf.res = "ok" => sf.flash = Bytes(sf.n) /\ ~sf.rdMode

StIInv == StTyped /\ StRoom /\ StInside /\ StWritten /\ StReadSoFar

\* m10bmc_sec_fw_write starts a block that fits into the image, or is done.
LEMMA StNextBlock == ASSUME StIInv, m10bmc_sec_fw_write PROVE StIInv'
<1>0. StTyped /\ StRoom /\ StInside /\ StWritten /\ StReadSoFar /\ sf.pc = "next" /\ sf.kind \in {"n3000", "n6000"}
  BY DEF StIInv, m10bmc_sec_fw_write, StTyped
<1>1. CASE sf.offset = sf.n
  <2>1. sf' = [sf EXCEPT !.pc = "end", !.res = "ok"]
    BY <1>1 DEF m10bmc_sec_fw_write
  <2> QED BY <1>0, <1>1, <2>1 DEF StIInv, StTyped, StRoom, StInside, StWritten, StReadSoFar
<1>2. CASE sf.offset # sf.n
  <2>1. PICK k : k = Least(StBlock, sf.n - sf.offset)
    OBVIOUS
  <2>2. sf.n - sf.offset \in Nat /\ sf.n \in Nat /\ sf.offset \in Nat
    BY <1>0 DEF StTyped, StInside
  <2>3. k \in Nat /\ k <= sf.n - sf.offset /\ (Whole(sf.n - sf.offset) => Whole(k))
    BY <2>1, <2>2, LeastIs, StagingAssumption DEF Whole
  <2>4. PICK p \in {"regs", "bulk"} : p = IF sf.kind = "n3000" THEN "regs" ELSE "bulk"
    OBVIOUS
  <2>5. sf' = [sf EXCEPT !.pc = p, !.size = k, !.at = 0]
    BY <1>2, <2>1, <2>4 DEF m10bmc_sec_fw_write
  <2>6. /\ DOMAIN sf' = DOMAIN sf /\ sf'.kind = sf.kind /\ sf'.n = sf.n /\ sf'.offset = sf.offset /\ sf'.fifo = sf.fifo
        /\ sf'.flash = sf.flash /\ sf'.res = sf.res /\ sf'.pc = p /\ sf'.size = k /\ sf'.at = 0
    BY <1>0, <2>5 DEF StTyped
  <2>7. StTyped' /\ StRoom'
    BY <1>0, <2>3, <2>6 DEF StTyped, StRoom
  <2>8. StInside'
    BY <2>2, <2>3, <2>6 DEF StInside
  <2>9. StWritten'
    <3> SUFFICES ASSUME Whole(sf.n) PROVE StWritten'
      BY <2>6 DEF StWritten, Whole
    <3>1. sf.flash = Bytes(sf.offset) /\ Whole(sf.offset) /\ Whole(0) /\ sf.offset + 0 = sf.offset
      BY <1>0, <2>2, WholeIs, StagingAssumption DEF StWritten
    <3>2. sf.offset <= sf.n
      BY <1>0 DEF StInside
    <3>3. Whole(k)
      BY <2>2, <2>3, <3>1, <3>2, WholeSum
    <3> QED BY <1>0, <2>6, <3>1, <3>3 DEF StWritten, Whole, StTyped
  <2>10. StReadSoFar'
    BY <1>0, <2>6 DEF StReadSoFar
  <2> QED BY <2>7, <2>8, <2>9, <2>10 DEF StIInv
<1> QED BY <1>1, <1>2

\* A block of whole words goes through the registers without a rest.
LEMMA StWritesRegs == ASSUME StIInv, m10bmc_sec_write \/ regmap_fails PROVE StIInv'
<1>0. StTyped /\ StRoom /\ StInside /\ StWritten /\ StReadSoFar /\ sf.pc = "regs" /\ sf.kind \in {"n3000", "n6000"}
  BY DEF StIInv, m10bmc_sec_write, regmap_fails, StTyped
<1>1. CASE m10bmc_sec_write
  <2>1. PICK fl : fl = sf.flash \o BlockWords(Bytes(sf.n), sf.offset, sf.size) \o Leftover(Bytes(sf.n), sf.size)
    OBVIOUS
  <2>2. sf' = [sf EXCEPT !.flash = fl, !.offset = sf.offset + sf.size, !.pc = "next"]
    BY <1>1, <2>1 DEF m10bmc_sec_write
  <2>3. /\ DOMAIN sf' = DOMAIN sf /\ sf'.kind = sf.kind /\ sf'.n = sf.n /\ sf'.offset = sf.offset + sf.size /\ sf'.fifo = sf.fifo
        /\ sf'.flash = fl /\ sf'.res = sf.res /\ sf'.pc = "next" /\ sf'.size = sf.size /\ sf'.at = sf.at
    BY <1>0, <2>2 DEF StTyped
  <2>4. StTyped' /\ StRoom' /\ StInside' /\ StReadSoFar'
    BY <1>0, <2>3 DEF StTyped, StRoom, StInside, StReadSoFar
  <2>5. StWritten'
    <3> SUFFICES ASSUME Whole(sf.n) PROVE StWritten'
      BY <2>3 DEF StWritten, Whole
    <3>1. /\ sf.flash = Bytes(sf.offset) /\ Whole(sf.offset) /\ Whole(sf.size) /\ sf.offset + sf.size <= sf.n
          /\ sf.n \in Nat /\ sf.offset \in Nat /\ sf.size \in Nat
      BY <1>0 DEF StWritten, StInside, StTyped
    <3>2. sf.size % StWord = 0 /\ sf.size - 0 = sf.size
      BY <3>1 DEF Whole
    <3>3. BlockWords(Bytes(sf.n), sf.offset, sf.size) = Behind(sf.offset, sf.size)
      BY <3>1, <3>2, SliceIs DEF BlockWords
    <3>4. Leftover(Bytes(sf.n), sf.size) = <<>>
      BY <3>2 DEF Leftover
    <3>5. fl = Bytes(sf.offset + sf.size) \o <<>>
      BY <2>1, <3>1, <3>3, <3>4, BytesGrow
    <3>6. Bytes(sf.offset + sf.size) \in Seq(Nat)
      <4>1. PICK k \in Nat : k = sf.offset + sf.size
        BY <3>1
      <4>2. Bytes(k) \in Seq(Nat)
        BY BytesAre
      <4> QED BY <4>1, <4>2
    <3>7. fl = Bytes(sf.offset + sf.size)
      BY <3>5, <3>6, ConcatEmptySeq
    <3>8. Whole(sf.offset + sf.size)
      BY <3>1, WholeSum
    <3> QED BY <1>0, <2>3, <3>7, <3>8 DEF StWritten, Whole, StTyped
  <2> QED BY <2>4, <2>5 DEF StIInv
<1>2. CASE regmap_fails
  <2>1. \E fl : sf' = [sf EXCEPT !.pc = "end", !.res = "error", !.flash = fl]
    BY <1>2 DEF regmap_fails
  <2> QED BY <1>0, <2>1 DEF StIInv, StTyped, StRoom, StInside, StWritten, StReadSoFar
<1> QED BY <1>1, <1>2

\* A turn of the bulk write puts no more words into the FIFO than there is room for.
LEMMA StWritesFifo == ASSUME StIInv, pmci_flash_bulk_write PROVE StIInv'
<1>0. /\ StTyped /\ StRoom /\ StInside /\ StWritten /\ StReadSoFar /\ sf.pc = "bulk" /\ sf.kind \in {"n3000", "n6000"}
      /\ sf.size > 0
  BY DEF StIInv, pmci_flash_bulk_write, StTyped
<1>1. PICK space \in pmci_get_write_space(sf.fifo) :
        LET blk == Least(space, sf.size)
            count == blk \div StWord
        IN  sf' = IF blk = 0 THEN [sf EXCEPT !.pc = "end", !.res = "error"]
                  ELSE IF sf.size < StWord THEN [sf EXCEPT !.pc = "rest"]
                  ELSE [sf EXCEPT !.flash = @ \o Slice(Bytes(sf.n), sf.offset + sf.at, count * StWord),
                                  !.fifo = @ + count, !.size = @ - blk, !.at = @ + blk]
  BY DEF pmci_flash_bulk_write
<1>2. PICK blk, count : blk = Least(space, sf.size) /\ count = blk \div StWord
  OBVIOUS
<1>3. sf.n \in Nat /\ sf.offset \in Nat /\ sf.size \in Nat /\ sf.at \in Nat /\ sf.fifo \in Nat
  BY <1>0 DEF StTyped, StRoom
<1>4. PICK w \in Nat, f \in Nat : w = StWord /\ f = StFifo /\ w # 0 /\ f # 0
  BY StagingAssumption
<1>5. space = IF sf.fifo = 0 THEN f * w ELSE 0
  BY <1>1, <1>4 DEF pmci_get_write_space
<1>6. space \in Nat /\ f * w \in Nat
  BY <1>4, <1>5
<1>7. blk \in Nat /\ blk <= space /\ blk <= sf.size /\ (Whole(space) /\ Whole(sf.size) => Whole(blk))
  BY <1>2, <1>3, <1>6, LeastIs
<1>8. CASE blk = 0
  <2>1. sf' = [sf EXCEPT !.pc = "end", !.res = "error"]
    BY <1>1, <1>2, <1>8
  <2> QED BY <1>0, <2>1 DEF StIInv, StTyped, StRoom, StInside, StWritten, StReadSoFar
<1>9. CASE blk # 0
  <2>1. sf.fifo = 0 /\ space = f * w
    BY <1>5, <1>6, <1>7, <1>9
  <2>2. count \in Nat /\ count <= StFifo
    BY <1>2, <1>4, <1>7, <2>1, FitsFifo
  <2>3. CASE sf.size < StWord
    <3>1. sf' = [sf EXCEPT !.pc = "rest"]
      BY <1>1, <1>2, <1>9, <2>3
    <3>2. ~Whole(sf.n)
      <4> SUFFICES ASSUME Whole(sf.n) PROVE FALSE
        OBVIOUS
      <4>1. Whole(sf.size)
        BY <1>0 DEF StWritten
      <4>2. sf.size = 0
        BY <1>3, <2>3, <4>1, WholeCount
      <4> QED BY <1>0, <4>2
    <3>3. /\ DOMAIN sf' = DOMAIN sf /\ sf'.kind = sf.kind /\ sf'.n = sf.n /\ sf'.offset = sf.offset /\ sf'.fifo = sf.fifo
          /\ sf'.flash = sf.flash /\ sf'.res = sf.res /\ sf'.pc = "rest" /\ sf'.size = sf.size /\ sf'.at = sf.at
      BY <1>0, <3>1 DEF StTyped
    <3>4. StTyped' /\ StRoom' /\ StInside' /\ StReadSoFar'
      BY <1>0, <2>1, <3>3 DEF StTyped, StRoom, StInside, StReadSoFar
    <3>5. StWritten'
      BY <3>2, <3>3 DEF StWritten, Whole
    <3> QED BY <3>4, <3>5 DEF StIInv
  <2>4. CASE ~(sf.size < StWord)
    <3>1. PICK fl : fl = sf.flash \o Slice(Bytes(sf.n), sf.offset + sf.at, count * StWord)
      OBVIOUS
    <3>2. sf' = [sf EXCEPT !.flash = fl, !.fifo = sf.fifo + count, !.size = sf.size - blk, !.at = sf.at + blk]
      BY <1>1, <1>2, <1>9, <2>4, <3>1
    <3>3. /\ DOMAIN sf' = DOMAIN sf /\ sf'.kind = sf.kind /\ sf'.n = sf.n /\ sf'.offset = sf.offset /\ sf'.fifo = sf.fifo + count
          /\ sf'.flash = fl /\ sf'.res = sf.res /\ sf'.pc = "bulk" /\ sf'.size = sf.size - blk /\ sf'.at = sf.at + blk
      BY <1>0, <3>2 DEF StTyped
    <3>4. sf.size - blk \in Nat /\ sf.at + blk \in Nat /\ sf.fifo + count = count
          /\ sf.offset + (sf.at + blk) + (sf.size - blk) = sf.offset + sf.at + sf.size
      BY <1>3, <1>7, <2>1, <2>2
    <3>5. StTyped' /\ StReadSoFar'
      BY <1>0, <3>3, <3>4 DEF StTyped, StReadSoFar
    <3>6. StRoom' /\ StInside'
      BY <1>0, <2>2, <3>3, <3>4 DEF StRoom, StInside
    <3>7. StWritten'
      <4> SUFFICES ASSUME Whole(sf.n) PROVE StWritten'
        BY <3>3 DEF StWritten, Whole
      <4>1. /\ sf.flash = Bytes(sf.offset + sf.at) /\ Whole(sf.offset) /\ Whole(sf.at) /\ Whole(sf.size)
            /\ sf.offset + sf.at + sf.size <= sf.n
        BY <1>0 DEF StWritten, StInside
      <4>2. Whole(space)
        BY <1>4, <1>6, <2>1, WholeIs
      <4>3. Whole(blk) /\ count * StWord = blk
        BY <1>2, <1>7, <4>1, <4>2, WholeCount
      <4>4. sf.offset + sf.at \in Nat /\ sf.offset + sf.at + blk <= sf.n
        BY <1>3, <1>7, <4>1
      <4>5. Slice(Bytes(sf.n), sf.offset + sf.at, blk) = Behind(sf.offset + sf.at, blk)
        BY <1>3, <1>7, <4>4, SliceIs
      <4>6. fl = Bytes(sf.offset + sf.at + blk)
        BY <1>7, <3>1, <4>1, <4>3, <4>4, <4>5, BytesGrow
      <4>7. sf.offset + sf.at + blk = sf.offset + (sf.at + blk)
        BY <1>3, <1>7
      <4>8. Whole(sf.at + blk) /\ Whole(sf.size - blk)
        BY <1>3, <1>7, <4>1, <4>3, WholeSum
      <4> QED BY <1>0, <3>3, <4>1, <4>6, <4>7, <4>8 DEF StWritten, Whole, StTyped
    <3> QED BY <3>5, <3>6, <3>7 DEF StIInv
  <2> QED BY <2>3, <2>4
<1> QED BY <1>8, <1>9

\* A rest is written for an image that is not of whole words only.
LEMMA StWritesRest == ASSUME StIInv, pmci_write_remainder PROVE StIInv'
<1>0. /\ StTyped /\ StRoom /\ StInside /\ StWritten /\ StReadSoFar /\ sf.pc = "rest" /\ sf.kind \in {"n3000", "n6000"}
      /\ sf.fifo = 0
  BY DEF StIInv, pmci_write_remainder, StTyped, StRoom
<1>1. ~Whole(sf.n)
  BY <1>0 DEF StWritten
<1>2. PICK fl : fl = sf.flash \o Word0(Slice(Bytes(sf.n), sf.offset + sf.at, sf.size))
  OBVIOUS
<1>3. sf' = [sf EXCEPT !.flash = fl, !.fifo = sf.fifo + 1, !.at = sf.at + sf.size, !.size = 0, !.pc = "bulk"]
  BY <1>2 DEF pmci_write_remainder
<1>4. /\ DOMAIN sf' = DOMAIN sf /\ sf'.kind = sf.kind /\ sf'.n = sf.n /\ sf'.offset = sf.offset /\ sf'.fifo = 1
      /\ sf'.res = sf.res /\ sf'.pc = "bulk" /\ sf'.size = 0 /\ sf'.at = sf.at + sf.size
  BY <1>0, <1>3 DEF StTyped
<1>5. StTyped' /\ StReadSoFar'
  BY <1>0, <1>4 DEF StTyped, StReadSoFar
<1>6. StRoom'
  BY <1>4, StagingAssumption DEF StRoom
<1>7. StInside'
  BY <1>0, <1>4 DEF StInside, StTyped
<1>8. StWritten'
  BY <1>1, <1>4 DEF StWritten, Whole
<1> QED BY <1>5, <1>6, <1>7, <1>8 DEF StIInv

\* The next block starts where the last one ended.
LEMMA StWriteReturns == ASSUME StIInv, pmci_write_returns PROVE StIInv'
<1>0. /\ StTyped /\ StRoom /\ StInside /\ StWritten /\ StReadSoFar /\ sf.pc = "bulk" /\ sf.size = 0
      /\ sf.kind \in {"n3000", "n6000"}
  BY DEF StIInv, pmci_write_returns, StTyped
<1>1. sf' = [sf EXCEPT !.offset = sf.offset + sf.at, !.pc = "next"]
  BY DEF pmci_write_returns
<1>2. /\ DOMAIN sf' = DOMAIN sf /\ sf'.kind = sf.kind /\ sf'.n = sf.n /\ sf'.offset = sf.offset + sf.at /\ sf'.fifo = sf.fifo
      /\ sf'.flash = sf.flash /\ sf'.res = sf.res /\ sf'.pc = "next" /\ sf'.size = sf.size /\ sf'.at = sf.at
  BY <1>0, <1>1 DEF StTyped
<1>3. StTyped' /\ StRoom' /\ StReadSoFar'
  BY <1>0, <1>2 DEF StTyped, StRoom, StReadSoFar
<1>4. StInside'
  BY <1>0, <1>2 DEF StInside, StTyped
<1>5. StWritten'
  <2> SUFFICES ASSUME Whole(sf.n) PROVE StWritten'
    BY <1>2 DEF StWritten, Whole
  <2>1. sf.flash = Bytes(sf.offset + sf.at) /\ Whole(sf.offset) /\ Whole(sf.at) /\ sf.offset \in Nat /\ sf.at \in Nat
    BY <1>0 DEF StWritten, StTyped
  <2>2. Whole(sf.offset + sf.at)
    BY <2>1, WholeSum
  <2> QED BY <1>0, <1>2, <2>1, <2>2 DEF StWritten, Whole, StTyped
<1> QED BY <1>3, <1>4, <1>5 DEF StIInv

\* The BMC takes words out of the FIFO.
LEMMA StDrains == ASSUME StIInv, FifoDrains PROVE StIInv'
<1>0. StTyped /\ StRoom /\ StInside /\ StWritten /\ StReadSoFar /\ sf.fifo > 0
  BY DEF StIInv, FifoDrains
<1>1. sf' = [sf EXCEPT !.fifo = sf.fifo - 1]
  BY DEF FifoDrains
<1>2. /\ DOMAIN sf' = DOMAIN sf /\ sf'.kind = sf.kind /\ sf'.n = sf.n /\ sf'.offset = sf.offset /\ sf'.fifo = sf.fifo - 1
      /\ sf'.flash = sf.flash /\ sf'.res = sf.res /\ sf'.pc = sf.pc /\ sf'.size = sf.size /\ sf'.at = sf.at
      /\ sf'.rdMode = sf.rdMode /\ sf'.words = sf.words
  BY <1>0, <1>1 DEF StTyped
<1>3. StTyped' /\ StInside'
  BY <1>0, <1>2 DEF StTyped, StInside
<1>4. StRoom'
  BY <1>0, <1>2, StagingAssumption DEF StRoom
<1>5. StWritten' /\ StReadSoFar'
  BY <1>0, <1>2 DEF StWritten, StReadSoFar, Whole, Bytes, Behind, Least
<1> QED BY <1>3, <1>4, <1>5 DEF StIInv

\* The words asked for are those behind what was read.
LEMMA StAsksForBlock == ASSUME StIInv, pmci_flash_bulk_read PROVE StIInv'
<1>0. /\ StTyped /\ StRoom /\ StInside /\ StWritten /\ StReadSoFar /\ sf.pc = "read" /\ sf.kind = "read" /\ sf.res # "ok"
      /\ sf.n \in Nat /\ sf.at \in Nat /\ sf.size \in Nat
  BY DEF StIInv, pmci_flash_bulk_read, StTyped
<1>1. CASE sf.size = 0
  <2>1. sf' = [sf EXCEPT !.pc = "end", !.res = "ok"]
    BY <1>1 DEF pmci_flash_bulk_read
  <2>2. /\ DOMAIN sf' = DOMAIN sf /\ sf'.kind = sf.kind /\ sf'.n = sf.n /\ sf'.offset = sf.offset /\ sf'.fifo = sf.fifo
        /\ sf'.flash = sf.flash /\ sf'.res = "ok" /\ sf'.pc = "end" /\ sf'.size = sf.size /\ sf'.at = sf.at
        /\ sf'.rdMode = sf.rdMode /\ sf'.words = sf.words
    BY <1>0, <2>1 DEF StTyped
  <2>3. StTyped' /\ StRoom' /\ StInside' /\ StWritten'
    BY <1>0, <2>2 DEF StTyped, StRoom, StInside, StWritten
  <2>4. StReadSoFar'
    <3> SUFFICES ASSUME Whole(sf.n) PROVE StReadSoFar'
      BY <2>2 DEF StReadSoFar, Whole
    <3>1. sf.flash = Bytes(sf.at) /\ sf.at + sf.size = sf.n /\ ~sf.rdMode
      BY <1>0 DEF StReadSoFar
    <3>2. sf.at = sf.n
      BY <1>0, <1>1, <3>1
    <3> QED BY <2>2, <3>1, <3>2 DEF StReadSoFar, Whole
  <2> QED BY <2>3, <2>4 DEF StIInv
<1>2. CASE sf.size # 0
  <2>1. PICK blk, count : blk = Least(sf.size, StReadBlock) /\ count = (blk + StWord - 1) \div StWord
    OBVIOUS
  <2>2. PICK ws : ws = [k \in 1..(count * StWord) |-> FlashAddr(0, sf.at) + k]
    OBVIOUS
  <2>3. sf' = [sf EXCEPT !.pc = "poll", !.rdMode = TRUE, !.words = ws]
    BY <1>2, <2>1, <2>2 DEF pmci_flash_bulk_read
  <2>4. /\ DOMAIN sf' = DOMAIN sf /\ sf'.kind = sf.kind /\ sf'.n = sf.n /\ sf'.offset = sf.offset /\ sf'.fifo = sf.fifo
        /\ sf'.flash = sf.flash /\ sf'.res = sf.res /\ sf'.pc = "poll" /\ sf'.size = sf.size /\ sf'.at = sf.at
        /\ sf'.words = ws
    BY <1>0, <2>3 DEF StTyped
  <2>5. StTyped' /\ StRoom' /\ StInside' /\ StWritten'
    BY <1>0, <2>4 DEF StTyped, StRoom, StInside, StWritten
  <2>6. StReadSoFar'
    <3> SUFFICES ASSUME Whole(sf.n) PROVE StReadSoFar'
      BY <2>4 DEF StReadSoFar, Whole
    <3>1. sf.flash = Bytes(sf.at) /\ sf.at + sf.size = sf.n /\ Whole(sf.size)
      BY <1>0 DEF StReadSoFar
    <3>2. StReadBlock \in Nat /\ Whole(StReadBlock)
      BY StagingAssumption DEF Whole
    <3>3. blk \in Nat /\ Whole(blk)
      BY <1>0, <2>1, <3>1, <3>2, LeastIs
    <3>4. count * StWord = blk
      BY <2>1, <3>3, WholeCount
    <3>5. FlashAddr(0, sf.at) = sf.at
      BY <1>0 DEF FlashAddr
    <3>6. ws = Behind(sf.at, blk)
      BY <2>2, <3>4, <3>5 DEF Behind
    <3> QED BY <1>0, <2>1, <2>4, <3>1, <3>6 DEF StReadSoFar, Whole
  <2> QED BY <2>5, <2>6 DEF StIInv
<1> QED BY <1>1, <1>2

\* The words of a block are read to the last.
LEMMA StReadsBlock == ASSUME StIInv, pmci_read_fifo PROVE StIInv'
<1>0. /\ StTyped /\ StRoom /\ StInside /\ StWritten /\ StReadSoFar /\ sf.pc = "poll" /\ sf.kind = "read" /\ sf.res # "ok"
      /\ sf.n \in Nat /\ sf.at \in Nat /\ sf.size \in Nat
  BY DEF StIInv, pmci_read_fifo, StTyped
<1>1. PICK blk : blk = Least(sf.size, StReadBlock)
  OBVIOUS
<1>2. PICK full : full = (blk \div StWord) * StWord
  OBVIOUS
<1>3. PICK left, fl : left = SubSeq(sf.words, full + 1, Len(sf.words)) /\ fl = sf.flash \o Slice(sf.words, 0, full)
  OBVIOUS
<1>4. PICK nxt : nxt = [sf EXCEPT !.flash = fl, !.words = left, !.size = sf.size - blk, !.at = sf.at + blk]
  OBVIOUS
<1>5. sf' = IF left = <<>> THEN [nxt EXCEPT !.pc = "read", !.rdMode = FALSE] ELSE [nxt EXCEPT !.pc = "readrest"]
  BY <1>1, <1>2, <1>3, <1>4 DEF pmci_read_fifo
<1>6. blk \in Nat /\ blk <= sf.size /\ (Whole(sf.size) => Whole(blk))
  BY <1>0, <1>1, LeastIs, StagingAssumption DEF Whole
<1>7. /\ DOMAIN sf' = DOMAIN sf /\ sf'.kind = "read" /\ sf'.n = sf.n /\ sf'.offset = sf.offset /\ sf'.fifo = sf.fifo
      /\ sf'.flash = fl /\ sf'.res = sf.res /\ sf'.size = sf.size - blk /\ sf'.at = sf.at + blk
      /\ sf'.pc \in {"read", "readrest"}
      /\ left = <<>> => sf'.pc = "read" /\ sf'.rdMode = FALSE
  <2>1. DOMAIN sf = {"kind", "n", "pc", "offset", "size", "at", "fifo", "flash", "rdMode", "words", "res"}
    BY <1>0 DEF StTyped
  <2>2. /\ DOMAIN nxt = DOMAIN sf /\ nxt.kind = sf.kind /\ nxt.n = sf.n /\ nxt.offset = sf.offset /\ nxt.fifo = sf.fifo
        /\ nxt.flash = fl /\ nxt.res = sf.res /\ nxt.size = sf.size - blk /\ nxt.at = sf.at + blk
    BY <1>4, <2>1
  <2> QED BY <1>0, <1>5, <2>1, <2>2
<1>8. StTyped' /\ StRoom' /\ StInside' /\ StWritten'
  BY <1>0, <1>6, <1>7 DEF StTyped, StRoom, StInside, StWritten
<1>9. StReadSoFar'
  <2> SUFFICES ASSUME Whole(sf.n) PROVE StReadSoFar'
    BY <1>7 DEF StReadSoFar, Whole
  <2>1. sf.flash = Bytes(sf.at) /\ sf.at + sf.size = sf.n /\ Whole(sf.size) /\ sf.words = Behind(sf.at, blk)
    BY <1>0, <1>1 DEF StReadSoFar
  <2>2. full = blk
    BY <1>2, <1>6, <2>1, WholeCount
  <2>3. Len(sf.words) = blk
    BY <1>0, <1>6, <2>1, BytesAre
  <2>4. left = <<>> /\ Slice(sf.words, 0, full) = Behind(sf.at, blk)
    BY <1>0, <1>3, <1>6, <2>1, <2>2, <2>3, SliceOfAll
  <2>5. fl = Bytes(sf.at + blk)
    BY <1>0, <1>3, <1>6, <2>1, <2>4, BytesGrow
  <2>6. Whole(blk) /\ Whole(sf.size - blk)
    BY <1>0, <1>6, <2>1, WholeSum
  <2>7. sf.at + blk + (sf.size - blk) = sf.n
    BY <1>0, <1>6, <2>1
  <2> QED BY <1>0, <1>7, <2>4, <2>5, <2>6, <2>7 DEF StReadSoFar, Whole
<1> QED BY <1>8, <1>9 DEF StIInv

\* A read ends with a rest, of a size that is not of whole words, or with a timeout.
LEMMA StReadEnds == ASSUME StIInv, pmci_read_remainder \/ pmci_read_timeout PROVE StIInv'
<1>0. StTyped /\ StRoom /\ StInside /\ StWritten /\ StReadSoFar /\ sf.kind = "read" /\ sf.pc \in {"readrest", "poll"}
  BY DEF StIInv, pmci_read_remainder, pmci_read_timeout, StTyped
<1>1. CASE pmci_read_remainder
  <2>1. ~Whole(sf.n)
    BY <1>0, <1>1 DEF pmci_read_remainder, StReadSoFar
  <2>2. PICK fl, m : sf' = [sf EXCEPT !.flash = fl, !.rdMode = m, !.pc = "end", !.res = "ok"]
    <3>1. CASE sf.size = 0
      <4>1. sf' = [sf EXCEPT !.pc = "end", !.res = "ok"]
        BY <1>1, <3>1 DEF pmci_read_remainder
      <4>2. sf' = [sf EXCEPT !.flash = sf.flash, !.rdMode = sf.rdMode, !.pc = "end", !.res = "ok"]
        BY <1>0, <4>1 DEF StTyped
      <4> QED BY <4>2
    <3>2. CASE sf.size # 0
      <4>1. sf' = [sf EXCEPT !.flash = sf.flash \o Slice(sf.words, 0, sf.size), !.rdMode = FALSE, !.pc = "end", !.res = "ok"]
        BY <1>1, <3>2 DEF pmci_read_remainder
      <4> QED BY <4>1
    <3> QED BY <3>1, <3>2
  <2>3. /\ DOMAIN sf' = DOMAIN sf /\ sf'.kind = sf.kind /\ sf'.n = sf.n /\ sf'.offset = sf.offset /\ sf'.fifo = sf.fifo
        /\ sf'.res = "ok" /\ sf'.pc = "end" /\ sf'.size = sf.size /\ sf'.at = sf.at
    BY <1>0, <2>2 DEF StTyped
  <2>4. StTyped' /\ StRoom' /\ StInside'
    BY <1>0, <2>3 DEF StTyped, StRoom, StInside
  <2>5. StWritten' /\ StReadSoFar'
    BY <2>1, <2>3 DEF StWritten, StReadSoFar, Whole
  <2> QED BY <2>4, <2>5 DEF StIInv
<1>2. CASE pmci_read_timeout
  <2>1. sf' = [sf EXCEPT !.pc = "end", !.res = "error"]
    BY <1>2 DEF pmci_read_timeout
  <2> QED BY <1>0, <2>1 DEF StIInv, StTyped, StRoom, StInside, StWritten, StReadSoFar
<1> QED BY <1>1, <1>2

\* Every step of a transfer keeps the invariant.
LEMMA StNextIInv == ASSUME StIInv, [StagingNext]_staging_vars PROVE StIInv'
<1>1. CASE UNCHANGED staging_vars
  BY <1>1 DEF staging_vars, StIInv, StTyped, StRoom, StInside, StWritten, StReadSoFar
<1>2. CASE StagingNext
  BY <1>2, StNextBlock, StWritesRegs, StWritesFifo, StWritesRest, StWriteReturns, StDrains, StAsksForBlock, StReadsBlock,
     StReadEnds DEF StagingNext
<1> QED BY <1>1, <1>2

\* At first nothing was written or read.
LEMMA StInitIInv == ASSUME StagingInit PROVE StIInv
<1>1. PICK kind \in {"n3000", "n6000", "read"}, n \in StSizes :
        sf = [kind |-> kind, n |-> n, pc |-> IF kind = "read" THEN "read" ELSE "next", offset |-> 0, size |-> n, at |-> 0,
              fifo |-> 0, flash |-> <<>>, rdMode |-> FALSE, words |-> <<>>, res |-> "none"]
  BY DEF StagingInit
<1>2. n \in Nat /\ StFifo \in Nat
  BY StagingAssumption
<1>3. StTyped /\ StRoom /\ StInside
  BY <1>1, <1>2 DEF StTyped, StRoom, StInside
<1>4. Bytes(0) = <<>> /\ Whole(0)
  BY StagingAssumption DEF Bytes, Whole
<1>5. StWritten
  BY <1>1, <1>2, <1>4 DEF StWritten
<1>6. StReadSoFar
  BY <1>1, <1>2, <1>4 DEF StReadSoFar
<1> QED BY <1>3, <1>5, <1>6 DEF StIInv

\* Images of any number of whole words arrive whole and in order, through registers
\* (m10bmc_sec_write) or through the FIFO (pmci_flash_bulk_write), which never holds more
\* words than it has room for; a flash read of whole words that succeeds
\* (pmci_flash_bulk_read) returns the bytes of the flash in order.  For every word, block
\* and FIFO size.
THEOREM StagingIsTrue == StagingSpec => []StagingTransferTrue
<1>1. StagingSpec => []StIInv
  BY StInitIInv, StNextIInv, PTL DEF StagingSpec
<1>2. ASSUME StIInv PROVE StagingTransferTrue
  <2>1. StagingAligned
    BY <1>2 DEF StIInv, StWritten, StagingAligned, Whole
  <2>2. StagingNoOverrun
    BY <1>2 DEF StIInv, StRoom, StagingNoOverrun
  <2>3. StagingReadTrue
    BY <1>2 DEF StIInv, StReadSoFar, StagingReadTrue, Whole
  <2> QED BY <2>1, <2>2, <2>3 DEF StagingTransferTrue
<1> QED BY <1>1, <1>2, PTL
=============================================================================
