------------------------------ MODULE FmePerf -------------------------------
(***************************************************************************)
(* Performance events of the FME.  The fabric counters count for the whole *)
(* FPGA or for one port, so events of both kinds exclude each other by a   *)
(* count of users under a lock; a counter is read in several register      *)
(* accesses without a lock, on the one CPU the events are bound to; and    *)
(* when that CPU goes offline the events move to another one.              *)
(***************************************************************************)
EXTENDS Integers, FiniteSets

CONSTANTS
  PfEvents,    \* perf events user space may hold
  PfCpus,
  PfKinds,     \* evtype, event and portid asked for
  PfId,        \* "iperf" or "dperf"
  MaxCount     \* bound: how far a hardware counter runs, and a count before it is only stopped

ASSUME PerfAssumption == IsFiniteSet(PfEvents) /\ 0 \notin PfCpus

Root == 255
\* Types whose counter is selected through a control register.
Selected == {"cache", "fabric", "vtd", "vtd_sip"}

VARIABLES
  pf,    \* fab_users, fab_port_id, fab_lock, the CPU, a migration under way, and the hardware
  pe     \* event -> what it counts, where it is, its counts

perf_vars == <<pf, pe>>

NoKind == [type |-> "none", evnt |-> 0, port |-> 0]
PfOff == [pc |-> "none", k |-> NoKind, cpu |-> 0, v |-> NoKind, why |-> "none", now |-> 0, prev |-> 0, count |-> 0,
          last |-> 0, want |-> 0, own |-> TRUE, mixed |-> FALSE, bad |-> FALSE]

\* The mode of the fabric counters is the one the hardware was left in.
fme_perf_setup_hardware(filter) == filter
PerfInit ==
  \E c \in PfCpus, filter \in {Root, 0} :
    /\ pf = [users |-> 0, port |-> fme_perf_setup_hardware(filter), lock |-> FALSE, cpu |-> c, mig |-> 0, cnt |-> 0,
             ctrl |-> [t \in Selected |-> [filter |-> IF t = "fabric" THEN filter ELSE Root, evnt |-> 0]]]
    /\ pe = [e \in PfEvents |-> PfOff]

-----------------------------------------------------------------------------
(* Opening and closing.                                                    *)

\* Which events a board has, and for which ports.
event_init_ok(k) ==
  CASE k.type = "basic" -> k.evnt = 0 /\ k.port = Root
    [] k.type = "cache" -> PfId = "iperf" /\ k.evnt <= 10 /\ k.port = Root
    [] k.type = "fabric" -> k.evnt <= 7 /\ k.port \in {Root, 0} /\ ~(PfId = "dperf" /\ k.evnt \in {2, 3, 4, 5})
    [] k.type = "vtd" -> PfId = "iperf" /\ k.evnt <= 6 /\ k.port = 0
    [] k.type = "vtd_sip" -> PfId = "iperf" /\ k.evnt <= 10 /\ k.port = Root
    [] OTHER -> FALSE

Opened(k) == [PfOff EXCEPT !.pc = "off", !.k = k, !.cpu = pf.cpu]

fme_perf_event_init(e) ==
  /\ pe[e].pc = "none"
  /\ \E k \in PfKinds :
       /\ k.type # "fabric" /\ event_init_ok(k)
       /\ pe' = [pe EXCEPT ![e] = Opened(k)] /\ UNCHANGED pf

\* Fault: a mode in use is changed.
fabric_conflict_Never(portid) == FALSE
\* Someone counts in the other mode.
fabric_conflict(portid) == pf.users > 0 /\ pf.port # portid

fabric_refused == UNCHANGED pf

\* The lock is taken; the mode is changed in two register accesses if it has to be.
fabric_event_init(e) ==
  /\ pe[e].pc = "none" /\ ~pf.lock
  /\ \E k \in PfKinds :
       /\ k.type = "fabric" /\ event_init_ok(k)
       /\ IF fabric_conflict(k.port) THEN fabric_refused /\ UNCHANGED pe
          ELSE IF pf.port = k.port
          THEN pf' = [pf EXCEPT !.users = @ + 1] /\ pe' = [pe EXCEPT ![e] = Opened(k)]
          ELSE /\ pf' = [pf EXCEPT !.users = @ + 1, !.port = k.port, !.lock = TRUE]
               /\ pe' = [pe EXCEPT ![e] = [Opened(k) EXCEPT !.pc = "mode", !.v = [NoKind EXCEPT !.evnt = pf.ctrl["fabric"].evnt]]]
fabric_event_init_write(e) ==
  /\ pe[e].pc = "mode"
  /\ pf' = [pf EXCEPT !.ctrl["fabric"] = [filter |-> pe[e].k.port, evnt |-> pe[e].v.evnt], !.lock = FALSE]
  /\ pe' = [pe EXCEPT ![e].pc = "off", ![e].v = NoKind]

fabric_event_destroy(p) == [p EXCEPT !.users = @ - 1]
fme_perf_event_destroy(e) ==
  /\ pe[e].pc = "off"
  /\ pe[e].k.type = "fabric" => ~pf.lock
  /\ pf' = IF pe[e].k.type = "fabric" THEN fabric_event_destroy(pf) ELSE pf
  /\ pe' = [pe EXCEPT ![e] = PfOff]

-----------------------------------------------------------------------------
(* Reading a counter, with interrupts off on the event's CPU.              *)

Reading(e) == pe[e].pc \in {"select", "poll", "cntr"}
CpuFree(c) == \A e \in PfEvents : Reading(e) => pe[e].cpu # c

\* Start, stop and read all begin with the counter.
PerfBegin(e, from, why) ==
  /\ pe[e].pc = from /\ CpuFree(pe[e].cpu)
  /\ why = "stop" \/ (pe[e].count < MaxCount /\ ~pe[e].bad)
  /\ LET t == pe[e].k.type IN
     pe' = [pe EXCEPT ![e].pc = IF t = "basic" THEN "cntr" ELSE "select", ![e].why = why, ![e].mixed = pf.mig # 0, ![e].own = TRUE,
                      ![e].v = IF t = "basic" THEN NoKind ELSE [NoKind EXCEPT !.port = pf.ctrl[t].filter]]
  /\ UNCHANGED pf
fme_perf_event_start(e) == PerfBegin(e, "off", "start")
fme_perf_event_stop(e) == PerfBegin(e, "on", "stop")
fme_perf_event_read(e) == PerfBegin(e, "on", "read")

\* The event is selected: the rest of the register is written back as it was read.
read_counter_select(e) ==
  /\ pe[e].pc = "select"
  /\ pf' = [pf EXCEPT !.ctrl[pe[e].k.type] = [filter |-> pe[e].v.port, evnt |-> pe[e].k.evnt]]
  /\ pe' = [pe EXCEPT ![e].pc = "poll", ![e].mixed = @ \/ pf.mig # 0]
\* The counter register shows the event selected.
read_counter_poll(e) ==
  /\ pe[e].pc = "poll" /\ pf.ctrl[pe[e].k.type].evnt = pe[e].k.evnt
  /\ pe' = [pe EXCEPT ![e].pc = "cntr", ![e].mixed = @ \/ pf.mig # 0] /\ UNCHANGED pf

\* What the counter ran since the start is added to the count.  (last and want are
\* history: the counter when it was last looked at, and what it ran in all.)
fme_perf_event_update(x, now) == [x EXCEPT !.count = @ + now - x.prev, !.want = @ + now - x.last, !.last = now]

PerfDone(x, now) ==
  CASE x.why = "start" -> [x EXCEPT !.pc = "on", !.prev = now, !.last = now]
    [] x.why = "stop" -> [fme_perf_event_update(x, now) EXCEPT !.pc = "off"]
    [] x.why = "read" -> [fme_perf_event_update(x, now) EXCEPT !.pc = "on"]

fme_read_perf_cntr_reg(e) ==
  /\ pe[e].pc = "cntr"
  /\ LET t == pe[e].k.type
         own == t \in Selected => pf.ctrl[t].evnt = pe[e].k.evnt /\ (t = "fabric" => pf.ctrl[t].filter = pe[e].k.port)
     IN  pe' = [pe EXCEPT ![e] = [PerfDone(pe[e], pf.cnt) EXCEPT !.own = own, !.mixed = @ \/ pf.mig # 0, !.v = NoKind]]
  /\ UNCHANGED pf
\* The event never shows: 0 is taken for the counter.
read_counter_timeout(e) ==
  /\ pe[e].pc = "poll"
  /\ pe' = [pe EXCEPT ![e] = [PerfDone(pe[e], 0) EXCEPT !.bad = TRUE, !.v = NoKind]]
  /\ UNCHANGED pf

CounterRuns == pf.cnt < MaxCount /\ pf' = [pf EXCEPT !.cnt = @ + 1] /\ UNCHANGED pe

-----------------------------------------------------------------------------
(* The CPU goes offline: first the new one is stored, then the events move, *)
(* none of them while it is being read.  (perf itself refuses an event that *)
(* was on its way to the old CPU.)                                         *)

fme_perf_offline_cpu ==
  /\ pf.mig = 0
  /\ \E c \in PfCpus \ {pf.cpu} : pf' = [pf EXCEPT !.cpu = c, !.mig = pf.cpu]
  /\ UNCHANGED pe

perf_pmu_migrate_context(src, dst) == [e \in PfEvents |-> IF pe[e].cpu = src THEN [pe[e] EXCEPT !.cpu = dst] ELSE pe[e]]
PerfMigrates ==
  /\ pf.mig # 0 /\ CpuFree(pf.mig) /\ \A e \in PfEvents : pe[e].pc # "mode"
  /\ pe' = perf_pmu_migrate_context(pf.mig, pf.cpu)
  /\ pf' = [pf EXCEPT !.mig = 0]

PerfNext ==
  \/ \E e \in PfEvents :
       \/ fme_perf_event_init(e) \/ fabric_event_init(e) \/ fabric_event_init_write(e) \/ fme_perf_event_destroy(e)
       \/ fme_perf_event_start(e) \/ fme_perf_event_stop(e) \/ fme_perf_event_read(e)
       \/ read_counter_select(e) \/ read_counter_poll(e) \/ fme_read_perf_cntr_reg(e) \/ read_counter_timeout(e)
  \/ CounterRuns \/ fme_perf_offline_cpu \/ PerfMigrates

PerfSpec == PerfInit /\ [][PerfNext]_perf_vars

-----------------------------------------------------------------------------
(* Properties.                                                             *)

Fabric == {e \in PfEvents : pe[e].k.type = "fabric"}

\* fab_users counts the fabric events that are open: a mode that was refused or an
\* event that was closed leaves nothing behind that would block the other mode.
PerfUsersExact == pf.users = Cardinality(Fabric)

\* A counter that is read is the event's own: the event it selected, and for a fabric
\* event the mode it was opened for, although the mode is changed under a lock the
\* readers do not take.  (Reads while the events move to another CPU are left out: two
\* CPUs may then select events at the same time.)
PerfReadOwn == \A e \in PfEvents : pe[e].own \/ pe[e].mixed

\* Outside of a migration all open events are on the CPU the driver accepts.
PerfOneCpu == pf.mig = 0 => \A e \in PfEvents : pe[e].pc # "none" => pe[e].cpu = pf.cpu

\* What an event reports is what its counter ran while it was started.
PerfCount == \A e \in PfEvents : pe[e].count = pe[e].want \/ pe[e].bad

\* Taken together: events that share the fabric counters or the CPU do not
\* disturb each other.
PerfEventsIsolated == PerfUsersExact /\ PerfReadOwn /\ PerfOneCpu
=============================================================================
