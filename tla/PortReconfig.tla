---------------------------- MODULE PortReconfig ----------------------------
(***************************************************************************)
(* Port reset and partial reconfiguration.                                 *)
(*                                                                         *)
(* A port is in reset while its soft reset bit is set; disable_count nests *)
(* the reasons to keep it there.  A partial reconfiguration (PR) ioctl of  *)
(* the FME takes the FME's lock and programs a region: it locks region,    *)
(* manager and bridge, disables the bridge (the port), loads the image     *)
(* through the manager, enables the bridge and lets everything go.  Users  *)
(* of the port reset it, or clear its errors, at any time in between; they *)
(* and the bridge hold the port's own lock, so each is one step.           *)
(***************************************************************************)
EXTENDS Integers, FiniteSets

CONSTANTS
  Ports,
  Callers,  \* threads in the PR ioctl
  None,     \* no holder of a lock
  Other,    \* another kernel user of the FPGA manager
  Faults,   \* "timeout": the port does not acknowledge in time;
            \* "load": the manager fails to load an image
  MaxPr     \* bound: PR ioctls in a behaviour

ASSUME PortReconfigAssumption ==
  /\ None \notin Callers /\ Other \notin Callers /\ None # Other
  /\ Faults \subseteq {"timeout", "load"}
  /\ MaxPr \in Nat

VARIABLES
  port,          \* per port: disable_count, PORT_CTRL_SFTRST and its ACK bit
  pr,            \* per caller: where the PR ioctl is, and its port
  fme_lock,      \* fdata->lock of the FME
  region_mutex, bridge_mutex, mgr_mutex,
  bridge_list,   \* per region: its bridge is on the list
  mgr_state,     \* mgr->state
  reset_ret,     \* per port: the result of the last reset
  calls          \* PR ioctls begun

lockVars == <<fme_lock, region_mutex, bridge_mutex, mgr_mutex, bridge_list>>
vars == <<port, pr, lockVars, mgr_state, reset_ret, calls>>

PrPc == {"none", "wait", "region", "mgr", "bridges", "disable",
         "write_init", "write", "write_complete", "enable", "put"}
MgrState == {"UNKNOWN", "PARSE_HEADER", "WRITE_INIT", "WRITE_INIT_ERR", "WRITE", "WRITE_ERR",
             "WRITE_COMPLETE", "WRITE_COMPLETE_ERR", "OPERATING"}
Holder == Callers \cup {None}
PortState == [disable_count : Nat, sftrst : BOOLEAN, ack : BOOLEAN]

\* In particular no port is enabled more often than it was disabled, which is
\* what the WARN_ON of __afu_port_enable watches for.
TypeOK ==
  /\ port \in [Ports -> PortState]
  /\ pr \in [Callers -> [pc : PrPc, port : Ports]]
  /\ fme_lock \in Holder
  /\ region_mutex \in [Ports -> Holder] /\ bridge_mutex \in [Ports -> Holder]
  /\ mgr_mutex \in Holder \cup {Other}
  /\ bridge_list \in [Ports -> BOOLEAN]
  /\ mgr_state \in MgrState
  /\ reset_ret \in [Ports -> {"none", "ok", "ETIMEDOUT"}]
  /\ calls \in 0..MaxPr

\* After the port driver was probed and its reset succeeded.
Init ==
  /\ port = [p \in Ports |-> [disable_count |-> 0, sftrst |-> FALSE, ack |-> FALSE]]
  /\ pr \in [Callers -> [pc : {"none"}, port : Ports]]
  /\ fme_lock = None
  /\ region_mutex = [p \in Ports |-> None] /\ bridge_mutex = [p \in Ports |-> None]
  /\ mgr_mutex = None
  /\ bridge_list = [p \in Ports |-> FALSE]
  /\ mgr_state = "UNKNOWN"
  /\ reset_ret = [p \in Ports |-> "none"]
  /\ calls = 0

-----------------------------------------------------------------------------
(* The port: outcomes are pairs of a result and the port after it.         *)

Outcome(ret, count, sftrst, ack) ==
  [ret |-> ret, port |-> [disable_count |-> count, sftrst |-> sftrst, ack |-> ack]]

Timeout(o) == IF "timeout" \in Faults THEN {o} ELSE {}

\* Fault: the port is put in reset without counting.
afu_port_disable_NoNest(r) == {Outcome("ok", 1, TRUE, TRUE)}

\* A timeout leaves the count incremented and the reset bit set.
afu_port_disable(r) ==
  IF r.disable_count # 0
  THEN {Outcome("ok", r.disable_count + 1, r.sftrst, r.ack)}
  ELSE {Outcome("ok", 1, TRUE, TRUE)} \cup Timeout(Outcome("ETIMEDOUT", 1, TRUE, r.ack))

\* Fault: the reset is cleared whatever the count says.
afu_port_enable_NoCount(r) == {Outcome("ok", r.disable_count - 1, FALSE, FALSE)}

\* Its WARN_ON is for a count of zero, which would wrap.
afu_port_enable(r) ==
  IF r.disable_count # 1
  THEN {Outcome("ok", r.disable_count - 1, r.sftrst, r.ack)}
  ELSE {Outcome("ok", 0, FALSE, FALSE)} \cup Timeout(Outcome("ETIMEDOUT", 0, FALSE, r.ack))

port_reset_outcomes(r) ==
  {o \in afu_port_disable(r) : o.ret # "ok"}
    \cup UNION {afu_port_enable(o.port) : o \in {d \in afu_port_disable(r) : d.ret = "ok"}}

\* The reset ioctl and the reset of the last close, of a port that the driver
\* resets at all (revision 0 or 1).
port_reset(p) ==
  /\ \E o \in port_reset_outcomes(port[p]) :
       /\ port' = [port EXCEPT ![p] = o.port]
       /\ reset_ret' = [reset_ret EXCEPT ![p] = o.ret]
  /\ UNCHANGED <<pr, lockVars, mgr_state, calls>>

\* Clearing the port's errors halts and enables the port around it, whether
\* the errors match or not; in power state AP6 nothing is done.
afu_port_err_clear(p) ==
  /\ \E o \in port_reset_outcomes(port[p]) : port' = [port EXCEPT ![p] = o.port]
  /\ UNCHANGED <<pr, lockVars, mgr_state, reset_ret, calls>>

\* The hardware acknowledges late (external).
hw_ack(p) ==
  /\ port[p].ack # port[p].sftrst
  /\ port' = [port EXCEPT ![p].ack = port[p].sftrst]
  /\ UNCHANGED <<pr, lockVars, mgr_state, reset_ret, calls>>

-----------------------------------------------------------------------------
(* fme_pr and fpga_region_program_fpga.                                    *)

Goto(c, pc) == pr' = [pr EXCEPT ![c].pc = pc]

fme_pr(c, p) ==
  /\ pr[c].pc = "none" /\ calls < MaxPr
  /\ calls' = calls + 1
  /\ pr' = [pr EXCEPT ![c] = [pc |-> "wait", port |-> p]]
  /\ UNCHANGED <<port, lockVars, mgr_state, reset_ret>>

fme_pr_lock(c) ==
  /\ pr[c].pc = "wait"
  /\ fme_lock = None
  /\ fme_lock' = c
  /\ Goto(c, "region")
  /\ UNCHANGED <<port, region_mutex, bridge_mutex, mgr_mutex, bridge_list, mgr_state, reset_ret, calls>>

\* mutex_trylock: a lock that is held by someone else ends the operation.
fpga_region_get(c) ==
  LET p == pr[c].port IN
  /\ pr[c].pc = "region"
  /\ region_mutex' = [region_mutex EXCEPT ![p] = IF @ = None THEN c ELSE @]
  /\ Goto(c, IF region_mutex[p] = None THEN "mgr" ELSE "put")
  /\ UNCHANGED <<port, fme_lock, bridge_mutex, mgr_mutex, bridge_list, mgr_state, reset_ret, calls>>

fpga_mgr_lock(c) ==
  LET p == pr[c].port IN
  /\ pr[c].pc = "mgr"
  /\ mgr_mutex' = IF mgr_mutex = None THEN c ELSE mgr_mutex
  /\ region_mutex' = [region_mutex EXCEPT ![p] = IF mgr_mutex = None THEN @ ELSE None]
  /\ Goto(c, IF mgr_mutex = None THEN "bridges" ELSE "put")
  /\ UNCHANGED <<port, fme_lock, bridge_mutex, bridge_list, mgr_state, reset_ret, calls>>

fme_region_get_bridges(c) ==
  LET p == pr[c].port
      free == bridge_mutex[p] = None
  IN
  /\ pr[c].pc = "bridges"
  /\ bridge_mutex' = [bridge_mutex EXCEPT ![p] = IF free THEN c ELSE @]
  /\ bridge_list' = [bridge_list EXCEPT ![p] = @ \/ free]
  /\ mgr_mutex' = IF free THEN mgr_mutex ELSE None
  /\ region_mutex' = [region_mutex EXCEPT ![p] = IF free THEN @ ELSE None]
  /\ Goto(c, IF free THEN "disable" ELSE "put")
  /\ UNCHANGED <<port, fme_lock, mgr_state, reset_ret, calls>>

fpga_bridges_put(p) ==
  /\ bridge_mutex' = [bridge_mutex EXCEPT ![p] = IF bridge_list[p] THEN None ELSE @]
  /\ bridge_list' = [bridge_list EXCEPT ![p] = FALSE]

\* Fault: the error path unlocks the bridge and leaves it on the list.
program_fails_KeepsList(c) ==
  LET p == pr[c].port IN
  /\ bridge_mutex' = [bridge_mutex EXCEPT ![p] = None]
  /\ mgr_mutex' = None
  /\ region_mutex' = [region_mutex EXCEPT ![p] = None]
  /\ Goto(c, "put")
  /\ UNCHANGED <<fme_lock, bridge_list>>

\* err_put_br: the bridges are put, and not enabled.
program_fails(c) ==
  LET p == pr[c].port IN
  /\ fpga_bridges_put(p)
  /\ mgr_mutex' = None
  /\ region_mutex' = [region_mutex EXCEPT ![p] = None]
  /\ Goto(c, "put")
  /\ UNCHANGED fme_lock

fpga_bridges_disable(c) ==
  LET p == pr[c].port IN
  /\ pr[c].pc = "disable"
  /\ \E o \in afu_port_disable(port[p]) :
       /\ port' = [port EXCEPT ![p] = o.port]
       /\ \/ /\ o.ret = "ok"
             /\ Goto(c, "write_init")
             /\ mgr_state' = "PARSE_HEADER"
             /\ UNCHANGED lockVars
          \/ /\ o.ret # "ok"
             /\ program_fails(c)
             /\ UNCHANGED mgr_state
  /\ UNCHANGED <<reset_ret, calls>>

\* fpga_mgr_load: one step of the manager works, or fails and ends the load.
mgr_step(c, pc, ok, err, next) ==
  /\ pr[c].pc = pc
  /\ \/ mgr_state' = ok /\ Goto(c, next) /\ UNCHANGED lockVars
     \/ "load" \in Faults /\ mgr_state' = err /\ program_fails(c)
  /\ UNCHANGED <<port, reset_ret, calls>>

fpga_mgr_write_init(c) == mgr_step(c, "write_init", "WRITE_INIT", "WRITE_INIT_ERR", "write")
fpga_mgr_write(c) == mgr_step(c, "write", "WRITE", "WRITE_ERR", "write_complete")
fpga_mgr_write_complete(c) ==
  mgr_step(c, "write_complete", "OPERATING", "WRITE_COMPLETE_ERR", "enable")

\* On success the bridges stay locked until fme_pr puts them.
fpga_bridges_enable(c) ==
  LET p == pr[c].port IN
  /\ pr[c].pc = "enable"
  /\ \E o \in afu_port_enable(port[p]) :
       /\ port' = [port EXCEPT ![p] = o.port]
       /\ \/ /\ o.ret = "ok"
             /\ mgr_mutex' = None
             /\ region_mutex' = [region_mutex EXCEPT ![p] = None]
             /\ Goto(c, "put")
             /\ UNCHANGED <<fme_lock, bridge_mutex, bridge_list>>
          \/ o.ret # "ok" /\ program_fails(c)
  /\ UNCHANGED <<mgr_state, reset_ret, calls>>

\* Fault: the FME stays locked.
fme_pr_put_KeepsLock(c) ==
  /\ pr[c].pc = "put"
  /\ fpga_bridges_put(pr[c].port)
  /\ Goto(c, "none")
  /\ UNCHANGED <<port, fme_lock, region_mutex, mgr_mutex, mgr_state, reset_ret, calls>>

\* The end of fme_pr, after success and after failure.
fme_pr_put(c) ==
  /\ pr[c].pc = "put"
  /\ fpga_bridges_put(pr[c].port)
  /\ fme_lock' = None
  /\ Goto(c, "none")
  /\ UNCHANGED <<port, region_mutex, mgr_mutex, mgr_state, reset_ret, calls>>

-----------------------------------------------------------------------------
(* Another user of the manager (external): it holds the lock and lets go.  *)

other_mgr_lock ==
  /\ mgr_mutex = None
  /\ mgr_mutex' = Other
  /\ UNCHANGED <<port, pr, fme_lock, region_mutex, bridge_mutex, bridge_list, mgr_state, reset_ret, calls>>

other_mgr_unlock ==
  /\ mgr_mutex = Other
  /\ mgr_mutex' = None
  /\ UNCHANGED <<port, pr, fme_lock, region_mutex, bridge_mutex, bridge_list, mgr_state, reset_ret, calls>>

PrStep(c) ==
  \/ fme_pr_lock(c)
  \/ fpga_region_get(c)
  \/ fpga_mgr_lock(c)
  \/ fme_region_get_bridges(c)
  \/ fpga_bridges_disable(c)
  \/ fpga_mgr_write_init(c)
  \/ fpga_mgr_write(c)
  \/ fpga_mgr_write_complete(c)
  \/ fpga_bridges_enable(c)
  \/ fme_pr_put(c)

Next ==
  \/ \E c \in Callers : PrStep(c) \/ \E p \in Ports : fme_pr(c, p)
  \/ \E p \in Ports : port_reset(p) \/ afu_port_err_clear(p) \/ hw_ack(p)
  \/ other_mgr_lock \/ other_mgr_unlock

Spec == Init /\ [][Next]_vars

\* A thread in the ioctl runs on, and gets a mutex it waits for; PR ioctls
\* are bounded, so that weak fairness is enough.
FairSpec == Spec /\ \A c \in Callers : WF_vars(PrStep(c))

-----------------------------------------------------------------------------
(* What must hold.                                                         *)

\* From the end of the bridge's disable to its enable.
Loading(c) == pr[c].pc \in {"write_init", "write", "write_complete", "enable"}

InProgram(c) == pr[c].pc \in {"region", "mgr", "bridges", "disable", "put"} \/ Loading(c)

\* A port is in reset exactly while its count says so: afu_id_show, which reads
\* the AFU when the count is zero, never reads it in reset, whatever timed out.
CountIsReset == \A p \in Ports : port[p].disable_count = 0 <=> ~port[p].sftrst

\* The manager loads a region only while its port is held in reset, however
\* users reset the port meanwhile.
HeldInReset == \A c \in Callers : Loading(c) => port[pr[c].port].sftrst

\* Two PR ioctls are never inside the region code together, and each lock
\* taken on the way is released on every path, once.
LocksReleased ==
  /\ \A c, d \in Callers : InProgram(c) /\ InProgram(d) => c = d
  /\ \A p \in Ports : bridge_list[p] <=> bridge_mutex[p] # None
  /\ (\A c \in Callers : ~InProgram(c)) =>
       /\ fme_lock = None /\ mgr_mutex \in {None, Other}
       /\ \A p \in Ports : region_mutex[p] = None /\ bridge_mutex[p] = None

\* The inductive invariant behind CountIsReset and HeldInReset: whoever is
\* inside the region code holds the FME's lock, and a load is counted.
Serial == \A c \in Callers : InProgram(c) => fme_lock = c
LoadCounted == \A c \in Callers : Loading(c) => port[pr[c].port].disable_count > 0
IInv == TypeOK /\ CountIsReset /\ Serial /\ LoadCounted

\* A reset that reports success leaves the port out of reset, unless a PR
\* holds it there: the port is recoverable by a reset.
ResetRecovers ==
  \A p \in Ports :
    reset_ret[p] = "ok" /\ port[p].sftrst => \E c \in Callers : pr[c].port = p /\ Loading(c)

\* A PR ioctl ends.
PrEnds == \A c \in Callers : pr[c].pc # "none" ~> pr[c].pc = "none"
=============================================================================
