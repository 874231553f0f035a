------------------------ MODULE PortReconfig_proofs ------------------------
(***************************************************************************)
(* Proofs about PortReconfig, for any ports, callers, faults and bounds:   *)
(* a port is in reset exactly while its count says so, it stays in reset   *)
(* for as long as the manager loads its region, and every path lets go of  *)
(* the locks it took.                                                      *)
(***************************************************************************)
EXTENDS PortReconfig, TLAPS

Good(r) == r.disable_count = 0 <=> ~r.sftrst

\* __afu_port_disable adds one to the count and leaves the port in reset,
\* whether or not it timed out.
LEMMA DisableOutcome ==
  ASSUME NEW r \in PortState, Good(r), NEW o \in afu_port_disable(r)
  PROVE  /\ o.port \in PortState /\ Good(o.port)
         /\ o.port.disable_count = r.disable_count + 1
         /\ o.ret \in {"ok", "ETIMEDOUT"}
<1>1. r.disable_count \in Nat /\ r.sftrst \in BOOLEAN /\ r.ack \in BOOLEAN
  BY DEF PortState
<1>2. \/ r.disable_count # 0 /\ o = Outcome("ok", r.disable_count + 1, r.sftrst, r.ack)
      \/ r.disable_count = 0 /\ o = Outcome("ok", 1, TRUE, TRUE)
      \/ r.disable_count = 0 /\ o = Outcome("ETIMEDOUT", 1, TRUE, r.ack)
  BY Zenon DEF afu_port_disable, Timeout
<1>3. CASE r.disable_count # 0 /\ o = Outcome("ok", r.disable_count + 1, r.sftrst, r.ack)
  BY <1>1, <1>3 DEF Good, PortState, Outcome
<1>4. CASE r.disable_count = 0 /\ o = Outcome("ok", 1, TRUE, TRUE)
  BY <1>1, <1>4 DEF Good, PortState, Outcome
<1>5. CASE r.disable_count = 0 /\ o = Outcome("ETIMEDOUT", 1, TRUE, r.ack)
  BY <1>1, <1>5 DEF Good, PortState, Outcome
<1> QED BY <1>2, <1>3, <1>4, <1>5

\* __afu_port_enable takes one off the count, and clears the reset with the last.
LEMMA EnableOutcome ==
  ASSUME NEW r \in PortState, Good(r), r.disable_count > 0, NEW o \in afu_port_enable(r)
  PROVE  /\ o.port \in PortState /\ Good(o.port)
         /\ o.port.disable_count = r.disable_count - 1
         /\ o.ret \in {"ok", "ETIMEDOUT"}
<1>1. r.disable_count \in Nat /\ r.sftrst \in BOOLEAN /\ r.ack \in BOOLEAN
  BY DEF PortState
<1>2. \/ r.disable_count # 1 /\ o = Outcome("ok", r.disable_count - 1, r.sftrst, r.ack)
      \/ r.disable_count = 1 /\ o = Outcome("ok", 0, FALSE, FALSE)
      \/ r.disable_count = 1 /\ o = Outcome("ETIMEDOUT", 0, FALSE, r.ack)
  BY Zenon DEF afu_port_enable, Timeout
<1>3. CASE r.disable_count # 1 /\ o = Outcome("ok", r.disable_count - 1, r.sftrst, r.ack)
  BY <1>1, <1>3 DEF Good, PortState, Outcome
<1>4. CASE r.disable_count = 1 /\ o = Outcome("ok", 0, FALSE, FALSE)
  BY <1>1, <1>4 DEF Good, PortState, Outcome
<1>5. CASE r.disable_count = 1 /\ o = Outcome("ETIMEDOUT", 0, FALSE, r.ack)
  BY <1>1, <1>5 DEF Good, PortState, Outcome
<1> QED BY <1>2, <1>3, <1>4, <1>5

\* A reset keeps the port consistent, and a count that was positive positive.
LEMMA ResetOutcome ==
  ASSUME NEW r \in PortState, Good(r), NEW o \in port_reset_outcomes(r)
  PROVE  /\ o.port \in PortState /\ Good(o.port)
         /\ r.disable_count > 0 => o.port.disable_count > 0
         /\ o.ret \in {"ok", "ETIMEDOUT"}
<1>1. CASE o \in afu_port_disable(r)
  BY <1>1, DisableOutcome DEF PortState
<1>2. CASE \E d \in afu_port_disable(r) : o \in afu_port_enable(d.port)
  <2>1. PICK d \in afu_port_disable(r) : o \in afu_port_enable(d.port)
    BY <1>2
  <2>2. d.port \in PortState /\ Good(d.port) /\ d.port.disable_count = r.disable_count + 1
    BY DisableOutcome
  <2>3. r.disable_count \in Nat /\ d.port.disable_count > 0
    BY <2>2 DEF PortState
  <2>4. /\ o.port \in PortState /\ Good(o.port)
        /\ o.port.disable_count = d.port.disable_count - 1
        /\ o.ret \in {"ok", "ETIMEDOUT"}
    BY <2>1, <2>2, <2>3, EnableOutcome
  <2> QED BY <2>2, <2>3, <2>4
<1> QED BY <1>1, <1>2 DEF port_reset_outcomes

-----------------------------------------------------------------------------
\* After the probe the counts are zero and nobody programs a region.
LEMMA InitIInv == Init => IInv
BY PortReconfigAssumption
   DEF Init, IInv, TypeOK, CountIsReset, Serial, LoadCounted, Loading, InProgram,
       PortState, PrPc, MgrState, Holder

\* A step of caller c that leaves the ports alone and does not begin a load.
LEMMA PrMoves ==
  ASSUME IInv, NEW c \in Callers, NEW pc \in PrPc,
         UNCHANGED <<port, calls, reset_ret>>,
         Goto(c, pc),
         fme_lock' \in Holder,
         region_mutex' \in [Ports -> Holder], bridge_mutex' \in [Ports -> Holder],
         mgr_mutex' \in Holder \cup {Other}, bridge_list' \in [Ports -> BOOLEAN],
         mgr_state' \in MgrState,
         pc \in {"write_init", "write", "write_complete", "enable"} => Loading(c),
         \A d \in Callers \ {c} : InProgram(d) => fme_lock' = d,
         pc \notin {"none", "wait"} => fme_lock' = c
  PROVE  IInv'
<1>1. pr' \in [Callers -> [pc : PrPc, port : Ports]]
  BY DEF Goto, IInv, TypeOK
<1>2. TypeOK'
  BY <1>1 DEF IInv, TypeOK
<1>3. \A d \in Callers : pr'[d].port = pr[d].port /\ (d # c => pr'[d] = pr[d])
  BY DEF Goto, IInv, TypeOK
<1>4. pr'[c].pc = pc
  BY DEF Goto, IInv, TypeOK
<1>5. CountIsReset'
  BY DEF IInv, CountIsReset
<1>6. Serial'
  BY <1>3, <1>4 DEF Serial, InProgram, Loading
<1>7. LoadCounted'
  BY <1>3, <1>4 DEF IInv, LoadCounted, Loading
<1> QED BY <1>2, <1>5, <1>6, <1>7 DEF IInv

\* A step of a thread that holds the FME's lock and changes its port to q:
\* nobody else is loading.
LEMMA PortMoves ==
  ASSUME IInv, NEW c \in Callers, NEW pc \in PrPc, NEW q \in PortState, Good(q),
         InProgram(c), Goto(c, pc),
         port' = [port EXCEPT ![pr[c].port] = q],
         UNCHANGED <<calls, reset_ret, fme_lock>>,
         region_mutex' \in [Ports -> Holder], bridge_mutex' \in [Ports -> Holder],
         mgr_mutex' \in Holder \cup {Other}, bridge_list' \in [Ports -> BOOLEAN],
         mgr_state' \in MgrState,
         pc \in {"write_init", "write", "write_complete", "enable"} => q.disable_count > 0
  PROVE  IInv'
<1>1. pr' \in [Callers -> [pc : PrPc, port : Ports]]
  BY DEF Goto, IInv, TypeOK
<1>2. pr[c].port \in Ports
  BY DEF IInv, TypeOK
<1>3. port' \in [Ports -> PortState]
  BY <1>2 DEF IInv, TypeOK
<1>4. TypeOK'
  BY <1>1, <1>3 DEF IInv, TypeOK
<1>5. \A d \in Callers : pr'[d].port = pr[d].port /\ (d # c => pr'[d] = pr[d])
  BY DEF Goto, IInv, TypeOK
<1>6. pr'[c].pc = pc
  BY DEF Goto, IInv, TypeOK
<1>7. fme_lock = c
  BY DEF IInv, Serial
<1>8. \A d \in Callers \ {c} : ~InProgram(d) /\ ~Loading(d)
  BY <1>7 DEF IInv, Serial, InProgram, Loading
<1>9. CountIsReset'
  BY <1>2, <1>3 DEF IInv, TypeOK, CountIsReset, Good
<1>10. Serial'
  BY <1>5, <1>7, <1>8 DEF Serial, InProgram, Loading
<1>11. LoadCounted'
  <2> SUFFICES ASSUME NEW d \in Callers, Loading(d)'
               PROVE  (port[pr[d].port].disable_count > 0)'
    BY DEF LoadCounted
  <2>1. d = c
    BY <1>5, <1>8 DEF Loading
  <2>2. q.disable_count > 0
    BY <2>1, <1>6 DEF Loading
  <2>3. port'[pr'[d].port] = q
    BY <2>1, <1>5, <1>2 DEF IInv, TypeOK
  <2> QED BY <2>2, <2>3
<1> QED BY <1>4, <1>9, <1>10, <1>11 DEF IInv

\* The error path releases the locks and ends the load.
LEMMA ProgramFails ==
  ASSUME IInv, NEW c \in Callers, program_fails(c)
  PROVE  /\ Goto(c, "put") /\ fme_lock' = fme_lock
         /\ region_mutex' \in [Ports -> Holder] /\ bridge_mutex' \in [Ports -> Holder]
         /\ mgr_mutex' \in Holder \cup {Other} /\ bridge_list' \in [Ports -> BOOLEAN]
BY DEF IInv, TypeOK, program_fails, fpga_bridges_put, Holder

\* Each step of a PR ioctl keeps the invariant.
LEMMA PrStepIInv ==
  ASSUME IInv, NEW c \in Callers, PrStep(c)
  PROVE  IInv'
<1> USE DEF PrPc, MgrState
<1>t. /\ pr[c].port \in Ports /\ port[pr[c].port] \in PortState
      /\ Good(port[pr[c].port])
  BY DEF IInv, TypeOK, CountIsReset, Good
<1>s. InProgram(c) => fme_lock = c /\ \A d \in Callers \ {c} : ~InProgram(d)
  BY DEF IInv, Serial
<1>1. CASE fme_pr_lock(c)
  <2>1. \A d \in Callers \ {c} : ~InProgram(d)
    BY <1>1, PortReconfigAssumption DEF fme_pr_lock, IInv, Serial
  <2> QED
    BY <1>1, <2>1, PrMoves DEF fme_pr_lock, IInv, TypeOK, Holder
<1>2. CASE fpga_region_get(c)
  <2>1. InProgram(c)
    BY <1>2 DEF fpga_region_get, InProgram
  <2>2. region_mutex' \in [Ports -> Holder]
    BY <1>2 DEF fpga_region_get, IInv, TypeOK, Holder
  <2>3. Goto(c, "mgr") \/ Goto(c, "put")
    BY <1>2 DEF fpga_region_get, Goto
  <2> QED
    BY <1>2, <2>1, <2>2, <2>3, <1>s, PrMoves DEF fpga_region_get, IInv, TypeOK
<1>3. CASE fpga_mgr_lock(c)
  <2>1. InProgram(c)
    BY <1>3 DEF fpga_mgr_lock, InProgram
  <2>2. region_mutex' \in [Ports -> Holder] /\ mgr_mutex' \in Holder \cup {Other}
    BY <1>3 DEF fpga_mgr_lock, IInv, TypeOK, Holder
  <2>3. Goto(c, "bridges") \/ Goto(c, "put")
    BY <1>3 DEF fpga_mgr_lock, Goto
  <2> QED
    BY <1>3, <2>1, <2>2, <2>3, <1>s, PrMoves DEF fpga_mgr_lock, IInv, TypeOK
<1>4. CASE fme_region_get_bridges(c)
  <2>1. InProgram(c)
    BY <1>4 DEF fme_region_get_bridges, InProgram
  <2>2. /\ region_mutex' \in [Ports -> Holder] /\ mgr_mutex' \in Holder \cup {Other}
        /\ bridge_mutex' \in [Ports -> Holder]
    BY <1>4 DEF fme_region_get_bridges, IInv, TypeOK, Holder
  <2>3. bridge_list' \in [Ports -> BOOLEAN]
    BY <1>4 DEF fme_region_get_bridges, IInv, TypeOK
  <2>4. Goto(c, "disable") \/ Goto(c, "put")
    BY <1>4 DEF fme_region_get_bridges, Goto
  <2> QED
    BY <1>4, <2>1, <2>2, <2>3, <2>4, <1>s, PrMoves DEF fme_region_get_bridges, IInv, TypeOK
<1>5. CASE fpga_bridges_disable(c)
  <2>1. InProgram(c)
    BY <1>5 DEF fpga_bridges_disable, InProgram
  <2>2. PICK o \in afu_port_disable(port[pr[c].port]) :
          /\ port' = [port EXCEPT ![pr[c].port] = o.port]
          /\ \/ /\ Goto(c, "write_init")
                /\ mgr_state' = "PARSE_HEADER"
                /\ UNCHANGED lockVars
             \/ program_fails(c) /\ UNCHANGED mgr_state
    BY <1>5 DEF fpga_bridges_disable
  <2>3. o.port \in PortState /\ Good(o.port) /\ o.port.disable_count > 0
    BY <1>t, DisableOutcome DEF PortState
  <2>4. UNCHANGED <<calls, reset_ret>>
    BY <1>5 DEF fpga_bridges_disable
  <2>5. CASE Goto(c, "write_init") /\ mgr_state' = "PARSE_HEADER" /\ UNCHANGED lockVars
    BY <2>1, <2>2, <2>3, <2>4, <2>5, PortMoves DEF lockVars, IInv, TypeOK
  <2>6. CASE program_fails(c) /\ UNCHANGED mgr_state
    BY <2>1, <2>2, <2>3, <2>4, <2>6, ProgramFails, PortMoves DEF IInv, TypeOK
  <2> QED BY <2>2, <2>5, <2>6
<1>6. ASSUME NEW pc \in {"write_init", "write", "write_complete"},
             NEW ok \in MgrState, NEW err \in MgrState,
             NEW next \in {"write", "write_complete", "enable"},
             mgr_step(c, pc, ok, err, next)
      PROVE  IInv'
  <2>1. mgr_step(c, pc, ok, err, next)
    BY <1>6
  <2>2. InProgram(c) /\ Loading(c)
    BY <2>1 DEF mgr_step, InProgram, Loading
  <2>3. UNCHANGED <<port, calls, reset_ret>> /\ mgr_state' \in MgrState
    BY <2>1 DEF mgr_step
  <2>4. CASE Goto(c, next) /\ UNCHANGED lockVars
    BY <2>1, <2>2, <2>3, <2>4, <1>s, PrMoves DEF lockVars, IInv, TypeOK
  <2>5. CASE program_fails(c)
    BY <2>2, <2>3, <2>5, <1>s, ProgramFails, PrMoves DEF IInv, TypeOK
  <2> QED BY <2>1, <2>4, <2>5 DEF mgr_step
<1>7. CASE fpga_bridges_enable(c)
  <2>1. InProgram(c) /\ Loading(c)
    BY <1>7 DEF fpga_bridges_enable, InProgram, Loading
  <2>2. PICK o \in afu_port_enable(port[pr[c].port]) :
          /\ port' = [port EXCEPT ![pr[c].port] = o.port]
          /\ \/ /\ mgr_mutex' = None
                /\ region_mutex' = [region_mutex EXCEPT ![pr[c].port] = None]
                /\ Goto(c, "put")
                /\ UNCHANGED <<fme_lock, bridge_mutex, bridge_list>>
             \/ program_fails(c)
    BY <1>7 DEF fpga_bridges_enable
  <2>3. port[pr[c].port].disable_count > 0
    BY <2>1 DEF IInv, LoadCounted
  <2>4. o.port \in PortState /\ Good(o.port)
    BY <1>t, <2>3, EnableOutcome
  <2>5. UNCHANGED <<calls, reset_ret, mgr_state>>
    BY <1>7 DEF fpga_bridges_enable
  <2>6. CASE /\ mgr_mutex' = None
             /\ region_mutex' = [region_mutex EXCEPT ![pr[c].port] = None]
             /\ Goto(c, "put")
             /\ UNCHANGED <<fme_lock, bridge_mutex, bridge_list>>
    <3>1. region_mutex' \in [Ports -> Holder] /\ mgr_mutex' \in Holder
      BY <2>6 DEF IInv, TypeOK, Holder
    <3> QED
      BY <2>1, <2>2, <2>4, <2>5, <2>6, <3>1, PortMoves DEF IInv, TypeOK
  <2>7. CASE program_fails(c)
    BY <2>1, <2>2, <2>4, <2>5, <2>7, ProgramFails, PortMoves DEF IInv, TypeOK
  <2> QED BY <2>2, <2>6, <2>7
<1>8. CASE fme_pr_put(c)
  <2>1. InProgram(c)
    BY <1>8 DEF fme_pr_put, InProgram
  <2>2. /\ bridge_mutex' \in [Ports -> Holder] /\ bridge_list' \in [Ports -> BOOLEAN]
        /\ fme_lock' \in Holder
    BY <1>8 DEF fme_pr_put, fpga_bridges_put, IInv, TypeOK, Holder
  <2> QED
    BY <1>8, <2>1, <2>2, <1>s, PrMoves DEF fme_pr_put, IInv, TypeOK
<1> QED
  <2>1. ASSUME fpga_mgr_write_init(c) PROVE IInv'
    <3>1. mgr_step(c, "write_init", "WRITE_INIT", "WRITE_INIT_ERR", "write")
      BY <2>1 DEF fpga_mgr_write_init
    <3>2. "WRITE_INIT" \in MgrState /\ "WRITE_INIT_ERR" \in MgrState
      BY DEF MgrState
    <3> QED BY <3>1, <3>2, <1>6
  <2>2. ASSUME fpga_mgr_write(c) PROVE IInv'
    <3>1. mgr_step(c, "write", "WRITE", "WRITE_ERR", "write_complete")
      BY <2>2 DEF fpga_mgr_write
    <3>2. "WRITE" \in MgrState /\ "WRITE_ERR" \in MgrState
      BY DEF MgrState
    <3> QED BY <3>1, <3>2, <1>6
  <2>3. ASSUME fpga_mgr_write_complete(c) PROVE IInv'
    <3>1. mgr_step(c, "write_complete", "OPERATING", "WRITE_COMPLETE_ERR", "enable")
      BY <2>3 DEF fpga_mgr_write_complete
    <3>2. "OPERATING" \in MgrState /\ "WRITE_COMPLETE_ERR" \in MgrState
      BY DEF MgrState
    <3> QED BY <3>1, <3>2, <1>6
  <2> QED BY <2>1, <2>2, <2>3, <1>1, <1>2, <1>3, <1>4, <1>5, <1>7, <1>8 DEF PrStep

\* Every step keeps the invariant.
LEMMA NextIInv == IInv /\ [Next]_vars => IInv'
<1> SUFFICES ASSUME IInv, [Next]_vars
             PROVE  IInv'
  OBVIOUS
<1>1. ASSUME NEW c \in Callers, PrStep(c) PROVE IInv'
  BY <1>1, PrStepIInv
<1>2. ASSUME NEW c \in Callers, NEW p \in Ports, fme_pr(c, p) PROVE IInv'
  <2>1. pr' \in [Callers -> [pc : PrPc, port : Ports]]
    BY <1>2 DEF fme_pr, IInv, TypeOK, PrPc
  <2>2. /\ pr'[c].pc = "wait"
        /\ \A d \in Callers \ {c} : pr'[d] = pr[d]
    BY <1>2 DEF fme_pr, IInv, TypeOK
  <2>3. TypeOK'
    BY <1>2, <2>1, PortReconfigAssumption DEF fme_pr, IInv, TypeOK, lockVars
  <2> QED
    BY <1>2, <2>2, <2>3
       DEF fme_pr, lockVars, IInv, CountIsReset, Serial, LoadCounted, InProgram, Loading
<1>3. ASSUME NEW p \in Ports, port_reset(p) \/ afu_port_err_clear(p) PROVE IInv'
  <2>1. PICK o \in port_reset_outcomes(port[p]) :
          /\ port' = [port EXCEPT ![p] = o.port]
          /\ reset_ret' \in {reset_ret, [reset_ret EXCEPT ![p] = o.ret]}
    BY <1>3 DEF port_reset, afu_port_err_clear
  <2>2. port[p] \in PortState /\ Good(port[p])
    BY DEF IInv, TypeOK, CountIsReset, Good
  <2>3. /\ o.port \in PortState /\ Good(o.port)
        /\ port[p].disable_count > 0 => o.port.disable_count > 0
        /\ o.ret \in {"ok", "ETIMEDOUT"}
    BY <2>2, ResetOutcome
  <2>4. UNCHANGED <<pr, lockVars, mgr_state, calls>>
    BY <1>3 DEF port_reset, afu_port_err_clear
  <2>5. TypeOK'
    BY <2>1, <2>3, <2>4 DEF IInv, TypeOK, lockVars
  <2>6. CountIsReset'
    BY <2>1, <2>3 DEF IInv, TypeOK, CountIsReset, Good
  <2>7. Serial'
    BY <2>4 DEF IInv, Serial, InProgram, Loading, lockVars
  <2>8. LoadCounted'
    BY <2>1, <2>3, <2>4 DEF IInv, TypeOK, LoadCounted, Loading
  <2> QED BY <2>5, <2>6, <2>7, <2>8 DEF IInv
<1>4. ASSUME NEW p \in Ports, hw_ack(p) PROVE IInv'
  <2>1. PICK q \in PortState : /\ q.disable_count = port[p].disable_count
                               /\ q.sftrst = port[p].sftrst
                               /\ port' = [port EXCEPT ![p] = q]
    <3>1. port' = [port EXCEPT ![p] = [port[p] EXCEPT !.ack = port[p].sftrst]]
      BY <1>4 DEF hw_ack, IInv, TypeOK
    <3> QED BY <3>1 DEF IInv, TypeOK, PortState
  <2>2. UNCHANGED <<pr, lockVars, mgr_state, reset_ret, calls>>
    BY <1>4 DEF hw_ack
  <2>3. TypeOK'
    BY <2>1, <2>2 DEF IInv, TypeOK, lockVars
  <2> QED
    BY <2>1, <2>2, <2>3
       DEF IInv, TypeOK, CountIsReset, Serial, LoadCounted, InProgram, Loading, lockVars
<1>5. ASSUME other_mgr_lock \/ other_mgr_unlock PROVE IInv'
  BY <1>5 DEF other_mgr_lock, other_mgr_unlock, IInv, TypeOK, Holder, CountIsReset, Serial,
              LoadCounted, InProgram, Loading
<1>6. CASE UNCHANGED vars
  BY <1>6 DEF vars, lockVars, IInv, TypeOK, CountIsReset, Serial, LoadCounted, InProgram, Loading
<1> QED BY <1>1, <1>2, <1>3, <1>4, <1>5, <1>6 DEF Next

\* The inductive invariant holds in every reachable state.
THEOREM ReconfigInvariance == Spec => []IInv
BY InitIInv, NextIInv, PTL DEF Spec

\* A port's reset bit and its disable_count agree, whatever times out or fails.
THEOREM ResetIsCounted == Spec => []CountIsReset
<1>1. IInv => CountIsReset
  BY DEF IInv
<1> QED BY <1>1, ReconfigInvariance, PTL

\* While the manager loads a region, users who reset its port do not take the
\* port out of reset.
THEOREM LoadKeepsReset == Spec => []HeldInReset
<1>1. IInv => HeldInReset
  BY DEF IInv, TypeOK, PortState, CountIsReset, LoadCounted, HeldInReset
<1> QED BY <1>1, ReconfigInvariance, PTL

-----------------------------------------------------------------------------
\* Whoever holds a lock is where the code has taken it and not yet let go of it.
HoldersMatch ==
  \A c \in Callers :
    /\ fme_lock = c => InProgram(c)
    /\ mgr_mutex = c => pr[c].pc \in {"bridges", "disable"} \/ Loading(c)
    /\ \A p \in Ports :
         /\ region_mutex[p] = c =>
              pr[c].port = p /\ (pr[c].pc \in {"mgr", "bridges", "disable"} \/ Loading(c))
         /\ bridge_mutex[p] = c =>
              pr[c].port = p /\ (pr[c].pc \in {"disable", "put"} \/ Loading(c))

\* fpga_bridges_put unlocks the bridges it finds on the list.
BridgesListed == \A p \in Ports : bridge_list[p] <=> bridge_mutex[p] # None

LocksMatch == HoldersMatch /\ BridgesListed

\* No lock is held at first.
LEMMA InitLocks == Init => LocksMatch
  BY PortReconfigAssumption DEF Init, LocksMatch, HoldersMatch, BridgesListed

\* err_put_br and the end of fme_pr let go of the bridge.
LEMMA BridgesPut ==
  ASSUME TypeOK, LocksMatch, NEW p \in Ports, fpga_bridges_put(p)
  PROVE  /\ bridge_mutex' = [bridge_mutex EXCEPT ![p] = None]
         /\ bridge_list' = [bridge_list EXCEPT ![p] = FALSE]
<1>1. bridge_list[p] <=> bridge_mutex[p] # None
  BY DEF LocksMatch, BridgesListed
<1>2. CASE bridge_list[p]
  BY <1>2 DEF fpga_bridges_put
<1>3. CASE ~bridge_list[p]
  BY <1>1, <1>3 DEF fpga_bridges_put
<1> QED BY <1>2, <1>3

\* err_put_br lets go of bridge, manager and region.
LEMMA FailReleases ==
  ASSUME IInv, LocksMatch, NEW c \in Callers, Loading(c) \/ pr[c].pc = "disable", program_fails(c)
  PROVE  LocksMatch'
<1> DEFINE p == pr[c].port
<1>1. p \in Ports
  BY DEF IInv, TypeOK
<1>2. /\ bridge_mutex' = [bridge_mutex EXCEPT ![p] = None]
      /\ bridge_list' = [bridge_list EXCEPT ![p] = FALSE]
  BY <1>1, BridgesPut DEF IInv, program_fails
<1>3. BridgesListed'
  BY <1>2 DEF IInv, TypeOK, LocksMatch, BridgesListed
<1>4. HoldersMatch'
  BY <1>1, <1>2, PortReconfigAssumption DEF IInv, TypeOK, LocksMatch, HoldersMatch, program_fails,
     Goto, InProgram, Loading
<1> QED BY <1>3, <1>4 DEF LocksMatch

\* Each step of a PR ioctl keeps the holders of the locks in their places.
LEMMA PrStepLocks ==
  ASSUME IInv, LocksMatch, NEW c \in Callers, PrStep(c)
  PROVE  LocksMatch'
<1>0. pr[c].port \in Ports /\ pr \in [Callers -> [pc : PrPc, port : Ports]] /\ c # None /\ c # Other
  BY PortReconfigAssumption DEF IInv, TypeOK
<1>1. CASE fme_pr_lock(c)
  BY <1>0, <1>1 DEF fme_pr_lock, Goto, LocksMatch, HoldersMatch, BridgesListed, InProgram, Loading
<1>2. CASE fpga_region_get(c)
  BY <1>0, <1>2 DEF fpga_region_get, Goto, LocksMatch, HoldersMatch, BridgesListed, InProgram,
     Loading
<1>3. CASE fpga_mgr_lock(c)
  BY <1>0, <1>3, PortReconfigAssumption DEF fpga_mgr_lock, Goto, IInv, TypeOK, LocksMatch,
     HoldersMatch, BridgesListed, InProgram, Loading
<1>4. CASE fme_region_get_bridges(c)
  <2>1. HoldersMatch'
    BY <1>0, <1>4, PortReconfigAssumption DEF fme_region_get_bridges, Goto, IInv, TypeOK,
       LocksMatch, HoldersMatch, InProgram, Loading
  <2>2. BridgesListed'
    BY <1>0, <1>4 DEF fme_region_get_bridges, IInv, TypeOK, LocksMatch, BridgesListed
  <2> QED BY <2>1, <2>2 DEF LocksMatch
<1>5. CASE fpga_bridges_disable(c)
  <2>1. CASE program_fails(c)
    BY <1>5, <2>1, FailReleases DEF fpga_bridges_disable
  <2>2. CASE Goto(c, "write_init") /\ UNCHANGED lockVars /\ pr[c].pc = "disable"
    BY <1>0, <2>2 DEF Goto, lockVars, LocksMatch, HoldersMatch, BridgesListed, InProgram, Loading
  <2> QED BY <1>5, <2>1, <2>2 DEF fpga_bridges_disable
<1>6. CASE fpga_mgr_write_init(c) \/ fpga_mgr_write(c) \/ fpga_mgr_write_complete(c)
  <2>1. Loading(c)
    BY <1>6 DEF fpga_mgr_write_init, fpga_mgr_write, fpga_mgr_write_complete, mgr_step, Loading
  <2>2. PICK pc \in {"write", "write_complete", "enable"} :
          program_fails(c) \/ (Goto(c, pc) /\ UNCHANGED lockVars)
    BY <1>6 DEF fpga_mgr_write_init, fpga_mgr_write, fpga_mgr_write_complete, mgr_step
  <2>3. CASE program_fails(c)
    BY <2>1, <2>3, FailReleases
  <2>4. CASE Goto(c, pc) /\ UNCHANGED lockVars
    BY <1>0, <2>1, <2>4 DEF Goto, lockVars, LocksMatch, HoldersMatch, BridgesListed, InProgram,
       Loading
  <2> QED BY <2>2, <2>3, <2>4
<1>7. CASE fpga_bridges_enable(c)
  <2>1. CASE program_fails(c)
    BY <1>7, <2>1, FailReleases DEF fpga_bridges_enable, Loading
  <2>2. CASE ~program_fails(c)
    BY <1>0, <1>7, <2>2, PortReconfigAssumption DEF fpga_bridges_enable, Goto, IInv, TypeOK,
       LocksMatch, HoldersMatch, BridgesListed, InProgram, Loading
  <2> QED BY <2>1, <2>2
<1>8. CASE fme_pr_put(c)
  <2>1. /\ bridge_mutex' = [bridge_mutex EXCEPT ![pr[c].port] = None]
        /\ bridge_list' = [bridge_list EXCEPT ![pr[c].port] = FALSE]
    BY <1>0, <1>8, BridgesPut DEF IInv, fme_pr_put
  <2>2. BridgesListed'
    BY <2>1 DEF IInv, TypeOK, LocksMatch, BridgesListed
  <2>3. HoldersMatch'
    BY <1>0, <1>8, <2>1, PortReconfigAssumption DEF fme_pr_put, Goto, IInv, TypeOK, LocksMatch,
       HoldersMatch, Loading
  <2> QED BY <2>2, <2>3 DEF LocksMatch
<1> QED BY <1>1, <1>2, <1>3, <1>4, <1>5, <1>6, <1>7, <1>8 DEF PrStep

\* So does every step of the system.
LEMMA NextLocks == IInv /\ LocksMatch /\ [Next]_vars => LocksMatch'
<1> SUFFICES ASSUME IInv, LocksMatch, [Next]_vars PROVE LocksMatch'
  OBVIOUS
<1>1. ASSUME NEW c \in Callers, PrStep(c) PROVE LocksMatch'
  BY <1>1, PrStepLocks
<1>2. ASSUME NEW c \in Callers, NEW p \in Ports, fme_pr(c, p) PROVE LocksMatch'
  BY <1>2 DEF fme_pr, lockVars, LocksMatch, HoldersMatch, BridgesListed, InProgram, Loading
<1>3. CASE UNCHANGED <<pr, lockVars>>
  BY <1>3 DEF lockVars, LocksMatch, HoldersMatch, BridgesListed, InProgram, Loading
<1>4. ASSUME other_mgr_lock \/ other_mgr_unlock PROVE LocksMatch'
  BY <1>4, PortReconfigAssumption DEF other_mgr_lock, other_mgr_unlock, LocksMatch, HoldersMatch,
     BridgesListed, InProgram, Loading
<1>5. ASSUME NEW p \in Ports, port_reset(p) \/ afu_port_err_clear(p) \/ hw_ack(p)
      PROVE  UNCHANGED <<pr, lockVars>>
  BY <1>5 DEF port_reset, afu_port_err_clear, hw_ack
<1>6. CASE UNCHANGED vars
  BY <1>3, <1>6 DEF vars
<1> QED BY <1>1, <1>2, <1>3, <1>4, <1>5, <1>6 DEF Next

\* Two PR ioctls never meet in the region code, and fme_pr leaves no lock of the
\* FME, the region, the bridge or the manager behind, on whatever path it ends.
THEOREM ReleasesLocks == Spec => []LocksReleased
<1>1. IInv /\ LocksMatch => LocksReleased
  <2> SUFFICES ASSUME IInv, LocksMatch PROVE LocksReleased
    OBVIOUS
  <2>1. \A c, d \in Callers : InProgram(c) /\ InProgram(d) => c = d
    BY DEF IInv, Serial
  <2>2. ASSUME \A c \in Callers : ~InProgram(c)
        PROVE  /\ fme_lock = None /\ mgr_mutex \in {None, Other}
               /\ \A p \in Ports : region_mutex[p] = None /\ bridge_mutex[p] = None
    BY <2>2 DEF IInv, TypeOK, Holder, LocksMatch, HoldersMatch, InProgram
  <2> QED BY <2>1, <2>2 DEF LocksReleased, LocksMatch, BridgesListed
<1> QED BY <1>1, InitLocks, NextLocks, ReconfigInvariance, PTL DEF Spec
=============================================================================
