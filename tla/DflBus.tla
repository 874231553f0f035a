------------------------------- MODULE DflBus -------------------------------
(***************************************************************************)
(* Binding of feature devices (dfl-fme, dfl-port, dfl-priv-feat): features *)
(* that the driver has an operation table for are served by it, the others *)
(* become devices of the DFL bus, which drivers of their own may bind.     *)
(* And the list of port operations, whose module may be unloaded.          *)
(* The code is the one for kernels from 5.4 on: before, the probe of       *)
(* dfl-priv-feat adds its attribute groups itself, and when that fails it  *)
(* ends without undoing the features, which is not modelled.               *)
(***************************************************************************)
EXTENDS Integers, Sequences, FiniteSets

CONSTANTS
  FDevs,     \* feature devices
  FKind,     \* driver of each: "fme", "port" or "priv"
  FFeats,    \* their features, in order: [id, guid, hdr]
  FDrvs,     \* feature drivers of each kind, in order: sets of [id, guid]
  DflDrvs,   \* drivers of the bus: name -> set of [type, id, guid]
  OpsUsers   \* FME bridges, which keep the port operations

NoGuid == "none"
NoDrv == "none"

ASSUME BusAssumption ==
  /\ FKind \in [FDevs -> {"fme", "port", "priv"}]
  /\ FFeats \in [FDevs -> Seq([id : Nat, guid : STRING, hdr : BOOLEAN])]
  /\ NoDrv \notin DOMAIN DflDrvs

VARIABLES
  fd,     \* feature device -> where its probe is, private data, file, features
  ddrvs,  \* registered drivers of the DFL bus
  pops    \* the module of the port driver: its state, its operations' users

bus_vars == <<fd, ddrvs, pops>>

FeatOff == [ioaddr |-> FALSE, ops |-> FALSE, ddev |-> FALSE, drv |-> NoDrv]
BusInit ==
  /\ fd = [d \in FDevs |-> [pc |-> "off", at |-> 0, priv |-> FALSE, chr |-> FALSE,
                            f |-> [k \in DOMAIN FFeats[d] |-> [FeatOff EXCEPT !.ioaddr = FFeats[d][k].hdr]]]]
  /\ ddrvs = {}
  /\ pops = [mod |-> "gone", listed |-> FALSE, users |-> {}, stale |-> {}]

-----------------------------------------------------------------------------
(* Matching.                                                               *)

dfl_feature_drv_match(f, ids) == \E e \in ids : (f.guid # NoGuid /\ e.guid = f.guid) \/ e.id = f.id
dfl_match_one_device(e, d, f) == (f.guid # NoGuid /\ e.guid = f.guid) \/ (e.type = FKind[d] /\ e.id = f.id)
dfl_bus_match(x, d, k) == \E e \in DflDrvs[x] : dfl_match_one_device(e, d, FFeats[d][k])

\* The driver a new device of the bus gets, if any: a probe may fail.
dfl_bus_probe(d, k) == {NoDrv} \cup {x \in ddrvs : dfl_bus_match(x, d, k)}

\* Pairs of feature driver and feature in the order of initialisation.
DrvFeats(d) ==
  {p \in (DOMAIN FDrvs[FKind[d]]) \X (DOMAIN FFeats[d]) :
     dfl_feature_drv_match(FFeats[d][p[2]], FDrvs[FKind[d]][p[1]])}
Before(p, q) == p[1] < q[1] \/ (p[1] = q[1] /\ p[2] < q[2])

-----------------------------------------------------------------------------
(* Probe of a feature device.                                              *)

dfl_devs_remove(fs) == [k \in DOMAIN fs |-> [fs[k] EXCEPT !.ddev = FALSE, !.drv = NoDrv]]
feature_ops_uinit(fs) == [k \in DOMAIN fs |-> [fs[k] EXCEPT !.ops = FALSE]]

\* Devices of the bus go first, with their drivers, then the features served here.
dfl_fpga_dev_feature_uinit(fs) == feature_ops_uinit(dfl_devs_remove(fs))

\* The private data of the driver; a port driver exists while its module does.
fdev_init(d) ==
  /\ fd[d].pc = "off" /\ (FKind[d] = "port" => pops.mod = "live")
  /\ fd' = [fd EXCEPT ![d].pc = "init", ![d].priv = TRUE]
  /\ UNCHANGED <<ddrvs, pops>>

\* A probe that fails: private data is destroyed.
ProbeFails(d, fs) == fd' = [fd EXCEPT ![d] = [@ EXCEPT !.pc = "off", !.priv = FALSE, !.f = fs]]

\* Fault: the features that were initialised before the failing one stay so.
dfl_fpga_dev_feature_init_Leak(d) ==
  /\ fd[d].pc = "init"
  /\ LET m == DrvFeats(d) IN
     \/ fd' = [fd EXCEPT ![d].pc = "add", ![d].at = 1,
                         ![d].f = [k \in DOMAIN @ |-> IF \E p \in m : p[2] = k THEN [@[k] EXCEPT !.ioaddr = TRUE, !.ops = TRUE] ELSE @[k]]]
     \/ \E p \in m : ProbeFails(d, [k \in DOMAIN fd[d].f |-> [fd[d].f[k] EXCEPT !.ops = @ \/ \E q \in m : Before(q, p) /\ q[2] = k]])
  /\ UNCHANGED <<ddrvs, pops>>

\* Features with a driver are mapped and initialised in order; when one fails
\* those before it are undone.  The mapped address stays in the feature.
dfl_fpga_dev_feature_init(d) ==
  /\ fd[d].pc = "init"
  /\ LET m == DrvFeats(d)
         done(S) == [k \in DOMAIN fd[d].f |-> IF \E p \in S : p[2] = k THEN [fd[d].f[k] EXCEPT !.ioaddr = TRUE, !.ops = TRUE] ELSE fd[d].f[k]]
     IN  \/ fd' = [fd EXCEPT ![d].pc = "add", ![d].at = 1, ![d].f = done(m)]
         \/ \E p \in m : \E mapped \in BOOLEAN :
              LET fs == done({q \in m : Before(q, p)}) IN
              ProbeFails(d, dfl_fpga_dev_feature_uinit([fs EXCEPT ![p[2]].ioaddr = @ \/ mapped]))
  /\ UNCHANGED <<ddrvs, pops>>

\* The next feature: mapped ones have a driver here, for others a device is
\* added to the bus, and with it everything that probes it; or all is undone.
dfl_devs_add(d) ==
  /\ fd[d].pc = "add" /\ fd[d].at <= Len(FFeats[d])
  /\ LET k == fd[d].at IN
     \/ fd[d].f[k].ioaddr /\ fd' = [fd EXCEPT ![d].at = @ + 1]
     \/ /\ ~fd[d].f[k].ioaddr
        /\ \/ \E x \in dfl_bus_probe(d, k) : fd' = [fd EXCEPT ![d].at = @ + 1, ![d].f[k] = [@ EXCEPT !.ddev = TRUE, !.drv = x]]
           \/ ProbeFails(d, dfl_fpga_dev_feature_uinit(fd[d].f))
  /\ UNCHANGED <<ddrvs, pops>>

\* The character device is the last step; private features have none.
dfl_fpga_dev_ops_register(d) ==
  /\ fd[d].pc = "add" /\ fd[d].at > Len(FFeats[d])
  /\ \/ fd' = [fd EXCEPT ![d].pc = "bound", ![d].chr = FKind[d] # "priv"]
     \/ FKind[d] # "priv" /\ ProbeFails(d, dfl_fpga_dev_feature_uinit(fd[d].f))
  /\ UNCHANGED <<ddrvs, pops>>

-----------------------------------------------------------------------------
(* Removal, step by step in the order of the drivers' remove functions.    *)

dfl_fpga_dev_ops_unregister(d) ==
  /\ fd[d].pc = "bound"
  /\ fd' = [fd EXCEPT ![d].pc = "undev", ![d].chr = FALSE]
  /\ UNCHANGED <<ddrvs, pops>>

fdev_devs_remove(d) ==
  /\ fd[d].pc = "undev"
  /\ fd' = [fd EXCEPT ![d].pc = "unops", ![d].f = dfl_devs_remove(@)]
  /\ UNCHANGED <<ddrvs, pops>>

fdev_ops_uinit(d) ==
  /\ fd[d].pc = "unops"
  /\ fd' = [fd EXCEPT ![d].pc = "unpriv", ![d].f = dfl_fpga_dev_feature_uinit(@)]
  /\ UNCHANGED <<ddrvs, pops>>

fdev_destroy(d) ==
  /\ fd[d].pc = "unpriv"
  /\ fd' = [fd EXCEPT ![d].pc = "off", ![d].priv = FALSE]
  /\ UNCHANGED <<ddrvs, pops>>

-----------------------------------------------------------------------------
(* Drivers of the bus.                                                     *)

\* Each free device that matches is offered to the new driver.
dfl_driver_register(x) ==
  /\ x \notin ddrvs /\ ddrvs' = ddrvs \cup {x}
  /\ LET free == UNION {{<<d, k>> : k \in {j \in DOMAIN FFeats[d] : fd[d].f[j].ddev /\ fd[d].f[j].drv = NoDrv /\ dfl_bus_match(x, d, j)}} : d \in FDevs} IN
     \E got \in SUBSET free :
       fd' = [d \in FDevs |-> [fd[d] EXCEPT !.f = [k \in DOMAIN @ |-> IF <<d, k>> \in got THEN [@[k] EXCEPT !.drv = x] ELSE @[k]]]]
  /\ UNCHANGED pops

dfl_driver_unregister(x) ==
  /\ x \in ddrvs /\ ddrvs' = ddrvs \ {x}
  /\ fd' = [d \in FDevs |-> [fd[d] EXCEPT !.f = [k \in DOMAIN @ |-> IF @[k].drv = x THEN [@[k] EXCEPT !.drv = NoDrv] ELSE @[k]]]]
  /\ UNCHANGED pops

-----------------------------------------------------------------------------
(* Port operations.                                                        *)

\* A bridge looks the operations up on first use and pins their module, which
\* is refused once the module is going.
dfl_fpga_port_ops_get(u) ==
  /\ u \notin pops.users \cup pops.stale /\ pops.listed /\ pops.mod # "going"
  /\ pops' = [pops EXCEPT !.users = @ \cup {u}]
  /\ UNCHANGED <<fd, ddrvs>>

dfl_fpga_port_ops_put(u) ==
  /\ u \in pops.users \cup pops.stale
  /\ pops' = [pops EXCEPT !.users = @ \ {u}, !.stale = @ \ {u}]
  /\ UNCHANGED <<fd, ddrvs>>

\* Loading adds the operations before the driver is registered.
afu_init ==
  /\ pops.mod = "gone"
  /\ pops' = [pops EXCEPT !.mod = "coming", !.listed = TRUE]
  /\ UNCHANGED <<fd, ddrvs>>

\* When registering fails the module is freed, whoever pinned it meanwhile.
afu_init_registered ==
  /\ pops.mod = "coming"
  /\ \/ pops' = [pops EXCEPT !.mod = "live"]
     \/ pops' = [pops EXCEPT !.mod = "gone", !.listed = FALSE, !.users = {}, !.stale = @ \cup pops.users]
  /\ UNCHANGED <<fd, ddrvs>>

\* Unloading starts when nobody has the module pinned.  (A module's reference
\* count is the number of its users here.)
afu_exit ==
  /\ pops.mod = "live" /\ pops.users = {}
  /\ pops' = [pops EXCEPT !.mod = "going"]
  /\ UNCHANGED <<fd, ddrvs>>

\* The driver is gone from all ports before its operations leave the list.
afu_exit_ops_del ==
  /\ pops.mod = "going" /\ \A d \in FDevs : FKind[d] = "port" => fd[d].pc = "off"
  /\ pops' = [pops EXCEPT !.mod = "gone", !.listed = FALSE]
  /\ UNCHANGED <<fd, ddrvs>>

BusNext ==
  \/ \E d \in FDevs :
       \/ fdev_init(d) \/ dfl_fpga_dev_feature_init(d) \/ dfl_devs_add(d) \/ dfl_fpga_dev_ops_register(d)
       \/ dfl_fpga_dev_ops_unregister(d) \/ fdev_devs_remove(d) \/ fdev_ops_uinit(d) \/ fdev_destroy(d)
  \/ \E x \in DOMAIN DflDrvs : dfl_driver_register(x) \/ dfl_driver_unregister(x)
  \/ \E u \in OpsUsers : dfl_fpga_port_ops_get(u) \/ dfl_fpga_port_ops_put(u)
  \/ afu_init \/ afu_init_registered \/ afu_exit \/ afu_exit_ops_del

BusSpec == BusInit /\ [][BusNext]_bus_vars

-----------------------------------------------------------------------------
(* Properties.                                                             *)

\* Once dfl_fpga_dev_feature_init succeeded, every feature is served by exactly
\* one side: the feature device's own driver or a device of the bus; a failed
\* bind before, which leaves mapped addresses, does not change that.
DflServed ==
  \A d \in FDevs : fd[d].pc = "bound" =>
    \A k \in DOMAIN FFeats[d] : FFeats[d][k].hdr \/ (fd[d].f[k].ops # fd[d].f[k].ddev)

\* An unbound device has nothing left: no initialised feature, no device on the
\* bus, no driver of the bus at work, no private data, whichever step failed.
DflUnwound ==
  \A d \in FDevs : fd[d].pc = "off" =>
    ~fd[d].priv /\ ~fd[d].chr /\ \A k \in DOMAIN FFeats[d] : ~fd[d].f[k].ops /\ ~fd[d].f[k].ddev /\ fd[d].f[k].drv = NoDrv

\* A driver of the bus works on a feature only while all features served by the
\* feature device's driver, and its private data, are there.
DflDriversOnTop ==
  \A d \in FDevs : (\E k \in DOMAIN FFeats[d] : fd[d].f[k].drv # NoDrv) =>
    fd[d].priv /\ \A p \in DrvFeats(d) : fd[d].f[p[2]].ops

\* Who got the port operations from a loaded module keeps a module that is there:
\* unloading waits for dfl_fpga_port_ops_put.
PortOpsAlive == pops.users # {} => pops.mod \in {"coming", "live"}

\* Taken together: features are served once, on top of what they need, and are
\* unwound with it.
BusSound == DflServed /\ DflUnwound /\ DflDriversOnTop /\ PortOpsAlive
=============================================================================
