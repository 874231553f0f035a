------------------------------ MODULE PortDev ------------------------------
(***************************************************************************)
(* Ownership of the ports of one DFL container device.                     *)
(*                                                                         *)
(* A port is a platform device under the physical function (PF) that       *)
(* user space opens through a character device.  The FME ioctls            *)
(* PORT_RELEASE and PORT_ASSIGN take it away from the PF and give it back, *)
(* and the SR-IOV configuration routine turns released ports over to       *)
(* virtual functions (VFs).                                                *)
(*                                                                         *)
(* Release and assign hold cdev->lock from start to end (variable ctl),    *)
(* the counters of a port change under fdata->lock (one atomic step each), *)
(* and afu_open reads fdata->dev before it takes that lock.                *)
(***************************************************************************)
EXTENDS Naturals, FiniteSets

CONSTANTS
  Ports,    \* the ports of the container device
  NoPort,   \* no port
  Files,    \* struct file objects that user space may hold on a port
  MaxGen,   \* bound: platform devices registered per port
  MaxVfs    \* pci_sriov_get_totalvfs: the largest num_vfs the PCI core passes

ASSUME PortDevAssumption ==
  /\ IsFiniteSet(Ports) /\ NoPort \notin Ports
  /\ IsFiniteSet(Files)
  /\ MaxGen \in Nat \ {0}
  /\ MaxVfs \in Nat

NULL == 0   \* no platform device; generations count from 1

VARIABLES
  dev,         \* fdata->dev: generation of the registered platform device
  gen,         \* platform devices allocated for the port so far
  open_count,  \* fdata->open_count
  excl_open,   \* fdata->excl_open
  private,     \* fdata->private # NULL: the AFU driver is bound
  chrdev,      \* generation whose character device can be looked up
  regions,     \* the port has DMA regions
  triggers,    \* the port has interrupts bound to eventfds
  released_port_num,  \* cdev->released_port_num
  ctl,         \* holder of cdev->lock: [op, port] of a release or assign
  acc,         \* FME_PORT_OFST_ACC_CTRL: access mode of the port
  num_vfs,     \* VFs that exist
  sriov,       \* progress of cci_pci_sriov_configure: [op, n]
  file         \* per file: [st, port, cgen, fdev, excl]; cgen is the device its
               \* character device keeps alive, fdev is filp->private_data

fdataVars == <<dev, gen, open_count, excl_open, private, chrdev>>
resVars   == <<regions, triggers>>
cdevVars  == <<released_port_num, ctl>>
pciVars   == <<acc, num_vfs, sriov>>
vars      == <<fdataVars, resVars, cdevVars, pciVars, file>>

CtlOps   == {"free", "unregister", "clear", "add", "use_end"}
SriovOps == {"idle", "enabling", "pf_config"}
FileSt   == {"closed", "lookup", "read", "open"}

NoFile  == [st |-> "closed", port |-> NoPort, cgen |-> NULL, fdev |-> NULL, excl |-> FALSE]
Unlocked == [op |-> "free", port |-> NoPort]

OpenFiles(p) == {f \in Files : file[f].st = "open" /\ file[f].port = p}

ReleasedPorts == {p \in Ports : dev[p] = NULL}

CtlFree == ctl.op = "free"

\* The use count a release took is held until the assign gives it back.
Reserved(p) == dev[p] = NULL \/ ctl.port = p

\* The platform device is on its bus: a driver can be bound to it or unbound.
Added(p) == dev[p] # NULL /\ ~(ctl.port = p /\ ctl.op \in {"clear", "add"})

TypeOK ==
  /\ dev \in [Ports -> 0..MaxGen]
  /\ gen \in [Ports -> 1..MaxGen]
  /\ open_count \in [Ports -> Nat]
  /\ excl_open \in [Ports -> BOOLEAN]
  /\ private \in [Ports -> BOOLEAN]
  /\ chrdev \in [Ports -> 0..MaxGen]
  /\ regions \in [Ports -> BOOLEAN]
  /\ triggers \in [Ports -> BOOLEAN]
  /\ released_port_num \in Nat
  /\ ctl \in [op : CtlOps, port : Ports \cup {NoPort}]
  /\ ctl.op # "free" => ctl.port \in Ports
  /\ acc \in [Ports -> {"PF", "VF"}]
  /\ num_vfs \in 0..MaxVfs
  /\ sriov \in [op : SriovOps, n : 0..MaxVfs]
  /\ file \in [Files -> [st : FileSt, port : Ports \cup {NoPort},
                         cgen : 0..MaxGen, fdev : 0..MaxGen, excl : BOOLEAN]]
  /\ \A f \in Files : file[f].st # "closed" => file[f].port \in Ports

\* After enumeration every port is registered, bound and in PF access mode.
Init ==
  /\ dev = [p \in Ports |-> 1]
  /\ gen = [p \in Ports |-> 1]
  /\ open_count = [p \in Ports |-> 0]
  /\ excl_open = [p \in Ports |-> FALSE]
  /\ private = [p \in Ports |-> TRUE]
  /\ chrdev = [p \in Ports |-> 1]
  /\ regions = [p \in Ports |-> FALSE]
  /\ triggers = [p \in Ports |-> FALSE]
  /\ released_port_num = 0
  /\ ctl = Unlocked
  /\ acc = [p \in Ports |-> "PF"]
  /\ num_vfs = 0
  /\ sriov = [op |-> "idle", n |-> 0]
  /\ file = [f \in Files |-> NoFile]

-----------------------------------------------------------------------------
(* Use count of a feature device; the callers hold fdata->lock.            *)

use_begin_ok(p, excl) == ~excl_open[p] /\ (excl => open_count[p] = 0)

use_begin(p, excl) ==
  /\ use_begin_ok(p, excl)
  /\ excl_open' = [excl_open EXCEPT ![p] = excl]
  /\ open_count' = [open_count EXCEPT ![p] = @ + 1]

use_count_after_end(p) == IF open_count[p] > 0 THEN open_count[p] - 1 ELSE open_count[p]

use_end(p) ==
  /\ excl_open' = [excl_open EXCEPT ![p] = FALSE]
  /\ open_count' = [open_count EXCEPT ![p] = use_count_after_end(p)]

-----------------------------------------------------------------------------
(* Files.                                                                  *)

\* chrdev_open found the character device and holds a reference on it.
chrdev_open(f, p) ==
  /\ file[f].st = "closed"
  /\ chrdev[p] # NULL
  /\ \E excl \in BOOLEAN :
       file' = [file EXCEPT ![f] = [st |-> "lookup", port |-> p, cgen |-> chrdev[p],
                                    fdev |-> NULL, excl |-> excl]]
  /\ UNCHANGED <<fdataVars, resVars, cdevVars, pciVars>>

\* afu_open up to mutex_lock: fdata->dev is read without a lock.
afu_open_read(f) ==
  LET p == file[f].port IN
  /\ file[f].st = "lookup"
  /\ file' = [file EXCEPT ![f] = [st |-> "read", port |-> p, cgen |-> file[f].cgen,
                                  fdev |-> dev[p], excl |-> file[f].excl]]
  /\ UNCHANGED <<fdataVars, resVars, cdevVars, pciVars>>

\* The rest of afu_open, under fdata->lock.
afu_open(f) ==
  LET p == file[f].port IN
  /\ file[f].st = "read"
  /\ \/ /\ use_begin(p, file[f].excl)
        /\ file' = [file EXCEPT ![f].st = "open"]
     \/ /\ ~use_begin_ok(p, file[f].excl)
        /\ file' = [file EXCEPT ![f] = NoFile]
        /\ UNCHANGED <<open_count, excl_open>>
  /\ UNCHANGED <<dev, gen, private, chrdev, resVars, cdevVars, pciVars>>

\* The ioctls that leave something behind.  A NULL private_data or private is
\* a kernel oops, after which the file is never used again.
afu_ioctl_map(f) ==
  LET p == file[f].port IN
  /\ file[f].st = "open" /\ file[f].fdev # NULL /\ private[p]
  /\ regions' = [regions EXCEPT ![p] = TRUE]
  /\ UNCHANGED <<fdataVars, triggers, cdevVars, pciVars, file>>

afu_ioctl_set_irq(f) ==
  LET p == file[f].port IN
  /\ file[f].st = "open" /\ file[f].fdev # NULL /\ private[p]
  /\ triggers' = [triggers EXCEPT ![p] = TRUE]
  /\ UNCHANGED <<fdataVars, regions, cdevVars, pciVars, file>>

\* The last user takes the interrupts and the DMA regions of the port down;
\* destroying regions without private data is an oops.
afu_release(f) ==
  LET p    == file[f].port
      last == use_count_after_end(p) = 0
  IN
  /\ file[f].st = "open" /\ file[f].fdev # NULL
  /\ last => private[p]
  /\ use_end(p)
  /\ regions' = [regions EXCEPT ![p] = @ /\ ~last]
  /\ triggers' = [triggers EXCEPT ![p] = @ /\ ~last]
  /\ file' = [file EXCEPT ![f] = NoFile]
  /\ UNCHANGED <<dev, gen, private, chrdev, cdevVars, pciVars>>

-----------------------------------------------------------------------------
(* The AFU driver is bound to and unbound from a registered device.        *)

afu_probe(p) ==
  /\ Added(p) /\ ~private[p]
  /\ private' = [private EXCEPT ![p] = TRUE]
  /\ chrdev' = [chrdev EXCEPT ![p] = dev[p]]
  /\ UNCHANGED <<dev, gen, open_count, excl_open, resVars, cdevVars, pciVars, file>>

\* afu_remove deletes the character device, destroys the regions and drops
\* the private data; nobody asks whether the port is open.
afu_remove_effect(p) ==
  /\ chrdev' = [chrdev EXCEPT ![p] = NULL]
  /\ private' = [private EXCEPT ![p] = FALSE]
  /\ regions' = [regions EXCEPT ![p] = FALSE]

afu_remove(p) ==
  /\ Added(p) /\ private[p]
  /\ afu_remove_effect(p)
  /\ UNCHANGED <<dev, gen, open_count, excl_open, triggers, cdevVars, pciVars, file>>

-----------------------------------------------------------------------------
(* PORT_RELEASE: the whole of it under cdev->lock.                         *)

\* Fault: the release takes the port like an ordinary open.
release_port_Shared(p) ==
  /\ CtlFree
  /\ dev[p] # NULL
  /\ use_begin(p, FALSE)
  /\ ctl' = [op |-> "unregister", port |-> p]
  /\ UNCHANGED <<dev, gen, private, chrdev, resVars, released_port_num, pciVars, file>>

release_port(p) ==
  /\ CtlFree
  /\ dev[p] # NULL
  /\ use_begin(p, TRUE)
  /\ ctl' = [op |-> "unregister", port |-> p]
  /\ UNCHANGED <<dev, gen, private, chrdev, resVars, released_port_num, pciVars, file>>

\* platform_device_unregister: the driver, if bound, is removed.
release_unregister ==
  /\ ctl.op = "unregister"
  /\ afu_remove_effect(ctl.port)
  /\ ctl' = [ctl EXCEPT !.op = "clear"]
  /\ UNCHANGED <<dev, gen, open_count, excl_open, triggers, released_port_num, pciVars, file>>

release_done ==
  /\ ctl.op = "clear"
  /\ dev' = [dev EXCEPT ![ctl.port] = NULL]
  /\ released_port_num' = released_port_num + 1
  /\ ctl' = Unlocked
  /\ UNCHANGED <<gen, open_count, excl_open, private, chrdev, resVars, pciVars, file>>

-----------------------------------------------------------------------------
(* PORT_ASSIGN: the whole of it under cdev->lock.                          *)

\* feature_dev_register publishes fdata->dev before the device is added.
assign_port(p) ==
  /\ CtlFree
  /\ dev[p] = NULL
  /\ gen[p] < MaxGen
  /\ gen' = [gen EXCEPT ![p] = @ + 1]
  /\ dev' = [dev EXCEPT ![p] = gen[p] + 1]
  /\ ctl' = [op |-> "add", port |-> p]
  /\ UNCHANGED <<open_count, excl_open, private, chrdev, resVars, released_port_num, pciVars, file>>

\* platform_device_add succeeds; the probe it triggers may fail on its own.
assign_add ==
  /\ ctl.op = "add"
  /\ \E bound \in BOOLEAN :
       /\ private' = [private EXCEPT ![ctl.port] = bound]
       /\ chrdev' = [chrdev EXCEPT ![ctl.port] = IF bound THEN dev[ctl.port] ELSE NULL]
  /\ ctl' = [ctl EXCEPT !.op = "use_end"]
  /\ UNCHANGED <<dev, gen, open_count, excl_open, resVars, released_port_num, pciVars, file>>

\* Fault: the error path counts the port as assigned.
assign_fail_Counts ==
  /\ ctl.op = "add"
  /\ dev' = [dev EXCEPT ![ctl.port] = NULL]
  /\ released_port_num' = released_port_num - 1
  /\ ctl' = Unlocked
  /\ UNCHANGED <<gen, open_count, excl_open, private, chrdev, resVars, pciVars, file>>

\* An error in feature_dev_register: the device is put and the port stays released.
assign_fail ==
  /\ ctl.op = "add"
  /\ dev' = [dev EXCEPT ![ctl.port] = NULL]
  /\ ctl' = Unlocked
  /\ UNCHANGED <<gen, open_count, excl_open, private, chrdev, resVars, released_port_num, pciVars, file>>

\* Fault: the use the release took is not ended.
assign_done_KeepsUse ==
  /\ ctl.op = "use_end"
  /\ released_port_num' = released_port_num - 1
  /\ ctl' = Unlocked
  /\ UNCHANGED <<dev, gen, open_count, excl_open, private, chrdev, resVars, pciVars, file>>

assign_done ==
  /\ ctl.op = "use_end"
  /\ use_end(ctl.port)
  /\ released_port_num' = released_port_num - 1
  /\ ctl' = Unlocked
  /\ UNCHANGED <<dev, gen, private, chrdev, resVars, pciVars, file>>

-----------------------------------------------------------------------------
(* SR-IOV; the PCI core serialises the calls and passes n > 0 only while   *)
(* there are no VFs.  cdev->lock is taken for each configuration only.     *)

\* Fault: the number of released ports is not compared with num_vfs.
config_ports_vf_ok_AnyCount(n) == n > 0

config_ports_vf_ok(n) == ReleasedPorts # {} => released_port_num = n

sriov_enable(n) ==
  /\ sriov.op = "idle" /\ num_vfs = 0
  /\ CtlFree
  /\ config_ports_vf_ok(n)
  /\ acc' = [p \in Ports |-> IF p \in ReleasedPorts THEN "VF" ELSE acc[p]]
  /\ sriov' = [op |-> "enabling", n |-> n]
  /\ UNCHANGED <<fdataVars, resVars, cdevVars, num_vfs, file>>

\* pci_enable_sriov creates the VFs or fails.
pci_enable_sriov ==
  /\ sriov.op = "enabling"
  /\ \/ /\ num_vfs' = sriov.n
        /\ sriov' = [op |-> "idle", n |-> 0]
     \/ /\ sriov' = [op |-> "pf_config", n |-> 0]
        /\ UNCHANGED num_vfs
  /\ UNCHANGED <<fdataVars, resVars, cdevVars, acc, file>>

pci_disable_sriov ==
  /\ sriov.op = "idle" /\ num_vfs > 0
  /\ num_vfs' = 0
  /\ sriov' = [op |-> "pf_config", n |-> 0]
  /\ UNCHANGED <<fdataVars, resVars, cdevVars, acc, file>>

config_ports_pf ==
  /\ sriov.op = "pf_config"
  /\ CtlFree
  /\ acc' = [p \in Ports |-> IF p \in ReleasedPorts THEN "PF" ELSE acc[p]]
  /\ sriov' = [op |-> "idle", n |-> 0]
  /\ UNCHANGED <<fdataVars, resVars, cdevVars, num_vfs, file>>

-----------------------------------------------------------------------------
Next ==
  \/ \E f \in Files, p \in Ports : chrdev_open(f, p)
  \/ \E f \in Files : \/ afu_open_read(f)
                      \/ afu_open(f)
                      \/ afu_ioctl_map(f)
                      \/ afu_ioctl_set_irq(f)
                      \/ afu_release(f)
  \/ \E p \in Ports : \/ afu_probe(p)
                      \/ afu_remove(p)
                      \/ release_port(p)
                      \/ assign_port(p)
  \/ release_unregister
  \/ release_done
  \/ assign_add
  \/ assign_fail
  \/ assign_done
  \/ \E n \in 1..MaxVfs : sriov_enable(n)
  \/ pci_enable_sriov
  \/ pci_disable_sriov
  \/ config_ports_pf

Spec == Init /\ [][Next]_vars

-----------------------------------------------------------------------------
(* Properties.                                                             *)

\* fdata->open_count is exactly the number of open files plus the one use a
\* release holds from dfl_fpga_cdev_release_port until assign_port ends it,
\* whatever opens, closes, releases, failed assigns and unbinds interleave.
UseCountExact ==
  \A p \in Ports : open_count[p] = Cardinality(OpenFiles(p)) + (IF Reserved(p) THEN 1 ELSE 0)

\* An O_EXCL open, or a release, is the only user: while excl_open is set the
\* count is one, and it stays set until that one user is done.
ExclusiveUserAlone ==
  \A p \in Ports :
    /\ excl_open[p] => open_count[p] = 1
    /\ Reserved(p) => excl_open[p]
    /\ \A f \in OpenFiles(p) : file[f].excl = excl_open[p]

\* The count config_ports_vf compares with num_vfs is the number of ports
\* that are released, whenever cdev->lock is free.
ReleasedCountExact ==
  CtlFree => released_port_num = Cardinality(ReleasedPorts)

\* "After release a port from PF, then it's safe to expose this port": nobody
\* has a released port open and nothing a user set up on it is left, so no VF
\* inherits DMA mappings or interrupts of a host process.
ReleasedPortClean ==
  \A p \in ReleasedPorts : OpenFiles(p) = {} /\ ~regions[p] /\ ~triggers[p]

\* A port nobody uses keeps no DMA region and no interrupt trigger: the last
\* close took them down.
UnusedPortClean ==
  \A p \in Ports : open_count[p] = 0 => ~regions[p] /\ ~triggers[p]

\* Ports go over to a VF only while they are released, and as many at once as
\* there will be VFs; a port registered on the PF never changes its mode.
ModeChangesOnlyWhenReleased ==
  [][\A p \in Ports : acc'[p] # acc[p] =>
       /\ dev[p] = NULL /\ dev'[p] = NULL
       /\ acc'[p] = "VF" => Cardinality(ReleasedPorts) = sriov'.n]_vars

-----------------------------------------------------------------------------
(* The inductive invariant behind the properties above.                    *)

\* cdev->lock is held exactly while a release or an assign is at work on a
\* port that is registered, and the count is behind by the assign under way.
CtlPhase ==
  /\ CtlFree <=> ctl.port = NoPort
  /\ ~CtlFree => dev[ctl.port] # NULL
  /\ released_port_num =
       Cardinality(ReleasedPorts) + (IF ctl.op \in {"add", "use_end"} THEN 1 ELSE 0)

\* A port without open files has no regions and no triggers.
NothingLeft ==
  \A p \in Ports : OpenFiles(p) = {} => ~regions[p] /\ ~triggers[p]

IInv == TypeOK /\ CtlPhase /\ UseCountExact /\ ExclusiveUserAlone /\ NothingLeft
=============================================================================
