------------------------------- MODULE PciSva -------------------------------
(***************************************************************************)
(* Shared virtual addressing: a misc device per PCIe function through      *)
(* which processes bind their address space (a PASID) to the function.     *)
(* The function can be removed, and added again, while files are open; the *)
(* dfl_sva_dev then lives until the last of them is closed.  Opens run     *)
(* under the mutex of the misc devices, which deregistration needs too.    *)
(***************************************************************************)
EXTENDS Integers, FiniteSets

CONSTANTS
  SvaFiles,
  SvaProcs,
  SvaNull,
  MaxSvaDevs   \* bound: dfl_sva_devs allocated

ASSUME SvaAssumption ==
  /\ SvaNull \notin SvaProcs \cup SvaFiles \cup {"del"}
  /\ MaxSvaDevs \in Nat

VARIABLES
  sva_dev,      \* per dfl_sva_dev: "none", "live", "nopdev" (pdev is NULL) or "freed"
  sva_listed,   \* dfl_dev_list
  sva_features, \* IOPF and SVA are enabled on the function
  sva_file,     \* per file: state, its dfl_sva_dev and the process of its handle
  sva_bound,    \* bindings the IOMMU has: pairs of a file and a process
  misc_mtx, sva_mutex,  \* holders: a file in open, or "del"
  del_pc        \* the removal under way

sva_vars == <<sva_dev, sva_listed, sva_features, sva_file, sva_bound, misc_mtx, sva_mutex, del_pc>>

SvaDevs == 1..MaxSvaDevs
SvaClosed == [st |-> "none", dev |-> 0, handle |-> SvaNull]
SvaList(d) == {f \in SvaFiles : sva_file[f].st = "open" /\ sva_file[f].dev = d}
SvaFree(d) == sva_mutex[d] = SvaNull
\* A file whose call would take the mutex of its device.
SvaCall(f) == sva_file[f].st = "open" /\ SvaFree(sva_file[f].dev)

SvaInit ==
  /\ sva_dev = [d \in SvaDevs |-> "none"]
  /\ sva_listed = {} /\ sva_features = FALSE
  /\ sva_file = [f \in SvaFiles |-> SvaClosed]
  /\ sva_bound = {}
  /\ misc_mtx = SvaNull /\ sva_mutex = [d \in SvaDevs |-> SvaNull]
  /\ del_pc = [pc |-> "none", dev |-> 0]

\* A function that is already listed, or whose features cannot be enabled, is
\* not added.
dfl_pci_sva_add_dev(d) ==
  /\ del_pc.pc = "none" /\ sva_listed = {}
  /\ sva_dev[d] = "none" /\ \A e \in 1..(d - 1) : sva_dev[e] # "none"
  /\ sva_features' = TRUE
  /\ sva_dev' = [sva_dev EXCEPT ![d] = "live"]
  /\ sva_listed' = {d}
  /\ UNCHANGED <<sva_file, sva_bound, misc_mtx, sva_mutex, del_pc>>

\* misc_open (external) finds the registered device and keeps misc_mtx for the
\* driver's open.
misc_open(f, d) ==
  /\ sva_file[f].st = "none" /\ misc_mtx = SvaNull
  /\ sva_dev[d] = "live"
  /\ misc_mtx' = f
  /\ sva_file' = [sva_file EXCEPT ![f] = [st |-> "opening", dev |-> d, handle |-> SvaNull]]
  /\ UNCHANGED <<sva_dev, sva_listed, sva_features, sva_bound, sva_mutex, del_pc>>

dfl_pci_sva_open(f) ==
  LET d == sva_file[f].dev IN
  /\ sva_file[f].st = "opening" /\ SvaFree(d)
  /\ misc_mtx' = SvaNull
  /\ \/ sva_dev[d] = "live" /\ sva_file' = [sva_file EXCEPT ![f].st = "open"]
     \/ sva_file' = [sva_file EXCEPT ![f] = SvaClosed]   \* EBUSY without pdev, ENOMEM
  /\ UNCHANGED <<sva_dev, sva_listed, sva_features, sva_bound, sva_mutex, del_pc>>

\* A file that has a handle returns its PASID, whichever process asks.
ioctl_sva_bind_dev(f, p) ==
  /\ SvaCall(f) /\ sva_dev[sva_file[f].dev] = "live"
  /\ sva_file[f].handle = SvaNull
  /\ sva_file' = [sva_file EXCEPT ![f].handle = p]
  /\ sva_bound' = sva_bound \cup {<<f, p>>}
  /\ UNCHANGED <<sva_dev, sva_listed, sva_features, misc_mtx, sva_mutex, del_pc>>

ioctl_sva_unbind_dev(f) ==
  /\ SvaCall(f) /\ sva_dev[sva_file[f].dev] = "live"
  /\ sva_file[f].handle # SvaNull
  /\ sva_bound' = sva_bound \ {<<f, sva_file[f].handle>>}
  /\ sva_file' = [sva_file EXCEPT ![f].handle = SvaNull]
  /\ UNCHANGED <<sva_dev, sva_listed, sva_features, misc_mtx, sva_mutex, del_pc>>

dfl_pci_sva_release(f) ==
  LET d == sva_file[f].dev IN
  /\ SvaCall(f)
  /\ sva_bound' = sva_bound \ {<<f, sva_file[f].handle>>}
  /\ sva_file' = [sva_file EXCEPT ![f] = SvaClosed]
  /\ sva_dev' = IF sva_dev[d] = "nopdev" /\ SvaList(d) = {f} THEN [sva_dev EXCEPT ![d] = "freed"] ELSE sva_dev
  /\ UNCHANGED <<sva_listed, sva_features, misc_mtx, sva_mutex, del_pc>>

-----------------------------------------------------------------------------
(* Removal of the function, or of the module.                              *)

dfl_pci_sva_del_dev(d) ==
  /\ del_pc.pc = "none" /\ d \in sva_listed /\ SvaFree(d)
  /\ sva_listed' = sva_listed \ {d}
  /\ sva_mutex' = [sva_mutex EXCEPT ![d] = "del"]
  /\ del_pc' = [pc |-> "deregister", dev |-> d]
  /\ UNCHANGED <<sva_dev, sva_features, sva_file, sva_bound, misc_mtx>>

\* Fault: bindings of open files are left to their close.
del_dfl_mdev_KeepsBindings ==
  LET d == del_pc.dev IN
  /\ del_pc.pc = "deregister" /\ misc_mtx = SvaNull
  /\ sva_features' = FALSE
  /\ sva_dev' = [sva_dev EXCEPT ![d] = IF SvaList(d) = {} THEN "freed" ELSE "nopdev"]
  /\ sva_mutex' = [sva_mutex EXCEPT ![d] = SvaNull]
  /\ del_pc' = [pc |-> "none", dev |-> 0]
  /\ UNCHANGED <<sva_listed, sva_bound, sva_file, misc_mtx>>

\* misc_deregister waits for misc_mtx; then all handles are unbound, the
\* features disabled and the device freed, unless files hold it.
del_dfl_mdev ==
  LET d == del_pc.dev IN
  /\ del_pc.pc = "deregister" /\ misc_mtx = SvaNull
  /\ sva_bound' = {b \in sva_bound : b[1] \notin SvaList(d)}
  /\ sva_file' = [f \in SvaFiles |-> IF f \in SvaList(d) THEN [sva_file[f] EXCEPT !.handle = SvaNull] ELSE sva_file[f]]
  /\ sva_features' = FALSE
  /\ sva_dev' = [sva_dev EXCEPT ![d] = IF SvaList(d) = {} THEN "freed" ELSE "nopdev"]
  /\ sva_mutex' = [sva_mutex EXCEPT ![d] = SvaNull]
  /\ del_pc' = [pc |-> "none", dev |-> 0]
  /\ UNCHANGED <<sva_listed, misc_mtx>>

SvaNext ==
  \/ \E d \in SvaDevs : dfl_pci_sva_add_dev(d) \/ dfl_pci_sva_del_dev(d)
  \/ \E f \in SvaFiles :
       \/ \E d \in SvaDevs : misc_open(f, d)
       \/ dfl_pci_sva_open(f)
       \/ \E p \in SvaProcs : ioctl_sva_bind_dev(f, p)
       \/ ioctl_sva_unbind_dev(f) \/ dfl_pci_sva_release(f)
  \/ del_dfl_mdev

SvaSpec == SvaInit /\ [][SvaNext]_sva_vars

-----------------------------------------------------------------------------
(* Properties.                                                             *)

\* The IOMMU has exactly the bindings of the handles of open files, and only
\* while the features of the function are enabled: a removal unbinds what
\* open files hold before del_dfl_mdev disables them, and nothing is bound
\* to a function that is gone.
SvaBindingsOwned ==
  /\ sva_bound = {<<f, sva_file[f].handle>> : f \in {g \in SvaFiles : sva_file[g].handle # SvaNull}}
  /\ sva_bound # {} => sva_features

\* A dfl_sva_dev is freed exactly when the function is gone and no file is open
\* on it, although the mutex inside it is held by whoever frees it: no open,
\* call or close of a file meets a freed device.
SvaFreedWhenUnused ==
  \A d \in SvaDevs :
    /\ sva_dev[d] = "freed" => \A f \in SvaFiles : sva_file[f].dev # d
    /\ sva_dev[d] = "nopdev" => SvaList(d) # {}

\* Taken together: neither a binding nor a device outlives its owners or is
\* taken from them, in whatever order removal, close and open come.
SvaOwnership == SvaBindingsOwned /\ SvaFreedWhenUnused
=============================================================================
