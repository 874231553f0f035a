----------------------------- MODULE DmaRegions -----------------------------
(***************************************************************************)
(* The DMA regions of an AFU: user memory that is pinned, mapped for the   *)
(* device and kept in a tree by its device address (iova).  A map pins and *)
(* maps before it takes the lock of the port, and an unmap lets go after   *)
(* it dropped the lock, so ioctls of several threads interleave there; the *)
(* last close destroys what is left.  Lengths and addresses are in pages.  *)
(***************************************************************************)
EXTENDS Integers, FiniteSets, FiniteSetsExt, Functions, TLC

CONSTANTS
  DmaThreads,   \* threads in an ioctl
  Procs,        \* processes that share the open file
  ProcOf,       \* the process of each thread
  Pages,        \* user pages, consecutive numbers
  Pfn,          \* the page frame of each user page
  Iovas,        \* what an IOMMU gives out
  Legacy,       \* built for a kernel before 5.3
  MemLock,      \* RLIMIT_MEMLOCK, in pages
  MaxRegions    \* bound: regions that exist at a time

ASSUME DmaAssumption ==
  /\ ProcOf \in [DmaThreads -> Procs] /\ IsFiniteSet(Procs)
  /\ Pages \subseteq Nat /\ IsFiniteSet(Pages) /\ Pfn \in [Pages -> Nat \ {0}]
  /\ Iovas \subseteq Nat \ {0}
  /\ Legacy \in BOOLEAN /\ MemLock \in Nat /\ MaxRegions \in Nat

VARIABLES
  dma_iommu,    \* addresses are translated; otherwise an iova is a page frame
  dma_regions,  \* afu->dma_regions
  dma_op,       \* per thread: where its ioctl is and the region it works on
  page_pins,    \* per user page: references the driver holds
  dma_mapped,   \* device mappings, as regions
  locked_vm,    \* per process: mm->locked_vm
  dma_fds       \* some file of the port is open

dma_vars == <<dma_iommu, dma_regions, dma_op, page_pins, dma_mapped, locked_vm, dma_fds>>

Regions == [id : 1..MaxRegions, user_addr : Pages, length : 1..Cardinality(Pages), iova : Nat, by : Procs]
NoRegion == [id |-> 0, iova |-> 0]
PagesOf(r) == {p \in Pages : r.user_addr <= p /\ p < r.user_addr + r.length}
DmaIdle == [pc |-> "none", region |-> NoRegion]
InOp(t) == IF dma_op[t].pc \in {"pinned", "mapped", "unmapping", "unpinning"}
           THEN {dma_op[t].region} ELSE {}
\* Regions whose pages are pinned: in the tree, or on the way in or out.
LiveRegions == dma_regions \cup UNION {InOp(t) : t \in DmaThreads}
FreeId == Min(1..MaxRegions \ {r.id : r \in LiveRegions})

DmaInit ==
  /\ dma_iommu = FALSE
  /\ dma_regions = {}
  /\ dma_op = [t \in DmaThreads |-> DmaIdle]
  /\ page_pins = [p \in Pages |-> 0]
  /\ dma_mapped = {}
  /\ locked_vm = [m \in Procs |-> 0]
  /\ dma_fds = FALSE

-----------------------------------------------------------------------------
(* Pinning.                                                                *)

Pin(ps, d) == [p \in Pages |-> page_pins[p] + (IF p \in ps THEN d ELSE 0)]
Account(m, n) == [locked_vm EXCEPT ![m] = @ + n]

\* locked_vm is unsigned: a process that was credited for more than it was
\* charged is over every limit.
adjust_locked_vm_inc(m, n) == locked_vm[m] + n \in 0..MemLock

\* Before 5.3 the helper of the driver clamps; account_locked_vm only warns.
adjust_locked_vm_dec(m, n) ==
  [locked_vm EXCEPT ![m] = IF Legacy /\ n > @ THEN 0 ELSE @ - n]

Pinned(m, r) == [ret |-> "ok", pins |-> Pin(PagesOf(r), 1), vm |-> Account(m, r.length)]
NotPinned(pins) == [ret |-> "error", pins |-> pins, vm |-> locked_vm]

\* Outcomes: over the limit, no memory or no page pinned; some pages pinned,
\* which the code for kernels before 5.3 does not put; all pinned.
afu_dma_pin_pages(m, r) ==
  LET kept == IF Legacy THEN Pin(PagesOf(r) \ {r.user_addr}, 1) ELSE page_pins IN
  {NotPinned(page_pins)} \cup
    IF adjust_locked_vm_inc(m, r.length) THEN {Pinned(m, r), NotPinned(kept)} ELSE {}

afu_dma_unpin_pages(t, r) ==
  /\ page_pins' = Pin(PagesOf(r), -1)
  /\ locked_vm' = adjust_locked_vm_dec(ProcOf[t], r.length)

afu_dma_check_continuous_pages(r) ==
  \A p \in PagesOf(r) : p + 1 \in PagesOf(r) => Pfn[p] + 1 = Pfn[p + 1]

-----------------------------------------------------------------------------
(* The tree.  Only regions with different addresses are in it, so a search *)
(* by address meets every region whose address is the nearest; which other *)
(* regions it meets depends on the shape the tree happens to have.         *)

dma_region_check_iova(r, iova, size) ==
  /\ size = 0 => r.iova = iova
  /\ r.iova <= iova /\ r.length + r.iova >= iova + size

\* Outcomes of a search for [iova, iova + size): a region that contains it, or
\* NoRegion when the region nearest to it from below does not.
afu_dma_region_find(tree, iova, size) ==
  LET below == {r \in tree : r.iova <= iova}
      nearest == {r \in below : \A q \in below : q.iova <= r.iova}
  IN
  {r \in below : dma_region_check_iova(r, iova, size)}
    \cup (IF \E r \in nearest : dma_region_check_iova(r, iova, size) THEN {} ELSE {NoRegion})

afu_dma_region_add(r) ==
  IF \E q \in dma_regions : q.iova = r.iova THEN {"EEXIST"}
  ELSE {IF q = NoRegion THEN "ok" ELSE "EEXIST" : q \in afu_dma_region_find(dma_regions, r.iova, r.length)}

-----------------------------------------------------------------------------
(* The ioctls.                                                             *)

DmaGoto(t, pc, r) == dma_op' = [dma_op EXCEPT ![t] = [pc |-> pc, region |-> r]]

dma_open ==
  /\ ~dma_fds /\ dma_fds' = TRUE
  /\ dma_iommu' \in BOOLEAN
  /\ UNCHANGED <<dma_regions, dma_op, page_pins, dma_mapped, locked_vm>>

\* Arguments that are not aligned, empty or overflow are refused; Pages has no others.
afu_dma_map_region(t, u, n) ==
  LET r == [id |-> FreeId, user_addr |-> u, length |-> n, iova |-> 0, by |-> ProcOf[t]] IN
  /\ dma_fds /\ dma_op[t].pc = "none"
  /\ u + n - 1 \in Pages
  /\ Cardinality(LiveRegions) < MaxRegions
  /\ \E o \in afu_dma_pin_pages(ProcOf[t], r) :
       /\ page_pins' = o.pins /\ locked_vm' = o.vm
       /\ dma_op' = [dma_op EXCEPT ![t] = IF o.ret = "ok" THEN [pc |-> "pinned", region |-> r] ELSE DmaIdle]
  /\ UNCHANGED <<dma_iommu, dma_regions, dma_mapped, dma_fds>>

\* dma_map_page (external): the page frame, or any addresses that are free.
MapsTo(r) ==
  IF ~dma_iommu THEN {Pfn[r.user_addr]}
  ELSE {a \in Iovas : \A q \in dma_mapped : a + r.length <= q.iova \/ q.iova + q.length <= a}

map_pinned(t) ==
  LET r == dma_op[t].region IN
  /\ dma_op[t].pc = "pinned"
  /\ \/ /\ afu_dma_check_continuous_pages(r)
        /\ \E a \in MapsTo(r) :
             LET m == [r EXCEPT !.iova = a] IN
             /\ DmaGoto(t, "mapped", m)
             /\ dma_mapped' = dma_mapped \cup {m}
        /\ UNCHANGED <<page_pins, locked_vm>>
     \/ /\ afu_dma_unpin_pages(t, r)     \* not continuous, or a mapping error
        /\ dma_op' = [dma_op EXCEPT ![t] = DmaIdle]
        /\ UNCHANGED dma_mapped
  /\ UNCHANGED <<dma_iommu, dma_regions, dma_fds>>

map_add(t) ==
  LET r == dma_op[t].region IN
  /\ dma_op[t].pc = "mapped"
  /\ \E ret \in afu_dma_region_add(r) :
       /\ DmaGoto(t, IF ret = "ok" THEN "copy" ELSE "unmapping", r)
       /\ dma_regions' = IF ret = "ok" THEN dma_regions \cup {r} ELSE dma_regions
  /\ UNCHANGED <<dma_iommu, page_pins, dma_mapped, locked_vm, dma_fds>>

\* The address is copied to the user; when that fails the region is unmapped
\* again, by its address.
map_copy(t) ==
  /\ dma_op[t].pc = "copy"
  /\ \/ dma_op' = [dma_op EXCEPT ![t] = DmaIdle]
     \/ DmaGoto(t, "unmap", dma_op[t].region)
  /\ UNCHANGED <<dma_iommu, dma_regions, page_pins, dma_mapped, locked_vm, dma_fds>>

afu_ioctl_dma_unmap(t, iova) ==
  /\ dma_fds /\ dma_op[t].pc = "none"
  /\ DmaGoto(t, "unmap", [NoRegion EXCEPT !.iova = iova])
  /\ UNCHANGED <<dma_iommu, dma_regions, page_pins, dma_mapped, locked_vm, dma_fds>>

\* Fault: the region is found and stays in the tree until it is unmapped.
afu_dma_unmap_region_Late(t) ==
  /\ dma_op[t].pc = "unmap"
  /\ \E r \in afu_dma_region_find(dma_regions, dma_op[t].region.iova, 0) :
       dma_op' = [dma_op EXCEPT ![t] = IF r = NoRegion THEN DmaIdle ELSE [pc |-> "unmapping", region |-> r]]
  /\ UNCHANGED <<dma_iommu, dma_regions, page_pins, dma_mapped, locked_vm, dma_fds>>

\* No code sets in_use, so a region that is found is removed.
afu_dma_unmap_region(t) ==
  /\ dma_op[t].pc = "unmap"
  /\ \E r \in afu_dma_region_find(dma_regions, dma_op[t].region.iova, 0) :
       /\ dma_op' = [dma_op EXCEPT ![t] = IF r = NoRegion THEN DmaIdle ELSE [pc |-> "unmapping", region |-> r]]
       /\ dma_regions' = dma_regions \ {r}
  /\ UNCHANGED <<dma_iommu, page_pins, dma_mapped, locked_vm, dma_fds>>

unmap_dma(t) ==
  /\ dma_op[t].pc = "unmapping"
  /\ dma_mapped' = dma_mapped \ {dma_op[t].region}
  /\ DmaGoto(t, "unpinning", dma_op[t].region)
  /\ UNCHANGED <<dma_iommu, dma_regions, page_pins, locked_vm, dma_fds>>

unmap_unpin(t) ==
  /\ dma_op[t].pc = "unpinning"
  /\ afu_dma_unpin_pages(t, dma_op[t].region)
  /\ dma_op' = [dma_op EXCEPT ![t] = DmaIdle]
  /\ UNCHANGED <<dma_iommu, dma_regions, dma_mapped, dma_fds>>

\* A region whose address is 0 would not be unmapped; no mapping has it.
afu_dma_region_destroy(t) ==
  /\ dma_regions' = {}
  /\ dma_mapped' = dma_mapped \ {r \in dma_regions : r.iova # 0}
  /\ page_pins' = [p \in Pages |-> page_pins[p] - Cardinality({r \in dma_regions : p \in PagesOf(r)})]
  /\ locked_vm' = adjust_locked_vm_dec(ProcOf[t], SumFunction([r \in dma_regions |-> r.length]))

\* The last close of the port: ioctls hold their file, so none is under way.
dma_last_close(t) ==
  /\ dma_fds /\ \A u \in DmaThreads : dma_op[u].pc = "none"
  /\ dma_fds' = FALSE
  /\ afu_dma_region_destroy(t)
  /\ UNCHANGED <<dma_iommu, dma_op>>

DmaNext ==
  \/ dma_open
  \/ \E t \in DmaThreads :
       \/ \E u \in Pages, n \in 1..Cardinality(Pages) : afu_dma_map_region(t, u, n)
       \/ map_pinned(t) \/ map_add(t) \/ map_copy(t)
       \/ \E a \in {r.iova : r \in LiveRegions} : afu_ioctl_dma_unmap(t, a)
       \/ afu_dma_unmap_region(t) \/ unmap_dma(t) \/ unmap_unpin(t)
       \/ dma_last_close(t)

-----------------------------------------------------------------------------
(* Properties.                                                             *)

\* The state has its type; in particular no page is unpinned more often than
\* it was pinned (put by unmap, by a failed map or by the last close).
DmaTypeOK ==
  /\ dma_iommu \in BOOLEAN /\ dma_fds \in BOOLEAN
  /\ dma_regions \subseteq Regions /\ dma_mapped \subseteq Regions
  /\ page_pins \in [Pages -> Nat]
  /\ locked_vm \in [Procs -> Int]
  /\ \A t \in DmaThreads :
       dma_op[t].pc \in {"none", "pinned", "mapped", "copy", "unmap", "unmapping", "unpinning"}

\* Every page is pinned once for each region that exists, whatever maps, unmaps
\* and failures overlapped: what afu_dma_pin_pages took is put exactly once.
PinsExact ==
  \A p \in Pages :
    page_pins[p] = Cardinality({r \in LiveRegions : p \in PagesOf(r)})

\* The device reaches only memory that is pinned: afu_dma_unmap_region unmaps
\* before it unpins and afu_dma_map_region pins before it maps.
MappedIsPinned == \A r \in dma_mapped : \A p \in PagesOf(r) : page_pins[p] > 0

\* A region that can be found by its address is mapped, so that two unmaps of
\* one address never both get it: the tree holds live regions only.
TreeIsMapped == dma_regions \subseteq dma_mapped

\* The tree is a search tree: no two regions have one address.
TreeDistinct == \A q, r \in dma_regions : q.iova = r.iova => q = r

\* What the processes are charged for is what is pinned, also when one process
\* unmaps what another one mapped.
ChargedInTotal ==
  SumFunction(locked_vm) = SumFunction([r \in LiveRegions |-> r.length])

\* The last close leaves nothing behind: no page pinned, nothing mapped for
\* the device.
ClosedIsClean == ~dma_fds => dma_mapped = {} /\ \A p \in Pages : page_pins[p] = 0

\* Taken together: however maps, unmaps and their failures overlap, what is
\* pinned, mapped, charged and in the tree agree, and the last close clears it.
DmaRegionsExact ==
  DmaTypeOK /\ PinsExact /\ MappedIsPinned /\ TreeIsMapped /\ TreeDistinct /\ ChargedInTotal /\ ClosedIsClean

DmaSpec == DmaInit /\ [][DmaNext]_dma_vars
=============================================================================
