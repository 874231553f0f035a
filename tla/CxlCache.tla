------------------------------ MODULE CxlCache ------------------------------
(***************************************************************************)
(* The CXL cache feature: a character device for one opener that pins user *)
(* buffers, keeps them in a tree by their user address and writes their    *)
(* physical address to CSRs of the device.  The driver has no lock for the *)
(* tree; the user is taken to make one call at a time.  The tree is any    *)
(* red-black tree of the buffers, kept as the depth of each of them: which *)
(* one the library's rotations lead to is left open.  Addresses and        *)
(* lengths are in pages.                                                   *)
(***************************************************************************)
EXTENDS Integers, FiniteSets

CONSTANTS
  CxlPages,    \* user pages
  CxlPfn,      \* their page frames
  CxlCsrs,     \* CSRs that lie inside the feature
  MaxBuffers,  \* bound: buffers mapped at a time
  MaxCxlDevs   \* bound: devices numbered

ASSUME CxlAssumption ==
  /\ CxlPages \subseteq Nat /\ IsFiniteSet(CxlPages) /\ CxlPfn \in [CxlPages -> Nat \ {0}]
  /\ MaxBuffers \in Nat /\ MaxCxlDevs \in Nat

VARIABLES
  cxl_opened,   \* cxl_cache->opened
  cxl_regions, cxl_tree,  \* the buffers in the tree, and how deep each is
  cxl_op,       \* the ioctl under way
  cxl_pins,     \* per page: references the driver holds
  cxl_ro,       \* pages whose mapping was made read-only
  cxl_csr,      \* per CSR: the page frame in it, or 0
  cxl_count, cxl_minors, cxl_class  \* dfl_cxl_cache_devices, ids in use, the class exists

cxl_vars == <<cxl_opened, cxl_regions, cxl_tree, cxl_op, cxl_pins, cxl_ro, cxl_csr, cxl_count, cxl_minors, cxl_class>>
cxl_devs == <<cxl_count, cxl_minors, cxl_class>>

CxlNone == [user_addr |-> 0, length |-> 0, csrs |-> {}]
Buffers == [user_addr : CxlPages, length : 1..Cardinality(CxlPages), csrs : SUBSET CxlCsrs]
CxlPagesOf(r) == {p \in CxlPages : r.user_addr <= p /\ p < r.user_addr + r.length}
CxlIdle == [pc |-> "none", buf |-> CxlNone, named |-> CxlNone]

CxlInit ==
  /\ cxl_opened = FALSE /\ cxl_regions = {} /\ cxl_tree = [r \in {} |-> 0]
  /\ cxl_op = CxlIdle
  /\ cxl_pins = [p \in CxlPages |-> 0] /\ cxl_ro = {}
  /\ cxl_csr = [c \in CxlCsrs |-> 0]
  /\ cxl_count = 0 /\ cxl_minors = {} /\ cxl_class = FALSE

-----------------------------------------------------------------------------
(* Probe and remove.                                                       *)

\* A number that is taken makes device_create fail, after it was counted.
dfl_cxl_cache_probe ==
  /\ cxl_count < MaxCxlDevs
  /\ cxl_class' = TRUE
  /\ cxl_count' = cxl_count + 1
  /\ cxl_minors' = cxl_minors \cup {cxl_count}
  /\ UNCHANGED <<cxl_opened, cxl_regions, cxl_tree, cxl_op, cxl_pins, cxl_ro, cxl_csr>>

\* The count is compared before it is decremented.  The device of the open
\* file stays.
dfl_cxl_cache_remove(id) ==
  /\ id \in cxl_minors /\ (cxl_opened => cxl_minors # {id})
  /\ cxl_minors' = cxl_minors \ {id}
  /\ cxl_class' = (cxl_class /\ cxl_count # 0)
  /\ cxl_count' = cxl_count - 1
  /\ UNCHANGED <<cxl_opened, cxl_regions, cxl_tree, cxl_op, cxl_pins, cxl_ro, cxl_csr>>

-----------------------------------------------------------------------------
(* The tree.                                                               *)

\* Fault: a buffer is not taken to reach to its last page.
dma_region_check_user_addr_Short(r, addr, size) == r.user_addr <= addr /\ r.length + r.user_addr > addr + size
dma_region_check_user_addr(r, addr, size) ==
  /\ size = 0 => r.user_addr = addr
  /\ r.user_addr <= addr /\ r.length + r.user_addr >= addr + size

\* Places in the order of the keys: of a buffer, and odd ones for the gaps.
Place(r) == 2 * r.user_addr
\* The nodes a search for a place meets: each is shallower than all that lie
\* between it and the place; a node at the place ends the search.
Path(d, at) ==
  {q \in DOMAIN d : \A m \in DOMAIN d :
     (Place(q) < Place(m) /\ Place(m) <= at) \/ (at <= Place(m) /\ Place(m) < Place(q)) => d[q] < d[m]}

\* The red-black trees of a set of buffers: search trees, with a colouring in
\* which the root is black, no red node has a red child and all gaps are under
\* equally many black nodes.
RedBlackTrees(rs) ==
  LET Gaps == UNION {{Place(q) - 1, Place(q) + 1} : q \in rs} IN
  {d \in [rs -> 0..(Cardinality(rs) - 1)] :
     /\ \A q \in rs : Cardinality(Path(d, Place(q))) = d[q] + 1
     /\ \A g \in Gaps : \A p, q \in Path(d, g) : d[p] = d[q] => p = q
     /\ \E black \in SUBSET rs, n \in 0..Cardinality(rs) :
          /\ \A q \in rs \ black : \E p \in Path(d, Place(q)) : p \in black /\ d[q] = d[p] + 1
          /\ \A g \in Gaps : Cardinality(Path(d, g) \cap black) = n}

\* The first buffer on the way that contains what is searched.
cxl_cache_dma_region_find(addr, size) ==
  LET hit == {q \in Path(cxl_tree, 2 * addr) : dma_region_check_user_addr(q, addr, size)} IN
  IF hit = {} THEN CxlNone ELSE CHOOSE q \in hit : \A m \in hit : cxl_tree[q] <= cxl_tree[m]

\* -EEXIST for a buffer that a node on the way contains, or whose address is there.
cxl_cache_dma_region_add_ok(r) ==
  /\ cxl_cache_dma_region_find(r.user_addr, r.length) = CxlNone
  /\ \A q \in cxl_regions : q.user_addr # r.user_addr

cxl_cache_dma_region_add(r) ==
  cxl_regions' = cxl_regions \cup {r} /\ cxl_tree' \in RedBlackTrees(cxl_regions')
cxl_cache_dma_region_remove(r) ==
  cxl_regions' = cxl_regions \ {r} /\ cxl_tree' \in RedBlackTrees(cxl_regions')

-----------------------------------------------------------------------------
(* The file.                                                               *)

CxlPin(ps, d) == [p \in CxlPages |-> cxl_pins[p] + (IF p \in ps THEN d ELSE 0)]

dfl_cxl_cache_open ==
  /\ cxl_minors # {} /\ ~cxl_opened
  /\ cxl_opened' = TRUE
  /\ UNCHANGED <<cxl_regions, cxl_tree, cxl_op, cxl_pins, cxl_ro, cxl_csr, cxl_devs>>

\* Pinning fails, or some pages cannot be pinned: nothing is kept.
cxl_cache_dma_pin_pages(r) ==
  /\ cxl_opened /\ cxl_op.pc = "none" /\ Cardinality(cxl_regions) < MaxBuffers
  /\ r.user_addr + r.length - 1 \in CxlPages
  /\ cxl_op' = [pc |-> "pinned", buf |-> r, named |-> r]
  /\ cxl_pins' = CxlPin(CxlPagesOf(r), 1)
  /\ UNCHANGED <<cxl_opened, cxl_regions, cxl_tree, cxl_ro, cxl_csr, cxl_devs>>

numa_buffer_map_fails ==
  /\ cxl_pins' = CxlPin(CxlPagesOf(cxl_op.buf), -1)
  /\ cxl_op' = CxlIdle
  /\ UNCHANGED <<cxl_regions, cxl_tree, cxl_csr>>

cxl_cache_check_continuous_pages(r) ==
  \A p \in CxlPagesOf(r) : p + 1 \in CxlPagesOf(r) => CxlPfn[p] + 1 = CxlPfn[p + 1]

\* A buffer that is not writable is made read-only, which can fail, and stays so
\* when the map fails after that.
cxl_cache_ioctl_numa_buffer_map(writable) ==
  LET r == cxl_op.buf IN
  /\ cxl_op.pc = "pinned"
  /\ \/ /\ ~cxl_cache_check_continuous_pages(r) \/ ~writable
        /\ numa_buffer_map_fails /\ UNCHANGED cxl_ro
     \/ /\ cxl_cache_check_continuous_pages(r)
        /\ cxl_ro' = IF writable THEN cxl_ro ELSE cxl_ro \cup CxlPagesOf(r)
        /\ IF cxl_cache_dma_region_add_ok(r)
           THEN /\ cxl_cache_dma_region_add(r)
                /\ cxl_csr' = [c \in CxlCsrs |-> IF c \in r.csrs THEN CxlPfn[r.user_addr] ELSE cxl_csr[c]]
                /\ cxl_op' = CxlIdle /\ UNCHANGED cxl_pins
           ELSE numa_buffer_map_fails
  /\ UNCHANGED <<cxl_opened, cxl_devs>>

\* The user unmaps a buffer by what it was mapped with.
cxl_cache_ioctl_numa_buffer_unmap(n) ==
  LET r == cxl_cache_dma_region_find(n.user_addr, n.length) IN
  /\ cxl_opened /\ cxl_op.pc = "none" /\ n \in cxl_regions
  /\ cxl_cache_dma_region_remove(r)
  /\ cxl_pins' = CxlPin(CxlPagesOf(r), -1)
  /\ cxl_op' = [pc |-> "clear", buf |-> r, named |-> n]
  /\ UNCHANGED <<cxl_opened, cxl_ro, cxl_csr, cxl_devs>>

unmap_clear_csrs ==
  /\ cxl_op.pc = "clear"
  /\ cxl_csr' = [c \in CxlCsrs |-> IF c \in cxl_op.named.csrs THEN 0 ELSE cxl_csr[c]]
  /\ cxl_op' = CxlIdle
  /\ UNCHANGED <<cxl_opened, cxl_regions, cxl_tree, cxl_pins, cxl_ro, cxl_devs>>

cxl_cache_dma_region_destroy ==
  /\ cxl_regions' = {} /\ cxl_tree' = [r \in {} |-> 0]
  /\ cxl_pins' = [p \in CxlPages |-> cxl_pins[p] - Cardinality({r \in cxl_regions : p \in CxlPagesOf(r)})]

\* The CSRs keep what was written to them.
dfl_cxl_cache_release ==
  /\ cxl_opened /\ cxl_op.pc = "none"
  /\ cxl_cache_dma_region_destroy
  /\ cxl_opened' = FALSE
  /\ UNCHANGED <<cxl_op, cxl_ro, cxl_csr, cxl_devs>>

CxlNext ==
  \/ dfl_cxl_cache_probe
  \/ \E id \in cxl_minors : dfl_cxl_cache_remove(id)
  \/ dfl_cxl_cache_open \/ dfl_cxl_cache_release
  \/ \E r \in Buffers : cxl_cache_dma_pin_pages(r)
  \/ \E w \in BOOLEAN : cxl_cache_ioctl_numa_buffer_map(w)
  \/ \E r \in cxl_regions : cxl_cache_ioctl_numa_buffer_unmap(r)
  \/ unmap_clear_csrs

CxlSpec == CxlInit /\ [][CxlNext]_cxl_vars

-----------------------------------------------------------------------------
(* Properties.                                                             *)

\* Each page is pinned once for each buffer in the tree that has it and for
\* the map under way: maps that fail and the close put what they pinned.
CxlPinsExact ==
  \A p \in CxlPages :
    cxl_pins[p] = Cardinality({r \in cxl_regions : p \in CxlPagesOf(r)})
                  + (IF cxl_op.pc = "pinned" /\ p \in CxlPagesOf(cxl_op.buf) THEN 1 ELSE 0)

\* A mapped buffer can be found again: the search for what was mapped never
\* ends without a result, whatever overlaps it and however the tree turned.
CxlFindable == \A r \in cxl_regions : cxl_cache_dma_region_find(r.user_addr, r.length) # CxlNone

\* The class is there as long as a device of it is.
CxlClassInUse == cxl_minors # {} => cxl_class

\* Taken together: buffers are pinned while, and only while, they can be found,
\* and devices have their class.
CxlBuffersExact == CxlPinsExact /\ CxlFindable /\ CxlClassInUse
=============================================================================
