------------------------ MODULE UserResources_proofs ------------------------
(***************************************************************************)
(* Proofs about what drivers keep for user space, for any number of        *)
(* threads, files, processes, pages and interrupts: the DMA regions of an  *)
(* AFU, the buffers of the CXL cache, the address spaces bound to a PCI    *)
(* device, and the eventfds bound to interrupts.  In whatever order users, *)
(* failures and closes come, what is held is what is accounted for, and it *)
(* ends with its last owner.                                               *)
(***************************************************************************)
EXTENDS DmaRegions, CxlCache, PciSva, IrqTriggers, FiniteSetTheorems, WellFoundedInduction, TLAPS

-----------------------------------------------------------------------------
(* Sums over finite sets.  Induction is on the size of the set: of the     *)
(* sets for which a claim fails there would be a smallest one.             *)

\* A set of naturals with an element has a least one.
LEMMA LeastNumber ==
  ASSUME NEW T \in SUBSET Nat, T # {}
  PROVE  \E n \in T : \A m \in T : n <= m
<1> DEFINE R == OpToRel(<, Nat)
<1>1. R = {ss \in Nat \X Nat : ss[1] < ss[2]}
  BY Zenon DEF OpToRel
<1>2. IsWellFoundedOn(R, Nat)
  BY NatLessThanWellFounded, Zenon
<1> HIDE DEF R
<1>3. PICK n \in T : \A m \in T : ~(<<m, n>> \in R)
  BY <1>2, WFMin
<1>4. \A m \in T : n <= m
  <2> TAKE m \in T
  <2>1. <<m, n>> \in Nat \X Nat /\ <<m, n>>[1] = m /\ <<m, n>>[2] = n
    OBVIOUS
  <2>2. ~(m < n)
    BY <1>1, <1>3, <2>1, Zenon
  <2> QED BY <2>2
<1> QED BY <1>4

Ints(f, S) == \A x \in S : f[x] \in Int

\* it sums the function f over every set of indices in S.
Sums(it, f, S) ==
  \A s \in SUBSET S :
    it[s] = IF s = {} THEN 0 ELSE f[CHOOSE x \in s : TRUE] + it[s \ {CHOOSE x \in s : TRUE}]

LEMMA SumIs ==
  ASSUME NEW f, NEW S
  PROVE SumFunctionOnSet(f, S) = (CHOOSE it : it = [s \in SUBSET S |-> IF s = {} THEN 0 ELSE f[CHOOSE x \in s : TRUE] + it[s \ {CHOOSE x \in s : TRUE}]])[S]
  BY DEF SumFunctionOnSet, FoldFunctionOnSet, MapThenFoldSet

LEMMA ChooseIn ==
  ASSUME NEW s, s # {}
  PROVE  (CHOOSE x \in s : TRUE) \in s
  OBVIOUS

\* Partial sums: over sets of at most n indices.
UpTo(S, n) == {s \in SUBSET S : Cardinality(s) <= n}

SumsTo(it, f, S, n) ==
  \A s \in UpTo(S, n) :
    it[s] = IF s = {} THEN 0 ELSE f[CHOOSE x \in s : TRUE] + it[s \ {CHOOSE x \in s : TRUE}]

LEMMA SumsUpTo ==
  ASSUME NEW S, IsFiniteSet(S), NEW f, Ints(f, S), NEW n \in Nat
  PROVE  \E it \in [UpTo(S, n) -> Int] : SumsTo(it, f, S, n)
<1> DEFINE Ok(m) == \E it \in [UpTo(S, m) -> Int] :
                      \A s \in UpTo(S, m) :
                        it[s] = IF s = {} THEN 0 ELSE f[CHOOSE x \in s : TRUE] + it[s \ {CHOOSE x \in s : TRUE}]
           Bad == {m \in Nat : ~Ok(m)}
<1>0. \A s \in SUBSET S : IsFiniteSet(s) /\ Cardinality(s) \in Nat
  BY FS_Subset, FS_CardinalityType
<1>1. Ok(0)
  <2> DEFINE it == [s \in UpTo(S, 0) |-> 0]
  <2>1. it \in [UpTo(S, 0) -> Int]
    OBVIOUS
  <2>2. \A s \in UpTo(S, 0) : s = {}
    BY <1>0, FS_EmptySet DEF UpTo
  <2>3. \A s \in UpTo(S, 0) : it[s] = IF s = {} THEN 0 ELSE f[CHOOSE x \in s : TRUE] + it[s \ {CHOOSE x \in s : TRUE}]
    BY <2>2
  <2> HIDE DEF it
  <2> QED BY <2>1, <2>3
<1>2. ASSUME NEW m \in Nat, Ok(m) PROVE Ok(m + 1)
  <2>1. PICK g \in [UpTo(S, m) -> Int] :
          \A s \in UpTo(S, m) :
            g[s] = IF s = {} THEN 0 ELSE f[CHOOSE x \in s : TRUE] + g[s \ {CHOOSE x \in s : TRUE}]
    BY <1>2
  <2> DEFINE it == [s \in UpTo(S, m + 1) |->
                      IF s \in UpTo(S, m) THEN g[s] ELSE f[CHOOSE x \in s : TRUE] + g[s \ {CHOOSE x \in s : TRUE}]]
  <2>2. ASSUME NEW s \in UpTo(S, m + 1), s # {}
        PROVE  f[CHOOSE x \in s : TRUE] \in Int /\ s \ {CHOOSE x \in s : TRUE} \in UpTo(S, m)
    <3>1. PICK y \in s : y = CHOOSE x \in s : TRUE
      BY <2>2
    <3>2. s \in SUBSET S /\ s \ {y} \in SUBSET S /\ y \in S
      BY <3>1 DEF UpTo
    <3>3. PICK k \in Nat : k = Cardinality(s)
      BY <1>0, <3>2
    <3>4. Cardinality(s \ {y}) = k - 1 /\ k <= m + 1
      BY <1>0, <3>1, <3>2, <3>3, FS_RemoveElement DEF UpTo
    <3>5. Cardinality(s \ {y}) <= m
      BY <3>4
    <3> QED BY <3>1, <3>2, <3>5 DEF UpTo, Ints
  <2>3. \A s \in UpTo(S, m) : s \in UpTo(S, m + 1)
    BY <1>0 DEF UpTo
  <2>4. {} \in UpTo(S, m)
    BY FS_EmptySet DEF UpTo
  <2>5. it \in [UpTo(S, m + 1) -> Int]
    <3> SUFFICES ASSUME NEW s \in UpTo(S, m + 1)
                 PROVE (IF s \in UpTo(S, m) THEN g[s] ELSE f[CHOOSE x \in s : TRUE] + g[s \ {CHOOSE x \in s : TRUE}]) \in Int
      BY Zenon
    <3>1. CASE s \in UpTo(S, m)
      BY <3>1
    <3>2. CASE s \notin UpTo(S, m)
      <4>1. f[CHOOSE x \in s : TRUE] \in Int /\ g[s \ {CHOOSE x \in s : TRUE}] \in Int
        BY <2>2, <2>4, <3>2
      <4> QED BY <3>2, <4>1
    <3> QED BY <3>1, <3>2
  <2>6. \A s \in UpTo(S, m) : it[s] = g[s]
    BY <2>3
  <2>7. \A s \in UpTo(S, m + 1) : s \notin UpTo(S, m) => it[s] = f[CHOOSE x \in s : TRUE] + g[s \ {CHOOSE x \in s : TRUE}]
    OBVIOUS
  <2> HIDE DEF it
  <2>8. ASSUME NEW s \in UpTo(S, m + 1)
        PROVE it[s] = IF s = {} THEN 0 ELSE f[CHOOSE x \in s : TRUE] + it[s \ {CHOOSE x \in s : TRUE}]
    <3>1. CASE s = {}
      BY <2>1, <2>4, <2>6, <3>1
    <3>2. CASE s # {}
      <4>1. it[s \ {CHOOSE x \in s : TRUE}] = g[s \ {CHOOSE x \in s : TRUE}]
        BY <2>2, <2>6, <3>2
      <4>2. it[s] = f[CHOOSE x \in s : TRUE] + g[s \ {CHOOSE x \in s : TRUE}]
        BY <2>1, <2>6, <2>7, <3>2
      <4> QED BY <3>2, <4>1, <4>2
    <3> QED BY <3>1, <3>2
  <2> QED BY <2>5, <2>8
<1> HIDE DEF Ok
<1>3. Bad = {}
  <2> SUFFICES ASSUME Bad # {} PROVE FALSE
    OBVIOUS
  <2>1. Bad \in SUBSET Nat
    OBVIOUS
  <2>2. PICK b \in Bad : \A m \in Bad : b <= m
    BY <2>1, LeastNumber
  <2>3. b \in Nat /\ ~Ok(b)
    OBVIOUS
  <2>4. b # 0 /\ b - 1 \in Nat
    BY <1>1, <2>3
  <2>5. Ok(b - 1)
    BY <2>2, <2>3, <2>4
  <2>6. b - 1 + 1 = b
    BY <2>3
  <2>7. Ok(b - 1 + 1)
    BY <1>2, <2>4, <2>5
  <2> QED BY <2>3, <2>6, <2>7
<1>4. Ok(n)
  BY <1>3
<1> QED BY <1>4 DEF Ok, SumsTo

\* Sums of functions that agree on the indices are the same.
LEMMA SumsAgree ==
  ASSUME NEW S, IsFiniteSet(S), NEW T, NEW U, S \subseteq T, S \subseteq U, NEW f, NEW g, \A x \in S : f[x] = g[x],
         NEW a, Sums(a, f, T), NEW b, Sums(b, g, U)
  PROVE  \A s \in SUBSET S : a[s] = b[s]
<1> DEFINE Bad == {Cardinality(s) : s \in {u \in SUBSET S : a[u] # b[u]}}
<1>0. \A s \in SUBSET S : IsFiniteSet(s) /\ Cardinality(s) \in Nat
  BY FS_Subset, FS_CardinalityType
<1> SUFFICES ASSUME NEW z \in SUBSET S, a[z] # b[z] PROVE FALSE
  OBVIOUS
<1>1. Cardinality(z) \in Bad
  OBVIOUS
<1>2. Bad \in SUBSET Nat
  BY <1>0
<1>3. PICK n \in Bad : \A m \in Bad : n <= m
  BY <1>1, <1>2, LeastNumber
<1>4. PICK s \in SUBSET S : a[s] # b[s] /\ n = Cardinality(s)
  OBVIOUS
<1>5. s # {}
  BY <1>4 DEF Sums
<1>6. PICK y \in s : y = CHOOSE x \in s : TRUE
  BY <1>5
<1>7. a[s] = f[y] + a[s \ {y}] /\ b[s] = g[y] + b[s \ {y}] /\ f[y] = g[y]
  BY <1>5, <1>6 DEF Sums
<1>8. s \ {y} \in SUBSET S /\ a[s \ {y}] # b[s \ {y}]
  BY <1>4, <1>7
<1>9. Cardinality(s \ {y}) \in Bad
  BY <1>8
<1>10. Cardinality(s \ {y}) = n - 1 /\ n \in Nat
  BY <1>0, <1>4, <1>6, FS_RemoveElement
<1> QED BY <1>3, <1>9, <1>10

\* What the fold of the library computes satisfies its recursive equation.
LEMMA SumsExist ==
  ASSUME NEW S, IsFiniteSet(S), NEW f, Ints(f, S)
  PROVE  \E it \in [SUBSET S -> Int] : Sums(it, f, S) /\ SumFunctionOnSet(f, S) = it[S]
<1> DEFINE Eq(it) == it = [s \in SUBSET S |-> IF s = {} THEN 0 ELSE f[CHOOSE x \in s : TRUE] + it[s \ {CHOOSE x \in s : TRUE}]]
           c == CHOOSE it : Eq(it)
<1>1. UpTo(S, Cardinality(S)) = SUBSET S /\ Cardinality(S) \in Nat
  BY FS_Subset, FS_CardinalityType DEF UpTo
<1>2. PICK g \in [SUBSET S -> Int] :
        \A s \in SUBSET S : g[s] = IF s = {} THEN 0 ELSE f[CHOOSE x \in s : TRUE] + g[s \ {CHOOSE x \in s : TRUE}]
  <2>1. PICK n \in Nat : n = Cardinality(S)
    BY <1>1
  <2>2. PICK it \in [UpTo(S, n) -> Int] : SumsTo(it, f, S, n)
    BY SumsUpTo
  <2>3. UpTo(S, n) = SUBSET S
    BY <1>1, <2>1
  <2> QED BY <2>2, <2>3 DEF SumsTo
<1>3. Eq(g)
  BY <1>2
<1>4. Eq(c)
  BY <1>3
<1>5. SumFunctionOnSet(f, S) = c[S]
  BY SumIs
<1>6. Sums(c, f, S)
  BY <1>4 DEF Sums
<1>7. DOMAIN c = SUBSET S /\ c = [s \in SUBSET S |-> c[s]]
  BY <1>4
<1> HIDE DEF c
<1>8. \A s \in SUBSET S : c[s] = g[s]
  <2>1. Sums(g, f, S)
    BY <1>2 DEF Sums
  <2> QED BY <1>6, <2>1, SumsAgree
<1>9. c \in [SUBSET S -> Int]
  BY <1>7, <1>8
<1> QED BY <1>5, <1>6, <1>9

LEMMA SumsRemove ==
  ASSUME NEW S, IsFiniteSet(S), NEW f, Ints(f, S),
         NEW it, Ints(it, SUBSET S), Sums(it, f, S), NEW w \in S
  PROVE  it[S] = f[w] + it[S \ {w}]
<1> DEFINE BadSet == {u \in SUBSET S : \E x \in u : it[u] # f[x] + it[u \ {x}]}
           Bad == {Cardinality(s) : s \in BadSet}
<1>0. \A s \in SUBSET S : IsFiniteSet(s) /\ Cardinality(s) \in Nat
  BY FS_Subset, FS_CardinalityType
<1> SUFFICES ASSUME it[S] # f[w] + it[S \ {w}] PROVE FALSE
  OBVIOUS
<1>1. Cardinality(S) \in Bad
  OBVIOUS
<1>2. Bad \in SUBSET Nat
  BY <1>0
<1>3. PICK n \in Bad : \A m \in Bad : n <= m
  BY <1>1, <1>2, LeastNumber
<1>4. PICK s \in BadSet : n = Cardinality(s)
  OBVIOUS
<1>5. PICK x \in s : it[s] # f[x] + it[s \ {x}]
  OBVIOUS
<1>6. PICK y \in s : y = CHOOSE q \in s : TRUE
  BY <1>5
<1>7. s \in SUBSET S /\ x \in S /\ y \in S
  BY <1>5, <1>6
<1>8. it[s] = f[y] + it[s \ {y}]
  BY <1>5, <1>6, <1>7 DEF Sums
<1>9. x # y
  BY <1>5, <1>8
<1>10. \A q \in s : s \ {q} \in SUBSET S /\ s \ {q} \notin BadSet
  <2> TAKE q \in s
  <2>1. s \ {q} \in SUBSET S /\ Cardinality(s \ {q}) = n - 1 /\ n \in Nat
    BY <1>0, <1>4, <1>7, FS_RemoveElement
  <2> HIDE DEF BadSet
  <2>2. s \ {q} \in BadSet => n - 1 \in Bad
    BY <2>1
  <2> HIDE DEF Bad
  <2> QED BY <1>3, <2>1, <2>2
<1>11. it[s \ {y}] = f[x] + it[(s \ {y}) \ {x}]
  BY <1>5, <1>6, <1>9, <1>10
<1>12. it[s \ {x}] = f[y] + it[(s \ {x}) \ {y}]
  BY <1>5, <1>6, <1>9, <1>10
<1>13. (s \ {x}) \ {y} = (s \ {y}) \ {x} /\ (s \ {x}) \ {y} \in SUBSET S
  BY <1>7
<1>14. PICK i \in Int, j \in Int, k \in Int : i = f[x] /\ j = f[y] /\ k = it[(s \ {x}) \ {y}]
  BY <1>7, <1>13, Zenon DEF Ints
<1>15. it[s] = j + (i + k) /\ it[s \ {x}] = j + k
  BY <1>8, <1>11, <1>12, <1>13, <1>14
<1>16. it[s] = i + it[s \ {x}]
  BY <1>15
<1> QED BY <1>5, <1>14, <1>16

\* Functions that agree on a set have the same sum over it.
LEMMA SumSame ==
  ASSUME NEW S, IsFiniteSet(S), NEW f, Ints(f, S), NEW g, \A x \in S : f[x] = g[x]
  PROVE  SumFunctionOnSet(f, S) = SumFunctionOnSet(g, S) /\ SumFunctionOnSet(f, S) \in Int
<1>1. PICK a \in [SUBSET S -> Int] : Sums(a, f, S) /\ SumFunctionOnSet(f, S) = a[S]
  BY SumsExist
<1>2. PICK b \in [SUBSET S -> Int] : Sums(b, g, S) /\ SumFunctionOnSet(g, S) = b[S]
  <2>1. Ints(g, S)
    BY DEF Ints
  <2> QED BY <2>1, SumsExist
<1>3. a[S] = b[S]
  BY <1>1, <1>2, SumsAgree
<1> QED BY <1>1, <1>2, <1>3

\* A sum is what one index adds to the sum over the others.
LEMMA SumSplit ==
  ASSUME NEW S, IsFiniteSet(S), NEW f, Ints(f, S), NEW x \in S
  PROVE  /\ SumFunctionOnSet(f, S) = f[x] + SumFunctionOnSet(f, S \ {x})
         /\ SumFunctionOnSet(f, S \ {x}) \in Int
<1>1. PICK a \in [SUBSET S -> Int] : Sums(a, f, S) /\ SumFunctionOnSet(f, S) = a[S]
  BY SumsExist
<1>2. IsFiniteSet(S \ {x}) /\ Ints(f, S \ {x})
  BY FS_RemoveElement DEF Ints
<1>3. PICK b \in [SUBSET (S \ {x}) -> Int] : Sums(b, f, S \ {x}) /\ SumFunctionOnSet(f, S \ {x}) = b[S \ {x}]
  BY <1>2, SumsExist
<1>4. a[S \ {x}] = b[S \ {x}]
  <2> DEFINE T == S \ {x}
  <2>1. IsFiniteSet(T) /\ T \subseteq S /\ T \subseteq T /\ \A y \in T : f[y] = f[y]
    BY <1>2
  <2>2. Sums(b, f, T) /\ Sums(a, f, S)
    BY <1>1, <1>3
  <2> HIDE DEF T
  <2>3. \A s \in SUBSET T : a[s] = b[s]
    BY <2>1, <2>2, SumsAgree
  <2> QED BY <2>3 DEF T
<1>5. a[S] = f[x] + a[S \ {x}]
  <2>1. Ints(a, SUBSET S)
    BY DEF Ints
  <2> QED BY <1>1, <2>1, SumsRemove
<1> QED BY <1>1, <1>3, <1>4, <1>5

LEMMA SumOfNone ==
  ASSUME NEW f
  PROVE  SumFunctionOnSet(f, {}) = 0
<1>1. PICK a \in [SUBSET {} -> Int] : Sums(a, f, {}) /\ SumFunctionOnSet(f, {}) = a[{}]
  <2>1. IsFiniteSet({}) /\ Ints(f, {})
    BY FS_EmptySet DEF Ints
  <2> QED BY <2>1, SumsExist
<1> QED BY <1>1 DEF Sums

LEMMA SumOfZeros ==
  ASSUME NEW S, IsFiniteSet(S), NEW f, Ints(f, S), \A x \in S : f[x] = 0
  PROVE  SumFunctionOnSet(f, S) = 0
<1>1. PICK a \in [SUBSET S -> Int] : Sums(a, f, S) /\ SumFunctionOnSet(f, S) = a[S]
  BY SumsExist
<1> DEFINE z == [s \in SUBSET S |-> 0]
<1>2. Sums(z, f, S)
  <2> SUFFICES ASSUME NEW s \in SUBSET S
               PROVE  z[s] = IF s = {} THEN 0 ELSE f[CHOOSE x \in s : TRUE] + z[s \ {CHOOSE x \in s : TRUE}]
    BY DEF Sums
  <2>1. CASE s # {}
    <3>1. (CHOOSE x \in s : TRUE) \in s
      BY <2>1, ChooseIn
    <3>2. f[CHOOSE x \in s : TRUE] = 0 /\ z[s \ {CHOOSE x \in s : TRUE}] = 0 /\ z[s] = 0
      BY <3>1
    <3> QED BY <3>2
  <2> QED BY <2>1
<1> HIDE DEF z
<1>3. a[S] = z[S]
  BY <1>1, <1>2, SumsAgree
<1> QED BY <1>1, <1>3 DEF z

-----------------------------------------------------------------------------
(* DMA regions of an AFU.                                                  *)

Busy == {"pinned", "mapped", "unmapping", "unpinning"}
Own(v) == IF v.pc \in Busy THEN {v.region} ELSE {}
Others(t) == UNION {InOp(u) : u \in DmaThreads \ {t}}
Mapping(v) == IF v.pc \in {"mapped", "unmapping"} THEN {v.region} ELSE {}
MapOthers(t) == UNION {Mapping(dma_op[u]) : u \in DmaThreads \ {t}}

DmaTyped ==
  /\ dma_iommu \in BOOLEAN /\ dma_fds \in BOOLEAN
  /\ dma_regions \subseteq Regions
  /\ page_pins \in [Pages -> Int] /\ locked_vm \in [Procs -> Int]
  /\ DOMAIN dma_op = DmaThreads
  /\ \A t \in DmaThreads :
       /\ dma_op[t].pc \in Busy \cup {"none", "copy", "unmap"}
       /\ dma_op[t].pc \in Busy => dma_op[t].region \in Regions

\* Every live region has a number of its own.
DmaIds == IsFiniteSet(LiveRegions) /\ \A q, r \in LiveRegions : q.id = r.id => q = r

\* A region is in the tree, or with one ioctl.
DmaApart ==
  \A t \in DmaThreads : /\ InOp(t) \cap dma_regions = {}
                        /\ \A u \in DmaThreads : u # t => InOp(t) \cap InOp(u) = {}

\* What the device reaches: the tree, and what is on its way in or out.
DmaMaps ==
  /\ dma_mapped = dma_regions \cup UNION {Mapping(dma_op[t]) : t \in DmaThreads}
  /\ \A r \in dma_mapped : r.iova # 0

DmaClosed == ~dma_fds => dma_regions = {} /\ \A t \in DmaThreads : dma_op[t].pc = "none"

DmaIInv ==
  DmaTyped /\ DmaIds /\ DmaApart /\ DmaMaps /\ DmaClosed /\ TreeDistinct /\ PinsExact /\ ChargedInTotal

-----------------------------------------------------------------------------
LEMMA RegionIs ==
  ASSUME NEW r \in Regions
  PROVE  r.length \in Nat /\ r.user_addr \in Nat /\ r.id \in 1..MaxRegions
<1>1. r.user_addr \in Pages /\ r.length \in 1..Cardinality(Pages) /\ Cardinality(Pages) \in Nat /\ r.id \in 1..MaxRegions
  BY DmaAssumption, FS_CardinalityType DEF Regions
<1>2. PICK n \in Nat : n = Cardinality(Pages)
  BY <1>1
<1>3. r.length \in 1..n /\ r.user_addr \in Nat
  BY <1>1, <1>2, DmaAssumption
<1>4. r.length \in Nat
  BY <1>2, <1>3
<1> QED BY <1>1, <1>3, <1>4

\* The regions among rs that have page p, and the pages of all of them.
Having(rs, p) == {r \in rs : p \in PagesOf(r)}
Total(rs) == SumFunction([r \in rs |-> r.length])

LEMMA HavingAdds ==
  ASSUME NEW rs, IsFiniteSet(rs), NEW r, r \notin rs, NEW p
  PROVE  /\ Cardinality(Having(rs, p)) \in Nat
         /\ Cardinality(Having(rs \cup {r}, p)) = Cardinality(Having(rs, p)) + (IF p \in PagesOf(r) THEN 1 ELSE 0)
<1>1. IsFiniteSet(Having(rs, p)) /\ r \notin Having(rs, p)
  BY FS_Subset DEF Having
<1>2. Cardinality(Having(rs, p)) \in Nat
  BY <1>1, FS_CardinalityType
<1>3. Having(rs \cup {r}, p) = IF p \in PagesOf(r) THEN Having(rs, p) \cup {r} ELSE Having(rs, p)
  BY DEF Having
<1>4. Cardinality(Having(rs, p) \cup {r}) = Cardinality(Having(rs, p)) + 1
  BY <1>1, FS_AddElement
<1> QED BY <1>2, <1>3, <1>4

LEMMA TotalAdds ==
  ASSUME NEW rs, IsFiniteSet(rs), rs \subseteq Regions, NEW r \in Regions, r \notin rs
  PROVE  Total(rs \cup {r}) = Total(rs) + r.length /\ Total(rs) \in Int
<1> DEFINE all == rs \cup {r}
           f == [q \in all |-> q.length]
           g == [q \in rs |-> q.length]
<1>1. IsFiniteSet(all) /\ r \in all /\ all \ {r} = rs
  BY FS_AddElement
<1>2. \A q \in Regions : q.length \in Int
  BY RegionIs
<1>3. Ints(f, all) /\ Ints(f, rs) /\ \A q \in rs : f[q] = g[q]
  BY <1>2 DEF Ints
<1>4. f[r] = r.length /\ r.length \in Int /\ DOMAIN f = all /\ DOMAIN g = rs
  BY <1>2
<1>5. Total(rs \cup {r}) = SumFunctionOnSet(f, all) /\ Total(rs) = SumFunctionOnSet(g, rs)
  BY <1>4 DEF Total, SumFunction
<1> HIDE DEF f, g, all
<1>6. SumFunctionOnSet(f, all) = f[r] + SumFunctionOnSet(f, all \ {r}) /\ SumFunctionOnSet(f, all \ {r}) \in Int
  BY <1>1, <1>3, SumSplit
<1>7. SumFunctionOnSet(f, rs) = SumFunctionOnSet(g, rs)
  BY <1>3, SumSame
<1>8. PICK i \in Int, j \in Int : i = r.length /\ j = SumFunctionOnSet(f, rs)
  BY <1>1, <1>4, <1>6
<1>9. Total(rs \cup {r}) = i + j /\ Total(rs) = j
  BY <1>1, <1>4, <1>5, <1>6, <1>7, <1>8
<1> QED BY <1>8, <1>9

LEMMA TotalOfNone == Total({}) = 0
<1>1. DOMAIN [r \in {} |-> r.length] = {}
  OBVIOUS
<1> QED BY <1>1, SumOfNone DEF Total, SumFunction

\* Charging one process changes the charges of all by as much.
LEMMA ChargesAdd ==
  ASSUME NEW vm \in [Procs -> Int], NEW m \in Procs, NEW n \in Int
  PROVE  SumFunction([vm EXCEPT ![m] = @ + n]) = SumFunction(vm) + n /\ SumFunction(vm) \in Int
<1> DEFINE g == [vm EXCEPT ![m] = @ + n]
           rest == Procs \ {m}
<1>1. IsFiniteSet(Procs) /\ IsFiniteSet(rest)
  BY DmaAssumption, FS_RemoveElement
<1>2. Ints(vm, Procs) /\ Ints(g, Procs) /\ Ints(vm, rest) /\ \A q \in rest : vm[q] = g[q]
  BY DEF Ints
<1>3. g[m] = vm[m] + n /\ vm[m] \in Int /\ DOMAIN g = Procs /\ DOMAIN vm = Procs
  OBVIOUS
<1> HIDE DEF g
<1>4. SumFunctionOnSet(vm, Procs) = vm[m] + SumFunctionOnSet(vm, rest) /\ SumFunctionOnSet(vm, rest) \in Int
  BY <1>1, <1>2, SumSplit
<1>5. SumFunctionOnSet(g, Procs) = g[m] + SumFunctionOnSet(g, rest)
  BY <1>1, <1>2, SumSplit
<1>6. SumFunctionOnSet(vm, rest) = SumFunctionOnSet(g, rest)
  <2> HIDE DEF rest
  <2> QED BY <1>1, <1>2, SumSame
<1> HIDE DEF rest
<1>7. SumFunctionOnSet(g, Procs) = SumFunctionOnSet(vm, Procs) + n /\ SumFunctionOnSet(vm, Procs) \in Int
  <2>1. PICK i \in Int, j \in Int : i = vm[m] /\ j = SumFunctionOnSet(vm, rest)
    BY <1>3, <1>4
  <2> QED BY <1>3, <1>4, <1>5, <1>6, <2>1
<1>8. SumFunction(g) = SumFunctionOnSet(g, Procs) /\ SumFunction(vm) = SumFunctionOnSet(vm, Procs)
  BY <1>3 DEF SumFunction
<1> QED BY <1>7, <1>8 DEF g

\* Page references and charges agree with the regions rs.
Balanced(pins, vm, rs) ==
  /\ \A p \in Pages : pins[p] = Cardinality(Having(rs, p))
  /\ SumFunction(vm) = Total(rs)

LEMMA BalanceAdds ==
  ASSUME NEW pins \in [Pages -> Int], NEW vm \in [Procs -> Int], NEW rs, IsFiniteSet(rs), rs \subseteq Regions,
         NEW r \in Regions, r \notin rs, NEW m \in Procs, Balanced(pins, vm, rs)
  PROVE  Balanced([p \in Pages |-> pins[p] + (IF p \in PagesOf(r) THEN 1 ELSE 0)], [vm EXCEPT ![m] = @ + r.length], rs \cup {r})
<1> DEFINE pins1 == [p \in Pages |-> pins[p] + (IF p \in PagesOf(r) THEN 1 ELSE 0)]
           vm1 == [vm EXCEPT ![m] = @ + r.length]
<1>1. \A p \in Pages : pins1[p] = Cardinality(Having(rs \cup {r}, p))
  <2> TAKE p \in Pages
  <2>1. pins1[p] = pins[p] + (IF p \in PagesOf(r) THEN 1 ELSE 0) /\ pins[p] = Cardinality(Having(rs, p))
    BY DEF Balanced
  <2> QED BY <2>1, HavingAdds
<1>2. r.length \in Int
  BY RegionIs
<1>3. SumFunction(vm1) = SumFunction(vm) + r.length
  BY <1>2, ChargesAdd
<1>4. Total(rs \cup {r}) = Total(rs) + r.length
  BY TotalAdds
<1> QED BY <1>1, <1>3, <1>4 DEF Balanced

LEMMA BalanceRemoves ==
  ASSUME NEW pins \in [Pages -> Int], NEW vm \in [Procs -> Int], NEW rs, IsFiniteSet(rs), rs \subseteq Regions,
         NEW r \in Regions, r \notin rs, NEW m \in Procs, Balanced(pins, vm, rs \cup {r})
  PROVE  Balanced([p \in Pages |-> pins[p] + (IF p \in PagesOf(r) THEN -1 ELSE 0)], [vm EXCEPT ![m] = @ - r.length], rs)
<1> DEFINE pins1 == [p \in Pages |-> pins[p] + (IF p \in PagesOf(r) THEN -1 ELSE 0)]
           vm1 == [vm EXCEPT ![m] = @ - r.length]
<1>1. \A p \in Pages : pins1[p] = Cardinality(Having(rs, p))
  <2> TAKE p \in Pages
  <2>1. pins1[p] = pins[p] + (IF p \in PagesOf(r) THEN -1 ELSE 0) /\ pins[p] = Cardinality(Having(rs \cup {r}, p))
    BY DEF Balanced
  <2>2. PICK k \in Nat : k = Cardinality(Having(rs, p))
    BY HavingAdds
  <2>3. pins[p] = k + (IF p \in PagesOf(r) THEN 1 ELSE 0)
    BY <2>1, <2>2, HavingAdds
  <2> QED BY <2>1, <2>2, <2>3
<1>2. PICK n \in Int : n = r.length
  BY RegionIs
<1>3. PICK w \in Int : w = 0 - n
  BY <1>2
<1>4. SumFunction(vm1) = SumFunction(vm) + w /\ SumFunction(vm) \in Int
  <2>1. PICK i \in Int : i = vm[m]
    OBVIOUS
  <2>2. i - n = i + w
    BY <1>2, <1>3
  <2>3. vm[m] - r.length = vm[m] + w
    BY <1>2, <2>1, <2>2
  <2>4. vm1 = [vm EXCEPT ![m] = @ + w]
    BY <2>3, Zenon
  <2> HIDE DEF vm1
  <2>5. SumFunction([vm EXCEPT ![m] = @ + w]) = SumFunction(vm) + w /\ SumFunction(vm) \in Int
    BY ChargesAdd
  <2> QED BY <2>4, <2>5
<1>5. Total(rs \cup {r}) = Total(rs) + n /\ Total(rs) \in Int
  BY <1>2, TotalAdds
<1>6. SumFunction(vm) = Total(rs \cup {r})
  BY DEF Balanced
<1>7. SumFunction(vm1) = Total(rs)
  <2>1. PICK j \in Int : j = Total(rs)
    BY <1>5
  <2> QED BY <1>2, <1>3, <1>4, <1>5, <1>6, <2>1
<1> QED BY <1>1, <1>7 DEF Balanced

LEMMA BalanceMoves ==
  ASSUME NEW pins, NEW vm, NEW rs, IsFiniteSet(rs), rs \subseteq Regions,
         NEW r \in Regions, r \notin rs, NEW q \in Regions, q \notin rs,
         q.user_addr = r.user_addr, q.length = r.length, Balanced(pins, vm, rs \cup {r})
  PROVE  Balanced(pins, vm, rs \cup {q})
<1>1. PagesOf(q) = PagesOf(r)
  BY DEF PagesOf
<1>2. \A p \in Pages : Cardinality(Having(rs \cup {r}, p)) = Cardinality(Having(rs \cup {q}, p))
  <2> TAKE p \in Pages
  <2>1. Cardinality(Having(rs \cup {r}, p)) = Cardinality(Having(rs, p)) + (IF p \in PagesOf(r) THEN 1 ELSE 0)
    BY HavingAdds
  <2>2. Cardinality(Having(rs \cup {q}, p)) = Cardinality(Having(rs, p)) + (IF p \in PagesOf(q) THEN 1 ELSE 0)
    BY HavingAdds
  <2> QED BY <1>1, <2>1, <2>2
<1>3. Total(rs \cup {r}) = Total(rs \cup {q})
  <2>1. Total(rs \cup {r}) = Total(rs) + r.length
    BY TotalAdds
  <2>2. Total(rs \cup {q}) = Total(rs) + q.length
    BY TotalAdds
  <2> QED BY <2>1, <2>2
<1> QED BY <1>2, <1>3 DEF Balanced

LEMMA ZeroSum == SumFunction([m \in Procs |-> 0]) = 0
<1> DEFINE f == [m \in Procs |-> 0]
<1>1. DOMAIN f = Procs /\ Ints(f, Procs) /\ \A m \in Procs : f[m] = 0
  BY DEF Ints
<1> HIDE DEF f
<1>2. SumFunctionOnSet(f, Procs) = 0
  BY <1>1, DmaAssumption, SumOfZeros
<1> QED BY <1>1, <1>2 DEF SumFunction, f

LEMMA BalanceIs == (PinsExact /\ ChargedInTotal) <=> Balanced(page_pins, locked_vm, LiveRegions)
  BY DEF PinsExact, ChargedInTotal, Balanced, Having, Total
LEMMA BalanceIsNext == (PinsExact' /\ ChargedInTotal') <=> Balanced(page_pins', locked_vm', LiveRegions')
  BY DEF PinsExact, ChargedInTotal, Balanced, Having, Total, PagesOf

-----------------------------------------------------------------------------
\* What is live: the tree, what thread t works on, and what the others do.
LEMMA LiveIs ==
  ASSUME NEW t \in DmaThreads
  PROVE  /\ LiveRegions = dma_regions \cup Own(dma_op[t]) \cup Others(t)
         /\ InOp(t) = Own(dma_op[t])
  BY DEF LiveRegions, InOp, Own, Others, Busy

LEMMA ApartIs ==
  ASSUME DmaApart, NEW t \in DmaThreads
  PROVE  /\ Own(dma_op[t]) \cap dma_regions = {} /\ Own(dma_op[t]) \cap Others(t) = {}
         /\ Others(t) \cap dma_regions = {}
  BY DEF DmaApart, InOp, Own, Others, Busy

LEMMA LiveInRegions ==
  ASSUME DmaTyped
  PROVE  LiveRegions \subseteq Regions
  BY DEF DmaTyped, LiveRegions, InOp, Busy

LEMMA OtherOps ==
  ASSUME DmaTyped, NEW t \in DmaThreads, NEW v, dma_op' = [dma_op EXCEPT ![t] = v]
  PROVE  /\ dma_op'[t] = v /\ \A u \in DmaThreads : u # t => dma_op'[u] = dma_op[u]
         /\ DOMAIN dma_op' = DmaThreads
         /\ Others(t)' = Others(t) /\ InOp(t)' = Own(v) /\ \A u \in DmaThreads : u # t => InOp(u)' = InOp(u)
         /\ LiveRegions' = dma_regions' \cup Own(v) \cup Others(t)
<1>1. /\ dma_op'[t] = v /\ \A u \in DmaThreads : u # t => dma_op'[u] = dma_op[u]
      /\ DOMAIN dma_op' = DmaThreads
  BY DEF DmaTyped
<1>2. /\ InOp(t)' = Own(v) /\ \A u \in DmaThreads : u # t => InOp(u)' = InOp(u)
  BY <1>1 DEF InOp, Own, Busy
<1>3. Others(t)' = Others(t)
  BY <1>2 DEF Others
<1>4. LiveRegions' = dma_regions' \cup InOp(t)' \cup Others(t)'
  BY DEF LiveRegions, Others
<1> QED BY <1>1, <1>2, <1>3, <1>4

LEMMA MapsAre ==
  ASSUME DmaMaps, NEW t \in DmaThreads
  PROVE  dma_mapped = dma_regions \cup Mapping(dma_op[t]) \cup MapOthers(t) /\ MapOthers(t) \subseteq Others(t)
<1>1. dma_mapped = dma_regions \cup Mapping(dma_op[t]) \cup MapOthers(t)
  BY DEF DmaMaps, MapOthers
<1>2. \A u \in DmaThreads : Mapping(dma_op[u]) \subseteq InOp(u)
  BY DEF Mapping, InOp
<1> QED BY <1>1, <1>2 DEF MapOthers, Others

\* A step of thread t that leaves the pieces as they should be.
LEMMA DmaStep ==
  ASSUME DmaTyped, DmaApart, NEW t \in DmaThreads, NEW v, dma_op' = [dma_op EXCEPT ![t] = v],
         dma_fds, UNCHANGED <<dma_fds, dma_iommu>>,
         v.pc \in Busy \cup {"none", "copy", "unmap"}, v.pc \in Busy => v.region \in Regions,
         dma_regions' \subseteq Regions, page_pins' \in [Pages -> Int], locked_vm' \in [Procs -> Int],
         Own(v) \cap dma_regions' = {}, Own(v) \cap Others(t) = {}, Others(t) \cap dma_regions' = {},
         dma_mapped' = dma_regions' \cup Mapping(v) \cup MapOthers(t), \A r \in dma_mapped' : r.iova # 0,
         TreeDistinct', DmaIds', Balanced(page_pins', locked_vm', LiveRegions')
  PROVE  DmaIInv'
<1>1. /\ dma_op'[t] = v /\ \A u \in DmaThreads : u # t => dma_op'[u] = dma_op[u]
      /\ DOMAIN dma_op' = DmaThreads
      /\ Others(t)' = Others(t) /\ InOp(t)' = Own(v) /\ \A u \in DmaThreads : u # t => InOp(u)' = InOp(u)
  BY OtherOps
<1>2. DmaTyped'
  BY <1>1 DEF DmaTyped
<1>3. DmaApart'
  <2> SUFFICES ASSUME NEW a \in DmaThreads
               PROVE  /\ InOp(a)' \cap dma_regions' = {}
                      /\ \A b \in DmaThreads : b # a => InOp(a)' \cap InOp(b)' = {}
    BY DEF DmaApart
  <2>1. \A b \in DmaThreads : b # t => InOp(b) \subseteq Others(t)
    BY DEF Others
  <2>2. \A b \in DmaThreads : b # t => InOp(b)' \cap dma_regions' = {} /\ InOp(b)' \cap InOp(t)' = {}
    BY <1>1, <2>1
  <2>3. \A b, c \in DmaThreads : b # t /\ c # t /\ b # c => InOp(b)' \cap InOp(c)' = {}
    BY <1>1 DEF DmaApart
  <2> QED BY <1>1, <2>2, <2>3
<1>4. DmaMaps'
  <2>1. \A u \in DmaThreads : Mapping(dma_op'[u]) = IF u = t THEN Mapping(v) ELSE Mapping(dma_op[u])
    BY <1>1
  <2>2. UNION {Mapping(dma_op'[u]) : u \in DmaThreads} = Mapping(v) \cup MapOthers(t)
    BY <2>1 DEF MapOthers
  <2>3. UNION {Mapping(dma_op[u]) : u \in DmaThreads}' = Mapping(v) \cup MapOthers(t)
    BY <2>2 DEF Mapping
  <2> QED BY <2>3 DEF DmaMaps
<1>5. DmaClosed'
  BY DEF DmaClosed
<1>6. PinsExact' /\ ChargedInTotal'
  BY BalanceIsNext
<1> QED BY <1>2, <1>3, <1>4, <1>5, <1>6 DEF DmaIInv

\* Facts about thread t before its step.
LEMMA DmaBefore ==
  ASSUME DmaIInv, NEW t \in DmaThreads
  PROVE  /\ DmaTyped /\ DmaIds /\ DmaApart /\ TreeDistinct /\ (dma_op[t].pc # "none" => dma_fds)
         /\ dma_regions \subseteq Regions /\ page_pins \in [Pages -> Int] /\ locked_vm \in [Procs -> Int]
         /\ Own(dma_op[t]) \cap dma_regions = {} /\ Own(dma_op[t]) \cap Others(t) = {} /\ Others(t) \cap dma_regions = {}
         /\ dma_mapped = dma_regions \cup Mapping(dma_op[t]) \cup MapOthers(t) /\ MapOthers(t) \subseteq Others(t)
         /\ (\A r \in dma_mapped : r.iova # 0)
         /\ LiveRegions = dma_regions \cup Own(dma_op[t]) \cup Others(t) /\ LiveRegions \subseteq Regions
         /\ Balanced(page_pins, locked_vm, LiveRegions) /\ IsFiniteSet(LiveRegions)
         /\ (dma_op[t].pc \in Busy => dma_op[t].region \in Regions) /\ ProcOf[t] \in Procs
<1>1. DmaTyped /\ DmaIds /\ DmaApart /\ DmaMaps /\ DmaClosed /\ TreeDistinct /\ PinsExact /\ ChargedInTotal
  BY DEF DmaIInv
<1>2. (dma_op[t].pc # "none" => dma_fds) /\ (dma_op[t].pc \in Busy => dma_op[t].region \in Regions)
      /\ dma_regions \subseteq Regions /\ page_pins \in [Pages -> Int] /\ locked_vm \in [Procs -> Int]
  BY <1>1 DEF DmaClosed, DmaTyped
<1>3. Balanced(page_pins, locked_vm, LiveRegions) /\ LiveRegions \subseteq Regions
  BY <1>1, BalanceIs, LiveInRegions
<1>4. Own(dma_op[t]) \cap dma_regions = {} /\ Own(dma_op[t]) \cap Others(t) = {} /\ Others(t) \cap dma_regions = {}
  BY <1>1, ApartIs
<1>5. /\ dma_mapped = dma_regions \cup Mapping(dma_op[t]) \cup MapOthers(t) /\ MapOthers(t) \subseteq Others(t)
      /\ (\A r \in dma_mapped : r.iova # 0)
  BY <1>1, MapsAre DEF DmaMaps
<1>6. LiveRegions = dma_regions \cup Own(dma_op[t]) \cup Others(t) /\ IsFiniteSet(LiveRegions) /\ ProcOf[t] \in Procs
  BY <1>1, LiveIs, DmaAssumption DEF DmaIds
<1> QED BY <1>1, <1>2, <1>3, <1>4, <1>5, <1>6

-----------------------------------------------------------------------------
(* Steps that leave the live regions alone: a region goes to the tree, or  *)
(* from the tree to the ioctl that unmaps it.                              *)

LEMMA DmaKeepsLive ==
  ASSUME DmaIInv, NEW t \in DmaThreads, NEW v, dma_op' = [dma_op EXCEPT ![t] = v],
         dma_fds, UNCHANGED <<dma_fds, dma_iommu, page_pins, locked_vm>>,
         v.pc \in Busy \cup {"none", "copy", "unmap"},
         dma_regions' \cup Own(v) = dma_regions \cup Own(dma_op[t]), Own(v) \cap dma_regions' = {},
         dma_mapped' = dma_regions' \cup Mapping(v) \cup MapOthers(t), dma_mapped' \subseteq dma_mapped, TreeDistinct'
  PROVE  DmaIInv'
<1>1. /\ DmaTyped /\ DmaIds /\ DmaApart
      /\ dma_regions \subseteq Regions /\ page_pins \in [Pages -> Int] /\ locked_vm \in [Procs -> Int]
      /\ Own(dma_op[t]) \cap Others(t) = {} /\ Others(t) \cap dma_regions = {}
      /\ (\A r \in dma_mapped : r.iova # 0)
      /\ LiveRegions = dma_regions \cup Own(dma_op[t]) \cup Others(t) /\ LiveRegions \subseteq Regions
      /\ Balanced(page_pins, locked_vm, LiveRegions)
  BY DmaBefore
<1>2. LiveRegions' = dma_regions' \cup Own(v) \cup Others(t)
  BY <1>1, OtherOps
<1>3. LiveRegions' = LiveRegions
  BY <1>1, <1>2
<1>4. dma_regions' \subseteq Regions /\ Own(v) \subseteq Regions
  BY <1>1
<1>5. v.pc \in Busy => v.region \in Regions
  BY <1>4 DEF Own
<1>6. Own(v) \cap Others(t) = {} /\ Others(t) \cap dma_regions' = {}
  BY <1>1
<1>7. DmaIds'
  BY <1>1, <1>3 DEF DmaIds
<1>8. Balanced(page_pins', locked_vm', LiveRegions')
  BY <1>1, <1>3
<1>9. \A r \in dma_mapped' : r.iova # 0
  BY <1>1
<1>10. page_pins' \in [Pages -> Int] /\ locked_vm' \in [Procs -> Int] /\ UNCHANGED <<dma_fds, dma_iommu>>
  BY <1>1
<1> QED BY <1>1, <1>4, <1>5, <1>6, <1>7, <1>8, <1>9, <1>10, DmaStep

LEMMA DmaAdds ==
  ASSUME DmaIInv, NEW t \in DmaThreads, map_add(t)
  PROVE  DmaIInv'
<1>0. /\ dma_op[t].pc = "mapped" /\ dma_fds /\ UNCHANGED <<dma_fds, dma_iommu, page_pins, locked_vm>>
      /\ dma_mapped' = dma_mapped
      /\ dma_mapped = dma_regions \cup Mapping(dma_op[t]) \cup MapOthers(t) /\ TreeDistinct
      /\ Own(dma_op[t]) \cap dma_regions = {}
  BY DmaBefore DEF map_add
<1>1. PICK r : r = dma_op[t].region
  OBVIOUS
<1>2. Own(dma_op[t]) = {r} /\ Mapping(dma_op[t]) = {r}
  BY <1>0, <1>1 DEF Own, Mapping, Busy
<1>3. PICK ret \in afu_dma_region_add(r) :
        /\ DmaGoto(t, IF ret = "ok" THEN "copy" ELSE "unmapping", r)
        /\ dma_regions' = IF ret = "ok" THEN dma_regions \cup {r} ELSE dma_regions
  BY <1>1 DEF map_add
<1>4. CASE ret = "ok"
  <2>1. \A q \in dma_regions : q.iova # r.iova
    BY <1>3, <1>4 DEF afu_dma_region_add
  <2> DEFINE v == [pc |-> "copy", region |-> r]
  <2>2. /\ dma_op' = [dma_op EXCEPT ![t] = v] /\ dma_regions' = dma_regions \cup {r}
        /\ Own(v) = {} /\ Mapping(v) = {} /\ v.pc \in Busy \cup {"none", "copy", "unmap"}
    BY <1>3, <1>4 DEF DmaGoto, Own, Mapping, Busy
  <2>3. TreeDistinct'
    BY <1>0, <2>1, <2>2 DEF TreeDistinct
  <2> HIDE DEF v
  <2>4. /\ dma_regions' \cup Own(v) = dma_regions \cup Own(dma_op[t]) /\ Own(v) \cap dma_regions' = {}
        /\ dma_mapped' = dma_regions' \cup Mapping(v) \cup MapOthers(t) /\ dma_mapped' \subseteq dma_mapped
    BY <1>0, <1>2, <2>2
  <2> QED BY <1>0, <2>2, <2>3, <2>4, DmaKeepsLive
<1>5. CASE ret # "ok"
  <2> DEFINE v == [pc |-> "unmapping", region |-> r]
  <2>1. /\ dma_op' = [dma_op EXCEPT ![t] = v] /\ dma_regions' = dma_regions
        /\ Own(v) = {r} /\ Mapping(v) = {r} /\ v.pc \in Busy \cup {"none", "copy", "unmap"}
    BY <1>3, <1>5 DEF DmaGoto, Own, Mapping, Busy
  <2>2. TreeDistinct'
    BY <1>0, <2>1 DEF TreeDistinct
  <2> HIDE DEF v
  <2>3. /\ dma_regions' \cup Own(v) = dma_regions \cup Own(dma_op[t]) /\ Own(v) \cap dma_regions' = {}
        /\ dma_mapped' = dma_regions' \cup Mapping(v) \cup MapOthers(t) /\ dma_mapped' \subseteq dma_mapped
    BY <1>0, <1>2, <2>1
  <2> QED BY <1>0, <2>1, <2>2, <2>3, DmaKeepsLive
<1> QED BY <1>4, <1>5

\* A thread goes on without a region of its own.
LEMMA DmaGoesOn ==
  ASSUME DmaIInv, NEW t \in DmaThreads, NEW v, dma_op' = [dma_op EXCEPT ![t] = v], dma_fds,
         dma_op[t].pc \in {"none", "copy", "unmap"}, v.pc \in {"none", "copy", "unmap"},
         UNCHANGED <<dma_iommu, dma_regions, page_pins, dma_mapped, locked_vm, dma_fds>>
  PROVE  DmaIInv'
<1>1. /\ Own(v) = {} /\ Mapping(v) = {} /\ v.pc \in Busy \cup {"none", "copy", "unmap"}
      /\ Own(dma_op[t]) = {} /\ Mapping(dma_op[t]) = {}
  BY DEF Own, Mapping, Busy
<1>2. dma_mapped = dma_regions \cup Mapping(dma_op[t]) \cup MapOthers(t) /\ TreeDistinct
  BY DmaBefore
<1>3. TreeDistinct'
  BY <1>2 DEF TreeDistinct
<1>4. /\ dma_regions' \cup Own(v) = dma_regions \cup Own(dma_op[t]) /\ Own(v) \cap dma_regions' = {}
      /\ dma_mapped' = dma_regions' \cup Mapping(v) \cup MapOthers(t) /\ dma_mapped' \subseteq dma_mapped
  BY <1>1, <1>2
<1> QED BY <1>1, <1>3, <1>4, DmaKeepsLive

LEMMA DmaAsks ==
  ASSUME DmaIInv, NEW t \in DmaThreads, map_copy(t) \/ \E a : afu_ioctl_dma_unmap(t, a)
  PROVE  DmaIInv'
<1>1. /\ dma_op[t].pc \in {"none", "copy"} /\ (dma_op[t].pc # "copy" => dma_fds)
      /\ UNCHANGED <<dma_iommu, dma_regions, page_pins, dma_mapped, locked_vm, dma_fds>>
  BY DEF map_copy, afu_ioctl_dma_unmap
<1>2. dma_fds
  BY <1>1, DmaBefore
<1>3. \/ dma_op' = [dma_op EXCEPT ![t] = DmaIdle]
      \/ \E r : dma_op' = [dma_op EXCEPT ![t] = [pc |-> "unmap", region |-> r]]
  BY DEF map_copy, afu_ioctl_dma_unmap, DmaGoto
<1>4. PICK v : dma_op' = [dma_op EXCEPT ![t] = v] /\ v.pc \in {"none", "unmap"}
  <2>1. CASE dma_op' = [dma_op EXCEPT ![t] = DmaIdle]
    <3>1. DmaIdle.pc = "none"
      BY DEF DmaIdle
    <3> QED BY <2>1, <3>1
  <2>2. ASSUME NEW r, dma_op' = [dma_op EXCEPT ![t] = [pc |-> "unmap", region |-> r]]
        PROVE  \E v : dma_op' = [dma_op EXCEPT ![t] = v] /\ v.pc \in {"none", "unmap"}
    <3> DEFINE v == [pc |-> "unmap", region |-> r]
    <3>1. v.pc = "unmap" /\ dma_op' = [dma_op EXCEPT ![t] = v]
      BY <2>2
    <3> HIDE DEF v
    <3> QED BY <3>1
  <2> QED BY <1>3, <2>1, <2>2
<1> QED BY <1>1, <1>2, <1>4, DmaGoesOn

LEMMA DmaFinds ==
  ASSUME DmaIInv, NEW t \in DmaThreads, afu_dma_unmap_region(t)
  PROVE  DmaIInv'
<1>0. /\ dma_op[t].pc = "unmap" /\ dma_fds /\ UNCHANGED <<dma_fds, dma_iommu, page_pins, locked_vm>>
      /\ dma_mapped' = dma_mapped /\ dma_regions \subseteq Regions
      /\ dma_mapped = dma_regions \cup Mapping(dma_op[t]) \cup MapOthers(t) /\ TreeDistinct
      /\ Own(dma_op[t]) = {} /\ Mapping(dma_op[t]) = {}
  BY DmaBefore DEF afu_dma_unmap_region, Own, Mapping, Busy
<1>1. PICK r \in afu_dma_region_find(dma_regions, dma_op[t].region.iova, 0) :
        /\ dma_op' = [dma_op EXCEPT ![t] = IF r = NoRegion THEN DmaIdle ELSE [pc |-> "unmapping", region |-> r]]
        /\ dma_regions' = dma_regions \ {r}
  BY DEF afu_dma_unmap_region
<1>2. r = NoRegion \/ r \in dma_regions
  BY DEF afu_dma_region_find
<1>3. NoRegion \notin Regions
  <2>1. NoRegion.id = 0 /\ 0 \notin 1..MaxRegions
    BY DmaAssumption DEF NoRegion
  <2> QED BY <2>1, RegionIs
<1>4. CASE r = NoRegion
  <2>1. dma_op' = [dma_op EXCEPT ![t] = DmaIdle] /\ dma_regions' = dma_regions /\ DmaIdle.pc = "none"
    BY <1>0, <1>1, <1>3, <1>4 DEF DmaIdle
  <2>2. UNCHANGED <<dma_iommu, dma_regions, page_pins, dma_mapped, locked_vm, dma_fds>>
        /\ DmaIdle.pc \in {"none", "copy", "unmap"} /\ dma_op[t].pc \in {"none", "copy", "unmap"}
    BY <1>0, <2>1
  <2> QED BY <1>0, <2>1, <2>2, DmaGoesOn
<1>5. CASE r \in dma_regions
  <2> DEFINE v == [pc |-> "unmapping", region |-> r]
  <2>1. /\ dma_op' = [dma_op EXCEPT ![t] = v] /\ dma_regions' = dma_regions \ {r}
        /\ Own(v) = {r} /\ Mapping(v) = {r} /\ v.pc \in Busy \cup {"none", "copy", "unmap"}
    BY <1>0, <1>1, <1>3, <1>5 DEF Own, Mapping, Busy
  <2>2. TreeDistinct'
    BY <1>0, <2>1 DEF TreeDistinct
  <2> HIDE DEF v
  <2>3. /\ dma_regions' \cup Own(v) = dma_regions \cup Own(dma_op[t]) /\ Own(v) \cap dma_regions' = {}
        /\ dma_mapped' = dma_regions' \cup Mapping(v) \cup MapOthers(t) /\ dma_mapped' \subseteq dma_mapped
    BY <1>0, <1>5, <2>1
  <2> QED BY <1>0, <2>1, <2>2, <2>3, DmaKeepsLive
<1> QED BY <1>2, <1>4, <1>5

LEMMA DmaUnmaps ==
  ASSUME DmaIInv, NEW t \in DmaThreads, unmap_dma(t)
  PROVE  DmaIInv'
<1>0. /\ dma_op[t].pc = "unmapping" /\ dma_fds /\ UNCHANGED <<dma_fds, dma_iommu, page_pins, locked_vm, dma_regions>>
      /\ dma_mapped = dma_regions \cup Mapping(dma_op[t]) \cup MapOthers(t) /\ TreeDistinct
      /\ MapOthers(t) \subseteq Others(t)
      /\ Own(dma_op[t]) \cap dma_regions = {} /\ Own(dma_op[t]) \cap Others(t) = {}
  BY DmaBefore DEF unmap_dma
<1>1. PICK r : r = dma_op[t].region
  OBVIOUS
<1> DEFINE v == [pc |-> "unpinning", region |-> r]
<1>2. /\ dma_op' = [dma_op EXCEPT ![t] = v] /\ dma_mapped' = dma_mapped \ {r}
      /\ Own(v) = {r} /\ Mapping(v) = {} /\ v.pc \in Busy \cup {"none", "copy", "unmap"}
      /\ Own(dma_op[t]) = {r} /\ Mapping(dma_op[t]) = {r}
  BY <1>0, <1>1 DEF unmap_dma, DmaGoto, Own, Mapping, Busy
<1>3. TreeDistinct'
  BY <1>0 DEF TreeDistinct
<1> HIDE DEF v
<1>4. /\ dma_regions' \cup Own(v) = dma_regions \cup Own(dma_op[t]) /\ Own(v) \cap dma_regions' = {}
      /\ dma_mapped' = dma_regions' \cup Mapping(v) \cup MapOthers(t) /\ dma_mapped' \subseteq dma_mapped
  BY <1>0, <1>2
<1> QED BY <1>0, <1>2, <1>3, <1>4, DmaKeepsLive

-----------------------------------------------------------------------------
(* Steps that pin and unpin.                                               *)

\* There is a number for one more region.
LEMMA FreeIdIs ==
  ASSUME IsFiniteSet(LiveRegions), LiveRegions \subseteq Regions, Cardinality(LiveRegions) < MaxRegions
  PROVE  FreeId \in 1..MaxRegions /\ \A q \in LiveRegions : q.id # FreeId
<1> DEFINE ids == {r.id : r \in LiveRegions}
           free == 1..MaxRegions \ ids
           f == [r \in LiveRegions |-> r.id]
<1>1. f \in Surjection(LiveRegions, ids)
  BY DEF Surjection
<1>2. IsFiniteSet(ids) /\ Cardinality(ids) <= Cardinality(LiveRegions)
  <2> HIDE DEF f, ids
  <2> QED BY <1>1, FS_Surjection
<1>3. PICK n \in Nat, k \in Nat : n = MaxRegions /\ k = Cardinality(ids)
  BY <1>2, DmaAssumption, FS_CardinalityType
<1>4. k < n
  <2>1. PICK l \in Nat : l = Cardinality(LiveRegions)
    BY FS_CardinalityType
  <2> QED BY <1>2, <1>3, <2>1
<1>5. Cardinality(1..n) = n
  BY FS_Interval
<1>6. free # {}
  <2> SUFFICES ASSUME free = {} PROVE FALSE
    OBVIOUS
  <2>1. 1..n \in SUBSET ids
    BY <1>3
  <2> HIDE DEF ids
  <2>2. Cardinality(1..n) <= Cardinality(ids)
    BY <1>2, <2>1, FS_Subset
  <2> QED BY <1>3, <1>4, <1>5, <2>2
<1>7. free \in SUBSET Nat
  BY <1>3
<1>8. \E x \in free : \A y \in free : x <= y
  <2> HIDE DEF free
  <2> QED BY <1>6, <1>7, LeastNumber
<1>9. FreeId = CHOOSE x \in free : \A y \in free : x <= y
  BY DEF FreeId, Min
<1>10. FreeId \in free
  <2> HIDE DEF free
  <2> QED BY <1>8, <1>9
<1> QED BY <1>10

LEMMA DmaPins ==
  ASSUME ~Legacy, DmaIInv, NEW t \in DmaThreads, NEW u \in Pages, NEW n \in 1..Cardinality(Pages), afu_dma_map_region(t, u, n)
  PROVE  DmaIInv'
<1>0. /\ dma_op[t].pc = "none" /\ dma_fds /\ Cardinality(LiveRegions) < MaxRegions
      /\ UNCHANGED <<dma_iommu, dma_regions, dma_mapped, dma_fds>>
  BY DEF afu_dma_map_region
<1>1. /\ DmaTyped /\ DmaIds /\ DmaApart /\ TreeDistinct
      /\ dma_regions \subseteq Regions /\ page_pins \in [Pages -> Int] /\ locked_vm \in [Procs -> Int]
      /\ Others(t) \cap dma_regions = {}
      /\ dma_mapped = dma_regions \cup Mapping(dma_op[t]) \cup MapOthers(t)
      /\ (\A r \in dma_mapped : r.iova # 0)
      /\ LiveRegions = dma_regions \cup Own(dma_op[t]) \cup Others(t) /\ LiveRegions \subseteq Regions
      /\ Balanced(page_pins, locked_vm, LiveRegions) /\ IsFiniteSet(LiveRegions) /\ ProcOf[t] \in Procs
  BY DmaBefore
<1>2. Own(dma_op[t]) = {} /\ Mapping(dma_op[t]) = {}
  BY <1>0 DEF Own, Mapping, Busy
<1>3. FreeId \in 1..MaxRegions /\ \A q \in LiveRegions : q.id # FreeId
  BY <1>0, <1>1, FreeIdIs
<1>4. PICK r : r = [id |-> FreeId, user_addr |-> u, length |-> n, iova |-> 0, by |-> ProcOf[t]]
  OBVIOUS
<1>5. r \in Regions /\ r.length = n /\ r.id = FreeId /\ r \notin LiveRegions
  BY <1>1, <1>3, <1>4 DEF Regions
<1>6. PICK o \in afu_dma_pin_pages(ProcOf[t], r) :
        /\ page_pins' = o.pins /\ locked_vm' = o.vm
        /\ dma_op' = [dma_op EXCEPT ![t] = IF o.ret = "ok" THEN [pc |-> "pinned", region |-> r] ELSE DmaIdle]
  BY <1>4 DEF afu_dma_map_region
<1>7. o = NotPinned(page_pins) \/ o = Pinned(ProcOf[t], r)
  BY <1>6 DEF afu_dma_pin_pages
<1>8. CASE o = NotPinned(page_pins)
  <2>1. /\ dma_op' = [dma_op EXCEPT ![t] = DmaIdle] /\ page_pins' = page_pins /\ locked_vm' = locked_vm
    BY <1>6, <1>8 DEF NotPinned
  <2>2. UNCHANGED <<dma_iommu, dma_regions, page_pins, dma_mapped, locked_vm, dma_fds>>
        /\ DmaIdle.pc \in {"none", "copy", "unmap"} /\ dma_op[t].pc \in {"none", "copy", "unmap"}
    BY <1>0, <2>1 DEF DmaIdle
  <2> QED BY <1>0, <2>1, <2>2, DmaGoesOn
<1>9. CASE o = Pinned(ProcOf[t], r)
  <2> DEFINE v == [pc |-> "pinned", region |-> r]
  <2>1. /\ dma_op' = [dma_op EXCEPT ![t] = v]
        /\ page_pins' = [p \in Pages |-> page_pins[p] + (IF p \in PagesOf(r) THEN 1 ELSE 0)]
        /\ locked_vm' = [locked_vm EXCEPT ![ProcOf[t]] = @ + r.length]
    BY <1>6, <1>9 DEF Pinned, Pin, Account
  <2>2. Own(v) = {r} /\ Mapping(v) = {} /\ v.pc \in Busy \cup {"none", "copy", "unmap"} /\ (v.pc \in Busy => v.region \in Regions)
    BY <1>5 DEF Own, Mapping, Busy
  <2> HIDE DEF v
  <2>3. LiveRegions' = LiveRegions \cup {r}
    <3>1. LiveRegions' = dma_regions' \cup Own(v) \cup Others(t)
      BY <1>1, <2>1, OtherOps
    <3> QED BY <1>0, <1>1, <1>2, <2>2, <3>1
  <2>4. DmaIds'
    <3>1. IsFiniteSet(LiveRegions')
      BY <1>1, <2>3, FS_AddElement
    <3> QED BY <1>1, <1>3, <1>5, <2>3, <3>1 DEF DmaIds
  <2>5. Balanced(page_pins', locked_vm', LiveRegions')
    <3>1. Balanced([p \in Pages |-> page_pins[p] + (IF p \in PagesOf(r) THEN 1 ELSE 0)],
                   [locked_vm EXCEPT ![ProcOf[t]] = @ + r.length], LiveRegions \cup {r})
      BY <1>1, <1>5, BalanceAdds
    <3> QED BY <2>1, <2>3, <3>1
  <2>6. page_pins' \in [Pages -> Int] /\ locked_vm' \in [Procs -> Int]
    <3>1. r.length \in Int
      BY <1>5, RegionIs
    <3> QED BY <1>1, <2>1, <3>1
  <2>7. /\ Own(v) \cap dma_regions' = {} /\ Own(v) \cap Others(t) = {} /\ Others(t) \cap dma_regions' = {}
        /\ dma_mapped' = dma_regions' \cup Mapping(v) \cup MapOthers(t)
        /\ dma_regions' \subseteq Regions /\ (\A q \in dma_mapped' : q.iova # 0)
    BY <1>0, <1>1, <1>2, <1>5, <2>2
  <2>8. TreeDistinct' /\ UNCHANGED <<dma_fds, dma_iommu>>
    BY <1>0, <1>1 DEF TreeDistinct
  <2> QED BY <1>0, <1>1, <2>1, <2>2, <2>4, <2>5, <2>6, <2>7, <2>8, DmaStep
<1> QED BY <1>7, <1>8, <1>9

\* A thread puts the pages of the region it works on, which is not mapped.
LEMMA DmaUnpins ==
  ASSUME ~Legacy, DmaIInv, NEW t \in DmaThreads, dma_op[t].pc \in {"pinned", "unpinning"},
         afu_dma_unpin_pages(t, dma_op[t].region), dma_op' = [dma_op EXCEPT ![t] = DmaIdle],
         UNCHANGED <<dma_iommu, dma_regions, dma_mapped, dma_fds>>
  PROVE  DmaIInv'
<1>1. /\ DmaTyped /\ DmaIds /\ DmaApart /\ TreeDistinct /\ dma_fds
      /\ dma_regions \subseteq Regions /\ page_pins \in [Pages -> Int] /\ locked_vm \in [Procs -> Int]
      /\ Own(dma_op[t]) \cap dma_regions = {} /\ Own(dma_op[t]) \cap Others(t) = {} /\ Others(t) \cap dma_regions = {}
      /\ dma_mapped = dma_regions \cup Mapping(dma_op[t]) \cup MapOthers(t)
      /\ (\A r \in dma_mapped : r.iova # 0)
      /\ LiveRegions = dma_regions \cup Own(dma_op[t]) \cup Others(t) /\ LiveRegions \subseteq Regions
      /\ Balanced(page_pins, locked_vm, LiveRegions) /\ IsFiniteSet(LiveRegions) /\ ProcOf[t] \in Procs
      /\ dma_op[t].region \in Regions
  BY DmaBefore DEF Busy
<1>2. PICK r \in Regions : r = dma_op[t].region
  BY <1>1
<1>3. Own(dma_op[t]) = {r} /\ Mapping(dma_op[t]) = {}
  BY <1>2 DEF Own, Mapping, Busy
<1>4. Own(DmaIdle) = {} /\ Mapping(DmaIdle) = {} /\ DmaIdle.pc = "none" /\ DmaIdle.pc \notin Busy
  BY DEF Own, Mapping, Busy, DmaIdle
<1> DEFINE rest == LiveRegions \ {r}
<1>5. LiveRegions' = rest
  <2>1. LiveRegions' = dma_regions' \cup Own(DmaIdle) \cup Others(t)
    BY <1>1, OtherOps
  <2> QED BY <1>1, <1>3, <1>4, <2>1
<1>6. IsFiniteSet(rest) /\ rest \subseteq Regions /\ r \notin rest /\ LiveRegions = rest \cup {r}
  BY <1>1, <1>3, FS_RemoveElement
<1>7. DmaIds'
  BY <1>1, <1>5, <1>6 DEF DmaIds
<1> HIDE DEF rest
<1>8. /\ page_pins' = [p \in Pages |-> page_pins[p] + (IF p \in PagesOf(r) THEN -1 ELSE 0)]
      /\ locked_vm' = [locked_vm EXCEPT ![ProcOf[t]] = @ - r.length]
  BY <1>2 DEF afu_dma_unpin_pages, Pin, adjust_locked_vm_dec
<1>9. Balanced(page_pins', locked_vm', LiveRegions')
  <2>1. Balanced(page_pins, locked_vm, rest \cup {r})
    BY <1>1, <1>6
  <2>2. Balanced([p \in Pages |-> page_pins[p] + (IF p \in PagesOf(r) THEN -1 ELSE 0)],
                 [locked_vm EXCEPT ![ProcOf[t]] = @ - r.length], rest)
    BY <1>1, <1>6, <2>1, BalanceRemoves
  <2> QED BY <1>5, <1>8, <2>2
<1>10. page_pins' \in [Pages -> Int] /\ locked_vm' \in [Procs -> Int]
  <2>1. r.length \in Int
    BY RegionIs
  <2> QED BY <1>1, <1>8, <2>1
<1>11. /\ Own(DmaIdle) \cap dma_regions' = {} /\ Own(DmaIdle) \cap Others(t) = {} /\ Others(t) \cap dma_regions' = {}
       /\ dma_mapped' = dma_regions' \cup Mapping(DmaIdle) \cup MapOthers(t)
       /\ dma_regions' \subseteq Regions /\ (\A q \in dma_mapped' : q.iova # 0)
       /\ DmaIdle.pc \in Busy \cup {"none", "copy", "unmap"} /\ (DmaIdle.pc \in Busy => DmaIdle.region \in Regions)
  BY <1>1, <1>3, <1>4
<1>12. TreeDistinct' /\ UNCHANGED <<dma_fds, dma_iommu>>
  BY <1>1 DEF TreeDistinct
<1> QED BY <1>1, <1>7, <1>9, <1>10, <1>11, <1>12, DmaStep

\* A thread maps the region it pinned.
LEMMA DmaMapsPinned ==
  ASSUME DmaIInv, NEW t \in DmaThreads, dma_op[t].pc = "pinned", NEW a \in MapsTo(dma_op[t].region),
         NEW m, m = [dma_op[t].region EXCEPT !.iova = a],
         DmaGoto(t, "mapped", m), dma_mapped' = dma_mapped \cup {m},
         UNCHANGED <<page_pins, locked_vm, dma_iommu, dma_regions, dma_fds>>
  PROVE  DmaIInv'
<1>1. /\ DmaTyped /\ DmaIds /\ DmaApart /\ TreeDistinct /\ dma_fds
      /\ dma_regions \subseteq Regions /\ page_pins \in [Pages -> Int] /\ locked_vm \in [Procs -> Int]
      /\ Own(dma_op[t]) \cap dma_regions = {} /\ Own(dma_op[t]) \cap Others(t) = {} /\ Others(t) \cap dma_regions = {}
      /\ dma_mapped = dma_regions \cup Mapping(dma_op[t]) \cup MapOthers(t)
      /\ (\A r \in dma_mapped : r.iova # 0)
      /\ LiveRegions = dma_regions \cup Own(dma_op[t]) \cup Others(t) /\ LiveRegions \subseteq Regions
      /\ Balanced(page_pins, locked_vm, LiveRegions) /\ IsFiniteSet(LiveRegions)
      /\ dma_op[t].region \in Regions
  BY DmaBefore DEF Busy
<1>2. PICK r \in Regions : r = dma_op[t].region
  BY <1>1
<1>3. a \in Nat /\ a # 0
  BY <1>1, <1>2, DmaAssumption DEF MapsTo, Regions
<1>4. m \in Regions /\ m.id = r.id /\ m.user_addr = r.user_addr /\ m.length = r.length /\ m.iova # 0
  BY <1>2, <1>3 DEF Regions
<1>5. Own(dma_op[t]) = {r} /\ Mapping(dma_op[t]) = {}
  BY <1>2 DEF Own, Mapping, Busy
<1> DEFINE v == [pc |-> "mapped", region |-> m]
           rest == LiveRegions \ {r}
<1>6. /\ dma_op' = [dma_op EXCEPT ![t] = v] /\ Own(v) = {m} /\ Mapping(v) = {m}
      /\ v.pc \in Busy \cup {"none", "copy", "unmap"} /\ (v.pc \in Busy => v.region \in Regions)
  BY <1>4 DEF DmaGoto, Own, Mapping, Busy
<1> HIDE DEF v
<1>7. IsFiniteSet(rest) /\ rest \subseteq Regions /\ r \notin rest /\ LiveRegions = rest \cup {r} /\ r \in LiveRegions
  BY <1>1, <1>5, FS_RemoveElement
<1>8. m \notin rest /\ dma_regions \cup Others(t) = rest
  <2>1. m \notin rest
    BY <1>1, <1>4, <1>7 DEF DmaIds
  <2> QED BY <1>1, <1>5, <2>1
<1>9. LiveRegions' = rest \cup {m}
  <2>1. LiveRegions' = dma_regions' \cup Own(v) \cup Others(t)
    BY <1>1, <1>6, OtherOps
  <2> QED BY <1>6, <1>8, <2>1
<1>10. DmaIds'
  <2>1. IsFiniteSet(LiveRegions')
    BY <1>7, <1>9, FS_AddElement
  <2>2. \A q \in rest : q.id # m.id
    BY <1>1, <1>4, <1>7 DEF DmaIds
  <2>3. \A q, s \in rest : q.id = s.id => q = s
    BY <1>1 DEF DmaIds
  <2> HIDE DEF rest
  <2> QED BY <1>9, <2>1, <2>2, <2>3 DEF DmaIds
<1>11. Balanced(page_pins', locked_vm', LiveRegions')
  <2> HIDE DEF rest
  <2>1. Balanced(page_pins, locked_vm, rest \cup {r})
    BY <1>1, <1>7
  <2>2. Balanced(page_pins, locked_vm, rest \cup {m})
    BY <1>4, <1>7, <1>8, <2>1, BalanceMoves
  <2> QED BY <1>9, <2>2
<1>12. /\ Own(v) \cap dma_regions' = {} /\ Own(v) \cap Others(t) = {} /\ Others(t) \cap dma_regions' = {}
       /\ dma_mapped' = dma_regions' \cup Mapping(v) \cup MapOthers(t)
       /\ dma_regions' \subseteq Regions /\ (\A q \in dma_mapped' : q.iova # 0)
  BY <1>1, <1>4, <1>5, <1>6, <1>8
<1>13. TreeDistinct' /\ UNCHANGED <<dma_fds, dma_iommu>> /\ page_pins' \in [Pages -> Int] /\ locked_vm' \in [Procs -> Int]
  BY <1>1 DEF TreeDistinct
<1> QED BY <1>1, <1>6, <1>10, <1>11, <1>12, <1>13, DmaStep

LEMMA DmaCloses ==
  ASSUME ~Legacy, DmaIInv, NEW t \in DmaThreads, dma_last_close(t)
  PROVE  DmaIInv'
<1>0. /\ \A u \in DmaThreads : dma_op[u].pc = "none"
      /\ dma_fds' = FALSE /\ UNCHANGED <<dma_iommu, dma_op>>
      /\ dma_regions' = {} /\ dma_mapped' = dma_mapped \ {r \in dma_regions : r.iova # 0}
      /\ page_pins' = [p \in Pages |-> page_pins[p] - Cardinality(Having(dma_regions, p))]
      /\ locked_vm' = [locked_vm EXCEPT ![ProcOf[t]] = @ - Total(dma_regions)]
  BY DEF dma_last_close, afu_dma_region_destroy, adjust_locked_vm_dec, Having, Total
<1>1. /\ DmaTyped /\ page_pins \in [Pages -> Int] /\ locked_vm \in [Procs -> Int] /\ dma_regions \subseteq Regions
      /\ (\A r \in dma_mapped : r.iova # 0) /\ DmaMaps
      /\ Balanced(page_pins, locked_vm, LiveRegions) /\ IsFiniteSet(LiveRegions) /\ ProcOf[t] \in Procs
  BY DmaBefore DEF DmaIInv
<1>2. \A u \in DmaThreads : InOp(u) = {} /\ Mapping(dma_op[u]) = {} /\ InOp(u)' = {} /\ Mapping(dma_op[u])' = {}
  BY <1>0 DEF InOp, Mapping
<1>3. LiveRegions = dma_regions /\ dma_mapped = dma_regions /\ LiveRegions' = {}
  BY <1>0, <1>1, <1>2 DEF LiveRegions, DmaMaps
<1>4. dma_mapped' = {}
  BY <1>0, <1>1, <1>3
<1>5. \A p \in Pages : page_pins'[p] = 0 /\ Cardinality(Having({}, p)) = 0
  <2> TAKE p \in Pages
  <2>1. page_pins[p] \in Int /\ page_pins[p] = Cardinality(Having(dma_regions, p))
    BY <1>1, <1>3 DEF Balanced
  <2>2. page_pins'[p] = 0
    BY <1>0, <2>1
  <2> QED BY <2>2, FS_EmptySet DEF Having
<1>6. SumFunction(locked_vm') = 0 /\ locked_vm' \in [Procs -> Int]
  <2>1. SumFunction(locked_vm) = Total(dma_regions) /\ 0 \in Int
    BY <1>1, <1>3 DEF Balanced
  <2>2. SumFunction(locked_vm) \in Int
    BY <1>1, <2>1, ChargesAdd
  <2>3. PICK n \in Int, w \in Int, i \in Int : n = Total(dma_regions) /\ w = 0 - n /\ i = locked_vm[ProcOf[t]]
    BY <1>1, <2>1, <2>2
  <2>4. i - n = i + w
    BY <2>3
  <2>5. locked_vm[ProcOf[t]] - Total(dma_regions) = locked_vm[ProcOf[t]] + w
    BY <2>3, <2>4
  <2>6. locked_vm' = [locked_vm EXCEPT ![ProcOf[t]] = @ + w]
    BY <1>0, <2>5, Zenon
  <2>7. SumFunction([locked_vm EXCEPT ![ProcOf[t]] = @ + w]) = SumFunction(locked_vm) + w
    BY <1>1, ChargesAdd
  <2>8. SumFunction(locked_vm') = n + w
    BY <2>1, <2>3, <2>6, <2>7
  <2> QED BY <1>1, <2>3, <2>6, <2>8
<1>7. PinsExact' /\ ChargedInTotal'
  <2>1. Balanced(page_pins', locked_vm', LiveRegions')
    BY <1>3, <1>5, <1>6, TotalOfNone DEF Balanced
  <2> QED BY <2>1, BalanceIsNext
<1>8. DmaTyped' /\ DmaClosed' /\ TreeDistinct'
  <2>1. page_pins' \in [Pages -> Int]
    BY <1>0, <1>5
  <2> QED BY <1>0, <1>1, <1>6, <2>1 DEF DmaTyped, DmaClosed, TreeDistinct, Busy
<1>9. DmaIds' /\ DmaApart' /\ DmaMaps'
  <2>1. DmaIds'
    BY <1>3, FS_EmptySet DEF DmaIds
  <2>2. DmaApart'
    BY <1>2 DEF DmaApart
  <2>3. DmaMaps'
    BY <1>0, <1>2, <1>4 DEF DmaMaps
  <2> QED BY <2>1, <2>2, <2>3
<1> QED BY <1>7, <1>8, <1>9 DEF DmaIInv

LEMMA DmaSame ==
  ASSUME DmaIInv, UNCHANGED <<dma_regions, dma_op, page_pins, dma_mapped, locked_vm>>,
         UNCHANGED <<dma_iommu, dma_fds>> \/ (dma_fds' = TRUE /\ dma_iommu' \in BOOLEAN)
  PROVE  DmaIInv'
<1>1. DmaTyped /\ DmaIds /\ DmaApart /\ DmaMaps /\ DmaClosed /\ TreeDistinct /\ PinsExact /\ ChargedInTotal
  BY DEF DmaIInv
<1>2. (\A u \in DmaThreads : InOp(u)' = InOp(u) /\ Mapping(dma_op[u])' = Mapping(dma_op[u])) /\ LiveRegions' = LiveRegions
  BY DEF InOp, Mapping, LiveRegions
<1>3. DmaTyped' /\ DmaClosed' /\ TreeDistinct'
  BY <1>1 DEF DmaTyped, DmaClosed, TreeDistinct
<1>4. DmaIds' /\ DmaApart' /\ PinsExact' /\ ChargedInTotal'
  BY <1>1, <1>2, BalanceIs, BalanceIsNext DEF DmaIds, DmaApart
<1>5. DmaMaps'
  BY <1>1, <1>2 DEF DmaMaps
<1> QED BY <1>3, <1>4, <1>5 DEF DmaIInv

LEMMA DmaNextIInv == ASSUME ~Legacy PROVE DmaIInv /\ [DmaNext]_dma_vars => DmaIInv'
<1> SUFFICES ASSUME DmaIInv, [DmaNext]_dma_vars PROVE DmaIInv'
  OBVIOUS
<1>1. CASE dma_open \/ UNCHANGED dma_vars
  BY <1>1, DmaSame DEF dma_open, dma_vars
<1>2. ASSUME NEW t \in DmaThreads, \E u \in Pages, n \in 1..Cardinality(Pages) : afu_dma_map_region(t, u, n)
      PROVE  DmaIInv'
  BY <1>2, DmaPins
<1>3. ASSUME NEW t \in DmaThreads, map_pinned(t) PROVE DmaIInv'
  <2>1. CASE \E a \in MapsTo(dma_op[t].region) :
               \E m : /\ m = [dma_op[t].region EXCEPT !.iova = a] /\ DmaGoto(t, "mapped", m)
                      /\ dma_mapped' = dma_mapped \cup {m} /\ UNCHANGED <<page_pins, locked_vm>>
    <3>1. dma_op[t].pc = "pinned" /\ UNCHANGED <<dma_iommu, dma_regions, dma_fds>>
      BY <1>3 DEF map_pinned
    <3>2. PICK a \in MapsTo(dma_op[t].region) :
            \E m : /\ m = [dma_op[t].region EXCEPT !.iova = a] /\ DmaGoto(t, "mapped", m)
                   /\ dma_mapped' = dma_mapped \cup {m} /\ UNCHANGED <<page_pins, locked_vm>>
      BY <2>1
    <3>3. PICK m : /\ m = [dma_op[t].region EXCEPT !.iova = a] /\ DmaGoto(t, "mapped", m)
                   /\ dma_mapped' = dma_mapped \cup {m} /\ UNCHANGED <<page_pins, locked_vm>>
      BY <3>2
    <3>4. UNCHANGED <<page_pins, locked_vm, dma_iommu, dma_regions, dma_fds>>
      BY <3>1, <3>3
    <3> QED BY <3>1, <3>3, <3>4, DmaMapsPinned
  <2>2. CASE /\ afu_dma_unpin_pages(t, dma_op[t].region) /\ dma_op' = [dma_op EXCEPT ![t] = DmaIdle]
             /\ UNCHANGED dma_mapped
    <3>1. dma_op[t].pc \in {"pinned", "unpinning"} /\ UNCHANGED <<dma_iommu, dma_regions, dma_mapped, dma_fds>>
      BY <1>3, <2>2 DEF map_pinned
    <3> QED BY <2>2, <3>1, DmaUnpins
  <2> QED BY <1>3, <2>1, <2>2 DEF map_pinned
<1>4. ASSUME NEW t \in DmaThreads, map_add(t) PROVE DmaIInv'
  BY <1>4, DmaAdds
<1>5. ASSUME NEW t \in DmaThreads, map_copy(t) \/ \E a : afu_ioctl_dma_unmap(t, a) PROVE DmaIInv'
  BY <1>5, DmaAsks
<1>6. ASSUME NEW t \in DmaThreads, afu_dma_unmap_region(t) PROVE DmaIInv'
  BY <1>6, DmaFinds
<1>7. ASSUME NEW t \in DmaThreads, unmap_dma(t) PROVE DmaIInv'
  BY <1>7, DmaUnmaps
<1>8. ASSUME NEW t \in DmaThreads, unmap_unpin(t) PROVE DmaIInv'
  <2>1. dma_op[t].pc \in {"pinned", "unpinning"} /\ UNCHANGED <<dma_iommu, dma_regions, dma_mapped, dma_fds>>
        /\ afu_dma_unpin_pages(t, dma_op[t].region) /\ dma_op' = [dma_op EXCEPT ![t] = DmaIdle]
    BY <1>8 DEF unmap_unpin
  <2> QED BY <2>1, DmaUnpins
<1>9. ASSUME NEW t \in DmaThreads, dma_last_close(t) PROVE DmaIInv'
  BY <1>9, DmaCloses
<1> QED BY <1>1, <1>2, <1>3, <1>4, <1>5, <1>6, <1>7, <1>8, <1>9 DEF DmaNext

\* In every run of the DMA regions of a port, on kernels that keep the account
\* themselves, what is pinned, mapped, charged and in the tree agree whatever
\* ioctls overlap, and the last close clears it (afu_dma_map_region,
\* afu_dma_unmap_region, afu_dma_region_destroy).
THEOREM DmaIsExact == ASSUME ~Legacy PROVE DmaSpec => []DmaRegionsExact
<1>1. DmaInit => DmaIInv
  <2> SUFFICES ASSUME DmaInit PROVE DmaIInv
    OBVIOUS
  <2>1. /\ dma_regions = {} /\ dma_mapped = {} /\ page_pins = [p \in Pages |-> 0] /\ locked_vm = [m \in Procs |-> 0]
        /\ dma_iommu = FALSE /\ dma_fds = FALSE
    BY DEF DmaInit
  <2>2. DOMAIN dma_op = DmaThreads /\ \A t \in DmaThreads : dma_op[t].pc = "none"
    BY DEF DmaInit, DmaIdle
  <2>3. (\A t \in DmaThreads : InOp(t) = {} /\ Mapping(dma_op[t]) = {}) /\ LiveRegions = {}
    <3>1. \A t \in DmaThreads : InOp(t) = {} /\ Mapping(dma_op[t]) = {}
      BY <2>2 DEF InOp, Mapping
    <3> QED BY <2>1, <3>1 DEF LiveRegions
  <2>4. DmaTyped
    <3>1. page_pins \in [Pages -> Int] /\ locked_vm \in [Procs -> Int]
      BY <2>1
    <3>2. dma_iommu \in BOOLEAN /\ dma_fds \in BOOLEAN
      BY <2>1, Zenon
    <3> QED BY <2>1, <2>2, <3>1, <3>2 DEF DmaTyped, Busy
  <2>5. DmaIds /\ DmaApart /\ DmaMaps /\ DmaClosed /\ TreeDistinct
    BY <2>1, <2>2, <2>3, FS_EmptySet DEF DmaIds, DmaApart, DmaMaps, DmaClosed, TreeDistinct
  <2>6. SumFunction(locked_vm) = 0
    BY <2>1, ZeroSum
  <2>7. Balanced(page_pins, locked_vm, LiveRegions)
    BY <2>1, <2>3, <2>6, TotalOfNone, FS_EmptySet DEF Balanced, Having
  <2> QED BY <2>4, <2>5, <2>7, BalanceIs DEF DmaIInv
<1>2. DmaIInv => DmaRegionsExact
  <2> SUFFICES ASSUME DmaIInv PROVE DmaRegionsExact
    OBVIOUS
  <2>1. DmaTyped /\ DmaIds /\ DmaApart /\ DmaMaps /\ DmaClosed /\ TreeDistinct /\ PinsExact /\ ChargedInTotal
    BY DEF DmaIInv
  <2>2. LiveRegions \subseteq Regions /\ IsFiniteSet(LiveRegions)
    BY <2>1, LiveInRegions DEF DmaIds
  <2>3. dma_mapped \subseteq LiveRegions /\ TreeIsMapped
    BY <2>1 DEF DmaMaps, Mapping, LiveRegions, InOp, TreeIsMapped
  <2>4. \A p \in Pages : /\ page_pins[p] = Cardinality(Having(LiveRegions, p)) /\ page_pins[p] \in Nat
                         /\ (Having(LiveRegions, p) # {} => page_pins[p] > 0)
    <3> TAKE p \in Pages
    <3>1. page_pins[p] = Cardinality(Having(LiveRegions, p))
      BY <2>1 DEF PinsExact, Having
    <3>2. IsFiniteSet(Having(LiveRegions, p))
      BY <2>2, FS_Subset DEF Having
    <3>3. Cardinality(Having(LiveRegions, p)) \in Nat
      BY <3>2, FS_CardinalityType
    <3>4. Having(LiveRegions, p) # {} => Cardinality(Having(LiveRegions, p)) # 0
      BY <3>2, FS_EmptySet
    <3> QED BY <3>1, <3>3, <3>4
  <2>5. DmaTypeOK
    <3>1. page_pins \in [Pages -> Nat]
      BY <2>1, <2>4 DEF DmaTyped
    <3>2. dma_mapped \subseteq Regions
      BY <2>2, <2>3
    <3> QED BY <2>1, <3>1, <3>2 DEF DmaTyped, DmaTypeOK, Busy
  <2>6. MappedIsPinned
    <3> SUFFICES ASSUME NEW r \in dma_mapped, NEW p \in PagesOf(r) PROVE page_pins[p] > 0
      BY DEF MappedIsPinned
    <3>1. p \in Pages /\ r \in Having(LiveRegions, p)
      BY <2>3 DEF Having, PagesOf
    <3> QED BY <2>4, <3>1
  <2>7. ClosedIsClean
    <3> SUFFICES ASSUME ~dma_fds PROVE dma_mapped = {} /\ \A p \in Pages : page_pins[p] = 0
      BY DEF ClosedIsClean
    <3>1. dma_regions = {} /\ \A t \in DmaThreads : InOp(t) = {} /\ Mapping(dma_op[t]) = {}
      BY <2>1 DEF DmaClosed, InOp, Mapping
    <3>2. LiveRegions = {} /\ dma_mapped = {}
      BY <2>1, <3>1 DEF LiveRegions, DmaMaps
    <3> QED BY <2>4, <3>2, FS_EmptySet DEF Having
  <2> QED BY <2>1, <2>3, <2>5, <2>6, <2>7 DEF DmaRegionsExact
<1> QED BY <1>1, <1>2, DmaNextIInv, PTL DEF DmaSpec

-----------------------------------------------------------------------------
(* Buffers of the CXL cache.                                               *)

CxlTyped ==
  /\ cxl_regions \subseteq Buffers /\ IsFiniteSet(cxl_regions)
  /\ cxl_op \in [pc : {"none", "pinned", "clear"}, buf : Buffers \cup {CxlNone}, named : Buffers \cup {CxlNone}]
  /\ cxl_pins \in [CxlPages -> Int]
  /\ cxl_count \in Nat /\ IsFiniteSet(cxl_minors) /\ cxl_class \in BOOLEAN

\* A map that pinned its buffer has room in the tree.
CxlRoom ==
  cxl_op.pc = "pinned" => cxl_op.buf \in Buffers /\ Cardinality(cxl_regions) < MaxBuffers

\* Each buffer of the tree has its depth there.
CxlTree == cxl_tree \in [cxl_regions -> Nat]

\* No more devices than were counted, and a class for them.
CxlCounted == Cardinality(cxl_minors) <= cxl_count /\ CxlClassInUse

CxlIInv == CxlTyped /\ CxlRoom /\ CxlTree /\ CxlCounted /\ CxlPinsExact

-----------------------------------------------------------------------------
LEMMA BufferIs ==
  ASSUME NEW r \in Buffers
  PROVE  r.user_addr \in Nat /\ r.length \in Nat /\ r.length >= 1 /\ r # CxlNone
<1>1. r.user_addr \in CxlPages /\ r.length \in 1..Cardinality(CxlPages) /\ Cardinality(CxlPages) \in Nat
  BY CxlAssumption, FS_CardinalityType DEF Buffers
<1>2. PICK n \in Nat : n = Cardinality(CxlPages)
  BY <1>1
<1>3. r.user_addr \in Nat /\ r.length \in 1..n
  BY <1>1, <1>2, CxlAssumption
<1>4. r.length \in Nat /\ r.length >= 1
  BY <1>2, <1>3
<1> QED BY <1>3, <1>4 DEF CxlNone

\* Whatever tree of some buffers is taken, it gives each of them a depth.
LEMMA TreesAre ==
  ASSUME NEW rs, IsFiniteSet(rs), NEW d \in RedBlackTrees(rs)
  PROVE  d \in [rs -> Nat]
<1>1. d \in [rs -> 0..(Cardinality(rs) - 1)] /\ Cardinality(rs) \in Nat
  BY FS_CardinalityType DEF RedBlackTrees
<1>2. PICK n \in Nat : n = Cardinality(rs)
  BY <1>1
<1>3. 0..(n - 1) \subseteq Nat
  BY <1>2
<1> QED BY <1>1, <1>2, <1>3

\* A search for a buffer of the tree finds one of the tree: if none above it
\* contains what is searched, the way ends at the buffer itself.
LEMMA FindsOne ==
  ASSUME CxlTyped, CxlTree, NEW n \in cxl_regions
  PROVE  cxl_cache_dma_region_find(n.user_addr, n.length) \in cxl_regions
<1> DEFINE hit == {q \in Path(cxl_tree, 2 * n.user_addr) : dma_region_check_user_addr(q, n.user_addr, n.length)}
           depths == {cxl_tree[q] : q \in hit}
<1>1. n \in Buffers /\ DOMAIN cxl_tree = cxl_regions /\ \A q \in cxl_regions : q.user_addr \in Nat /\ cxl_tree[q] \in Nat
  BY BufferIs DEF CxlTyped, CxlTree
<1>2. dma_region_check_user_addr(n, n.user_addr, n.length)
  BY <1>1, BufferIs DEF dma_region_check_user_addr
<1>3. n \in Path(cxl_tree, 2 * n.user_addr)
  <2>1. \A m \in cxl_regions : ~(Place(n) < Place(m) /\ Place(m) <= 2 * n.user_addr)
                               /\ ~(2 * n.user_addr <= Place(m) /\ Place(m) < Place(n))
    BY <1>1 DEF Place
  <2> QED BY <1>1, <2>1 DEF Path
<1>4. n \in hit /\ hit \subseteq cxl_regions
  BY <1>1, <1>2, <1>3 DEF Path
<1> HIDE DEF hit
<1>5. depths \in SUBSET Nat /\ depths # {}
  BY <1>1, <1>4
<1>6. PICK least \in depths : \A k \in depths : least <= k
  BY <1>5, LeastNumber
<1>7. \E q \in hit : \A m \in hit : cxl_tree[q] <= cxl_tree[m]
  BY <1>6
<1>8. cxl_cache_dma_region_find(n.user_addr, n.length) = CHOOSE q \in hit : \A m \in hit : cxl_tree[q] <= cxl_tree[m]
  BY <1>4 DEF cxl_cache_dma_region_find, hit
<1> QED BY <1>4, <1>7, <1>8

\* The buffers among rs that have page p.
With(rs, p) == {r \in rs : p \in CxlPagesOf(r)}

LEMMA WithAdds ==
  ASSUME NEW rs, IsFiniteSet(rs), NEW r, r \notin rs, NEW p
  PROVE  /\ Cardinality(With(rs, p)) \in Nat
         /\ Cardinality(With(rs \cup {r}, p)) = Cardinality(With(rs, p)) + (IF p \in CxlPagesOf(r) THEN 1 ELSE 0)
<1>1. IsFiniteSet(With(rs, p)) /\ r \notin With(rs, p)
  BY FS_Subset DEF With
<1>2. Cardinality(With(rs, p)) \in Nat
  BY <1>1, FS_CardinalityType
<1>3. With(rs \cup {r}, p) = IF p \in CxlPagesOf(r) THEN With(rs, p) \cup {r} ELSE With(rs, p)
  BY DEF With
<1> HIDE DEF With
<1>4. Cardinality(With(rs, p) \cup {r}) = Cardinality(With(rs, p)) + 1
  BY <1>1, FS_AddElement
<1> QED BY <1>2, <1>3, <1>4

LEMMA PinsAre ==
  CxlPinsExact <=> \A p \in CxlPages :
    cxl_pins[p] = Cardinality(With(cxl_regions, p))
                  + (IF cxl_op.pc = "pinned" /\ p \in CxlPagesOf(cxl_op.buf) THEN 1 ELSE 0)
  BY DEF CxlPinsExact, With
LEMMA PinsAreNext ==
  CxlPinsExact' <=> \A p \in CxlPages :
    cxl_pins'[p] = Cardinality(With(cxl_regions', p))
                   + (IF cxl_op'.pc = "pinned" /\ p \in CxlPagesOf(cxl_op'.buf) THEN 1 ELSE 0)
  BY DEF CxlPinsExact, With, CxlPagesOf

LEMMA CxlDevices ==
  ASSUME CxlIInv, dfl_cxl_cache_probe \/ \E id \in cxl_minors : dfl_cxl_cache_remove(id)
  PROVE  CxlIInv'
<1>0. /\ CxlTyped /\ CxlRoom /\ CxlTree /\ CxlCounted /\ CxlPinsExact
      /\ UNCHANGED <<cxl_opened, cxl_regions, cxl_tree, cxl_op, cxl_pins, cxl_ro, cxl_csr>>
      /\ IsFiniteSet(cxl_minors) /\ cxl_count \in Nat
  BY DEF CxlIInv, CxlTyped, dfl_cxl_cache_probe, dfl_cxl_cache_remove
<1>1. PICK m \in Nat : m = Cardinality(cxl_minors)
  BY <1>0, FS_CardinalityType
<1>2. CxlRoom' /\ CxlTree' /\ CxlPinsExact'
  BY <1>0 DEF CxlRoom, CxlTree, CxlPinsExact
<1>3. CxlTyped' /\ CxlCounted'
  <2>1. CASE dfl_cxl_cache_probe
    <3>1. cxl_class' = TRUE /\ cxl_count' = cxl_count + 1 /\ cxl_minors' = cxl_minors \cup {cxl_count}
      BY <2>1 DEF dfl_cxl_cache_probe
    <3>2. IsFiniteSet(cxl_minors') /\ Cardinality(cxl_minors') \in {m, m + 1}
      BY <1>0, <1>1, <3>1, FS_AddElement
    <3>3. m <= cxl_count
      BY <1>0, <1>1 DEF CxlCounted
    <3>4. CxlTyped'
      BY <1>0, <3>1, <3>2 DEF CxlTyped
    <3> QED BY <1>0, <1>1, <3>1, <3>2, <3>3, <3>4 DEF CxlCounted, CxlClassInUse
  <2>2. ASSUME NEW id \in cxl_minors, dfl_cxl_cache_remove(id) PROVE CxlTyped' /\ CxlCounted'
    <3>1. /\ cxl_minors' = cxl_minors \ {id} /\ cxl_count' = cxl_count - 1
          /\ cxl_class' = (cxl_class /\ cxl_count # 0)
      BY <2>2 DEF dfl_cxl_cache_remove
    <3>2. IsFiniteSet(cxl_minors') /\ Cardinality(cxl_minors') = m - 1
      BY <1>0, <1>1, <3>1, FS_RemoveElement
    <3>3. m # 0
      BY <1>0, <1>1, FS_EmptySet
    <3>4. m <= cxl_count /\ cxl_class
      BY <1>0, <1>1 DEF CxlCounted, CxlClassInUse
    <3>5. cxl_count' \in Nat /\ m - 1 <= cxl_count' /\ cxl_class'
      <4>1. PICK c \in Nat : c = cxl_count
        BY <1>0
      <4>2. c # 0 /\ c - 1 \in Nat /\ m - 1 <= c - 1
        BY <3>3, <3>4, <4>1
      <4>3. cxl_class'
        BY <3>1, <3>4, <4>1, <4>2, Zenon
      <4> QED BY <3>1, <4>1, <4>2, <4>3
    <3> QED BY <1>0, <3>1, <3>2, <3>5 DEF CxlTyped, CxlCounted, CxlClassInUse
  <2> QED BY <2>1, <2>2
<1> QED BY <1>2, <1>3 DEF CxlIInv

LEMMA CxlKeepsDevices ==
  ASSUME CxlCounted, UNCHANGED cxl_devs
  PROVE  CxlCounted'
  BY DEF CxlCounted, CxlClassInUse, cxl_devs

LEMMA CxlFile ==
  ASSUME CxlIInv, dfl_cxl_cache_open \/ dfl_cxl_cache_release
  PROVE  CxlIInv'
<1>0. CxlTyped /\ CxlRoom /\ CxlTree /\ CxlCounted /\ CxlPinsExact
  BY DEF CxlIInv
<1>1. CASE dfl_cxl_cache_open
  BY <1>0, <1>1
     DEF dfl_cxl_cache_open, CxlIInv, CxlTyped, CxlRoom, CxlTree, CxlCounted, CxlClassInUse, CxlPinsExact, cxl_devs
<1>2. CASE dfl_cxl_cache_release
  <2>1. /\ cxl_op.pc = "none" /\ cxl_regions' = {} /\ UNCHANGED <<cxl_op, cxl_devs>>
        /\ cxl_pins' = [p \in CxlPages |-> cxl_pins[p] - Cardinality(With(cxl_regions, p))]
    BY <1>2 DEF dfl_cxl_cache_release, cxl_cache_dma_region_destroy, With
  <2>2. \A p \in CxlPages : Cardinality(With(cxl_regions, p)) \in Nat /\ cxl_pins[p] = Cardinality(With(cxl_regions, p))
    <3>1. \A p \in CxlPages : IsFiniteSet(With(cxl_regions, p))
      BY <1>0, FS_Subset DEF CxlTyped, With
    <3>2. \A p \in CxlPages : Cardinality(With(cxl_regions, p)) \in Nat
      BY <3>1, FS_CardinalityType
    <3> QED BY <1>0, <2>1, <3>2, PinsAre
  <2>3. \A p \in CxlPages : cxl_pins'[p] = 0 /\ Cardinality(With(cxl_regions', p)) = 0
    BY <2>1, <2>2, FS_EmptySet DEF With
  <2>4. CxlPinsExact'
    BY <2>1, <2>3, PinsAreNext
  <2>5. CxlTyped'
    BY <1>0, <2>1, <2>3, FS_EmptySet DEF CxlTyped, cxl_devs
  <2>6. CxlRoom' /\ CxlTree'
    BY <1>2, <2>1 DEF dfl_cxl_cache_release, cxl_cache_dma_region_destroy, CxlRoom, CxlTree
  <2> QED BY <1>0, <2>1, <2>4, <2>5, <2>6, CxlKeepsDevices DEF CxlIInv
<1> QED BY <1>1, <1>2

LEMMA CxlPins ==
  ASSUME CxlIInv, NEW r \in Buffers, cxl_cache_dma_pin_pages(r)
  PROVE  CxlIInv'
<1>0. CxlTyped /\ CxlRoom /\ CxlTree /\ CxlCounted /\ CxlPinsExact
  BY DEF CxlIInv
<1>1. /\ cxl_op.pc = "none" /\ Cardinality(cxl_regions) < MaxBuffers
      /\ cxl_op' = [pc |-> "pinned", buf |-> r, named |-> r]
      /\ cxl_pins' = [p \in CxlPages |-> cxl_pins[p] + (IF p \in CxlPagesOf(r) THEN 1 ELSE 0)]
      /\ UNCHANGED <<cxl_regions, cxl_tree, cxl_devs>>
  BY DEF cxl_cache_dma_pin_pages, CxlPin
<1>2. \A p \in CxlPages : cxl_pins[p] \in Int
  BY <1>0 DEF CxlTyped
<1>3. CxlTyped'
  BY <1>0, <1>1, <1>2 DEF CxlTyped, cxl_devs
<1>4. CxlRoom' /\ CxlTree'
  BY <1>0, <1>1 DEF CxlRoom, CxlTree
<1>5. CxlPinsExact'
  <2>1. cxl_op'.pc = "pinned" /\ cxl_op'.buf = r
    BY <1>1
  <2>2. \A p \in CxlPages : cxl_pins[p] = Cardinality(With(cxl_regions, p)) + 0
    BY <1>0, <1>1, PinsAre
  <2>3. \A p \in CxlPages : cxl_pins'[p] = Cardinality(With(cxl_regions', p)) + (IF p \in CxlPagesOf(r) THEN 1 ELSE 0)
    <3> SUFFICES ASSUME NEW p \in CxlPages
                 PROVE  cxl_pins'[p] = Cardinality(With(cxl_regions', p)) + (IF p \in CxlPagesOf(r) THEN 1 ELSE 0)
      OBVIOUS
    <3>1. IsFiniteSet(With(cxl_regions, p))
      BY <1>0, FS_Subset DEF CxlTyped, With
    <3>2. PICK k \in Nat : k = Cardinality(With(cxl_regions, p))
      BY <3>1, FS_CardinalityType
    <3>3. cxl_pins[p] = k /\ cxl_pins'[p] = cxl_pins[p] + (IF p \in CxlPagesOf(r) THEN 1 ELSE 0)
      BY <1>1, <2>2, <3>2
    <3>4. With(cxl_regions', p) = With(cxl_regions, p)
      BY <1>1
    <3> QED BY <3>2, <3>3, <3>4
  <2> QED BY <2>1, <2>3, PinsAreNext
<1> QED BY <1>0, <1>1, <1>3, <1>4, <1>5, CxlKeepsDevices DEF CxlIInv

LEMMA CxlMaps ==
  ASSUME CxlIInv, NEW w \in BOOLEAN, cxl_cache_ioctl_numa_buffer_map(w)
  PROVE  CxlIInv'
<1>0. CxlTyped /\ CxlRoom /\ CxlTree /\ CxlCounted /\ CxlPinsExact
  BY DEF CxlIInv
<1>1. /\ cxl_op.pc = "pinned" /\ cxl_op.buf \in Buffers /\ Cardinality(cxl_regions) < MaxBuffers
      /\ UNCHANGED cxl_devs
  BY <1>0 DEF cxl_cache_ioctl_numa_buffer_map, CxlRoom
<1>2. PICK r \in Buffers : r = cxl_op.buf
  BY <1>1
<1>3. \A p \in CxlPages : /\ cxl_pins[p] \in Int
                          /\ cxl_pins[p] = Cardinality(With(cxl_regions, p)) + (IF p \in CxlPagesOf(r) THEN 1 ELSE 0)
  BY <1>0, <1>1, <1>2, PinsAre DEF CxlTyped
<1>4. IsFiniteSet(cxl_regions) /\ \A p \in CxlPages : Cardinality(With(cxl_regions, p)) \in Nat
  <2>1. IsFiniteSet(cxl_regions) /\ \A p \in CxlPages : IsFiniteSet(With(cxl_regions, p))
    BY <1>0, FS_Subset DEF CxlTyped, With
  <2> QED BY <2>1, FS_CardinalityType
<1>5. CASE numa_buffer_map_fails
  <2>1. /\ cxl_pins' = [p \in CxlPages |-> cxl_pins[p] + (IF p \in CxlPagesOf(r) THEN -1 ELSE 0)]
        /\ cxl_op' = CxlIdle /\ UNCHANGED <<cxl_regions, cxl_tree>>
    BY <1>2, <1>5 DEF numa_buffer_map_fails, CxlPin
  <2>2. cxl_op'.pc = "none" /\ CxlIdle \in [pc : {"none", "pinned", "clear"}, buf : Buffers \cup {CxlNone}, named : Buffers \cup {CxlNone}]
    BY <2>1 DEF CxlIdle
  <2>3. CxlTyped' /\ CxlRoom' /\ CxlTree'
    BY <1>0, <1>1, <1>3, <2>1, <2>2 DEF CxlTyped, CxlRoom, CxlTree, cxl_devs
  <2>4. \A p \in CxlPages : cxl_pins'[p] = Cardinality(With(cxl_regions, p)) + 0
    BY <1>3, <1>4, <2>1
  <2>5. CxlPinsExact'
    BY <2>1, <2>2, <2>4, PinsAreNext
  <2> QED BY <1>0, <1>1, <2>3, <2>5, CxlKeepsDevices DEF CxlIInv
<1>6. CASE /\ cxl_cache_dma_region_add_ok(r) /\ cxl_cache_dma_region_add(r)
           /\ cxl_op' = CxlIdle /\ UNCHANGED cxl_pins
  <2>1. r \notin cxl_regions /\ cxl_regions' = cxl_regions \cup {r} /\ cxl_tree' \in RedBlackTrees(cxl_regions')
    BY <1>6 DEF cxl_cache_dma_region_add_ok, cxl_cache_dma_region_add
  <2>2. IsFiniteSet(cxl_regions') /\ cxl_regions' \subseteq Buffers
    BY <1>0, <1>4, <2>1, FS_AddElement DEF CxlTyped
  <2>3. cxl_op'.pc = "none" /\ CxlIdle \in [pc : {"none", "pinned", "clear"}, buf : Buffers \cup {CxlNone}, named : Buffers \cup {CxlNone}]
    BY <1>6 DEF CxlIdle
  <2>4. CxlTyped' /\ CxlRoom'
    BY <1>0, <1>1, <1>6, <2>2, <2>3 DEF CxlTyped, CxlRoom, cxl_devs
  <2>5. CxlTree'
    BY <2>1, <2>2, TreesAre DEF CxlTree
  <2>6. \A p \in CxlPages : cxl_pins'[p] = Cardinality(With(cxl_regions', p)) + 0
    <3>1. \A p : Cardinality(With(cxl_regions \cup {r}, p)) =
                   Cardinality(With(cxl_regions, p)) + (IF p \in CxlPagesOf(r) THEN 1 ELSE 0)
      BY <1>4, <2>1, WithAdds
    <3>2. cxl_regions' = cxl_regions \cup {r} /\ UNCHANGED cxl_pins
      BY <1>6, <2>1
    <3> SUFFICES ASSUME NEW p \in CxlPages PROVE cxl_pins'[p] = Cardinality(With(cxl_regions', p)) + 0
      OBVIOUS
    <3>3. PICK k \in Nat : k = Cardinality(With(cxl_regions, p))
      BY <1>4
    <3>4. cxl_pins[p] = k + (IF p \in CxlPagesOf(r) THEN 1 ELSE 0)
      BY <1>3, <3>3
    <3>5. Cardinality(With(cxl_regions', p)) = k + (IF p \in CxlPagesOf(r) THEN 1 ELSE 0)
      BY <3>1, <3>2, <3>3
    <3> QED BY <3>2, <3>4, <3>5
  <2>7. CxlPinsExact'
    BY <2>3, <2>6, PinsAreNext
  <2> QED BY <1>0, <1>1, <2>4, <2>5, <2>7, CxlKeepsDevices DEF CxlIInv
<1> QED BY <1>2, <1>5, <1>6 DEF cxl_cache_ioctl_numa_buffer_map

LEMMA CxlUnmaps ==
  ASSUME CxlIInv, NEW n \in cxl_regions, cxl_cache_ioctl_numa_buffer_unmap(n)
  PROVE  CxlIInv'
<1>0. CxlTyped /\ CxlRoom /\ CxlTree /\ CxlCounted /\ CxlPinsExact
  BY DEF CxlIInv
<1>1. PICK r \in cxl_regions : r = cxl_cache_dma_region_find(n.user_addr, n.length)
  BY <1>0, FindsOne
<1>2. /\ cxl_op.pc = "none" /\ cxl_cache_dma_region_remove(r)
      /\ cxl_pins' = [p \in CxlPages |-> cxl_pins[p] + (IF p \in CxlPagesOf(r) THEN -1 ELSE 0)]
      /\ cxl_op' = [pc |-> "clear", buf |-> r, named |-> n] /\ UNCHANGED cxl_devs
  BY <1>1 DEF cxl_cache_ioctl_numa_buffer_unmap, CxlPin
<1>3. cxl_regions' = cxl_regions \ {r} /\ cxl_tree' \in RedBlackTrees(cxl_regions')
  BY <1>2 DEF cxl_cache_dma_region_remove
<1>4. r \in Buffers /\ n \in Buffers /\ IsFiniteSet(cxl_regions)
  BY <1>0 DEF CxlTyped
<1>5. IsFiniteSet(cxl_regions')
  BY <1>3, <1>4, FS_RemoveElement
<1>6. \A p \in CxlPages : cxl_pins'[p] = Cardinality(With(cxl_regions', p)) + 0 /\ cxl_pins'[p] \in Int
  <2> SUFFICES ASSUME NEW p \in CxlPages
               PROVE  cxl_pins'[p] = Cardinality(With(cxl_regions', p)) + 0 /\ cxl_pins'[p] \in Int
    OBVIOUS
  <2> DEFINE rs == cxl_regions \ {r}
  <2>1. IsFiniteSet(rs) /\ r \notin rs /\ rs \cup {r} = cxl_regions /\ cxl_regions' = rs
    BY <1>3, <1>5
  <2> HIDE DEF rs
  <2>2. /\ Cardinality(With(rs, p)) \in Nat
        /\ Cardinality(With(cxl_regions, p)) = Cardinality(With(rs, p)) + (IF p \in CxlPagesOf(r) THEN 1 ELSE 0)
    BY <2>1, WithAdds
  <2>3. PICK k \in Nat : k = Cardinality(With(rs, p))
    BY <2>2
  <2>4. cxl_pins[p] = Cardinality(With(cxl_regions, p)) + 0
    BY <1>0, <1>2, PinsAre
  <2>5. cxl_pins'[p] = cxl_pins[p] + (IF p \in CxlPagesOf(r) THEN -1 ELSE 0)
    BY <1>2
  <2>6. cxl_pins'[p] = k
    BY <2>2, <2>3, <2>4, <2>5
  <2> QED BY <2>1, <2>3, <2>6
<1>7. cxl_op'.pc = "clear" /\ CxlPinsExact'
  BY <1>2, <1>6, PinsAreNext
<1>8. CxlTyped'
  <2>1. cxl_op' \in [pc : {"none", "pinned", "clear"}, buf : Buffers \cup {CxlNone}, named : Buffers \cup {CxlNone}]
    BY <1>2, <1>4
  <2>2. cxl_pins' \in [CxlPages -> Int]
    BY <1>2, <1>6
  <2> QED BY <1>0, <1>2, <1>3, <1>5, <2>1, <2>2 DEF CxlTyped, cxl_devs
<1>9. CxlRoom' /\ CxlTree'
  BY <1>3, <1>5, <1>7, TreesAre DEF CxlRoom, CxlTree
<1> QED BY <1>0, <1>2, <1>7, <1>8, <1>9, CxlKeepsDevices DEF CxlIInv

LEMMA CxlNextIInv == CxlIInv /\ [CxlNext]_cxl_vars => CxlIInv'
<1> SUFFICES ASSUME CxlIInv, [CxlNext]_cxl_vars PROVE CxlIInv'
  OBVIOUS
<1>1. CASE dfl_cxl_cache_probe \/ \E id \in cxl_minors : dfl_cxl_cache_remove(id)
  BY <1>1, CxlDevices
<1>2. CASE dfl_cxl_cache_open \/ dfl_cxl_cache_release
  BY <1>2, CxlFile
<1>3. CASE \E r \in Buffers : cxl_cache_dma_pin_pages(r)
  BY <1>3, CxlPins
<1>4. CASE \E w \in BOOLEAN : cxl_cache_ioctl_numa_buffer_map(w)
  BY <1>4, CxlMaps
<1>5. CASE \E r \in cxl_regions : cxl_cache_ioctl_numa_buffer_unmap(r)
  BY <1>5, CxlUnmaps
<1>6. CASE unmap_clear_csrs
  <2>1. /\ cxl_op.pc = "clear" /\ cxl_op' = CxlIdle /\ CxlIdle.pc = "none"
        /\ CxlIdle \in [pc : {"none", "pinned", "clear"}, buf : Buffers \cup {CxlNone}, named : Buffers \cup {CxlNone}]
        /\ UNCHANGED <<cxl_regions, cxl_tree, cxl_pins, cxl_devs>>
    BY <1>6 DEF unmap_clear_csrs, CxlIdle
  <2> QED BY <2>1 DEF CxlIInv, CxlTyped, CxlRoom, CxlTree, CxlCounted, CxlClassInUse, CxlPinsExact, cxl_devs
<1>7. CASE UNCHANGED cxl_vars
  BY <1>7 DEF cxl_vars, CxlIInv, CxlTyped, CxlRoom, CxlTree, CxlCounted, CxlClassInUse, CxlPinsExact
<1> QED BY <1>1, <1>2, <1>3, <1>4, <1>5, <1>6, <1>7 DEF CxlNext

\* In every run of the CXL cache each page is pinned once for each buffer that
\* has it, every mapped buffer can be found again, and devices have their class
\* (cxl_cache_ioctl_numa_buffer_map and _unmap, dfl_cxl_cache_remove).
THEOREM CxlIsExact == CxlSpec => []CxlBuffersExact
<1>1. CxlInit => CxlIInv
  <2> SUFFICES ASSUME CxlInit PROVE CxlIInv
    OBVIOUS
  <2>1. /\ cxl_regions = {} /\ cxl_minors = {} /\ cxl_op = CxlIdle /\ cxl_op.pc = "none"
        /\ CxlIdle \in [pc : {"none", "pinned", "clear"}, buf : Buffers \cup {CxlNone}, named : Buffers \cup {CxlNone}]
    BY DEF CxlInit, CxlIdle
  <2>2. CxlTyped /\ CxlRoom /\ CxlTree /\ CxlCounted
    <3>1. IsFiniteSet(cxl_regions) /\ IsFiniteSet(cxl_minors) /\ Cardinality(cxl_regions) = 0 /\ Cardinality(cxl_minors) = 0
      BY <2>1, FS_EmptySet
    <3>2. cxl_pins \in [CxlPages -> Int] /\ cxl_count = 0
      BY DEF CxlInit
    <3>3. cxl_class \in BOOLEAN
      BY DEF CxlInit
    <3>4. CxlTyped
      BY <2>1, <3>1, <3>2, <3>3 DEF CxlTyped
    <3>5. CxlTree
      BY DEF CxlInit, CxlTree
    <3> QED BY <2>1, <3>1, <3>2, <3>4, <3>5 DEF CxlRoom, CxlCounted, CxlClassInUse
  <2>3. \A p \in CxlPages : cxl_pins[p] = 0 /\ Cardinality(With(cxl_regions, p)) = 0
    BY <2>1, FS_EmptySet DEF CxlInit, With
  <2>4. CxlPinsExact
    BY <2>1, <2>3, PinsAre
  <2> QED BY <2>2, <2>4 DEF CxlIInv
<1>2. CxlIInv => CxlBuffersExact
  <2> SUFFICES ASSUME CxlIInv PROVE CxlBuffersExact
    OBVIOUS
  <2>1. CxlTyped /\ CxlTree /\ CxlCounted /\ CxlPinsExact
    BY DEF CxlIInv
  <2>2. \A r \in cxl_regions : /\ cxl_cache_dma_region_find(r.user_addr, r.length) \in cxl_regions
                               /\ cxl_regions \subseteq Buffers
    BY <2>1, FindsOne DEF CxlTyped
  <2>3. CxlFindable
    BY <2>2, BufferIs DEF CxlFindable
  <2> QED BY <2>1, <2>3 DEF CxlBuffersExact, CxlCounted
<1> QED BY <1>1, <1>2, CxlNextIInv, PTL DEF CxlSpec

-----------------------------------------------------------------------------
(* Address spaces bound to a PCI device.                                   *)

SvaTypeOK ==
  /\ sva_dev \in [SvaDevs -> {"none", "live", "nopdev", "freed"}]
  /\ sva_listed \subseteq SvaDevs
  /\ sva_features \in BOOLEAN
  /\ sva_file \in [SvaFiles -> [st : {"none", "opening", "open"}, dev : 0..MaxSvaDevs,
                                handle : SvaProcs \cup {SvaNull}]]
  /\ misc_mtx \in SvaFiles \cup {SvaNull}
  /\ sva_mutex \in [SvaDevs -> {SvaNull, "del"}]
  /\ del_pc \in [pc : {"none", "deregister"}, dev : 0..MaxSvaDevs]

\* A file that is opening holds misc_mtx; only one that is open has a handle.
FilesMatch ==
  \A f \in SvaFiles :
    /\ sva_file[f].st = "none" => sva_file[f].dev = 0
    /\ sva_file[f].st # "none" => sva_file[f].dev \in SvaDevs
    /\ sva_file[f].st = "opening" <=> misc_mtx = f
    /\ sva_file[f].st # "open" => sva_file[f].handle = SvaNull

\* The one device that is live is listed or about to be removed, and its function
\* has the features.
LiveMatches ==
  /\ del_pc.pc = "deregister" => del_pc.dev \in SvaDevs /\ sva_dev[del_pc.dev] = "live" /\ sva_listed = {}
  /\ \A d \in SvaDevs :
       sva_dev[d] = "live" => d \in sva_listed \/ (del_pc.pc = "deregister" /\ del_pc.dev = d)
  /\ \A d \in sva_listed : sva_dev[d] = "live" /\ \A e \in sva_listed : e = d
  /\ (\E d \in SvaDevs : sva_dev[d] = "live") => sva_features

\* What a file needs of its device: misc_open and ioctl_sva_bind_dev found it live, and
\* removal waits for the open and takes the handles.
DevicesServe ==
  \A f \in SvaFiles :
    /\ sva_file[f].st = "opening" \/ sva_file[f].handle # SvaNull => sva_dev[sva_file[f].dev] = "live"
    /\ sva_file[f].st = "open" => sva_dev[sva_file[f].dev] \in {"live", "nopdev"}

\* The bindings, pair by pair.
BindingsMatch ==
  /\ sva_bound \subseteq SvaFiles \X SvaProcs
  /\ \A f \in SvaFiles, p \in SvaProcs : <<f, p>> \in sva_bound <=> sva_file[f].handle = p

\* A device without its function has an open file.
Kept ==
  \A d \in SvaDevs :
    sva_dev[d] = "nopdev" => \E f \in SvaFiles : sva_file[f].st = "open" /\ sva_file[f].dev = d

SvaIInv == SvaTypeOK /\ FilesMatch /\ LiveMatches /\ DevicesServe /\ BindingsMatch /\ Kept

-----------------------------------------------------------------------------
\* Without a device and without a file the invariant holds.
LEMMA SvaInitIInv == SvaInit => SvaIInv
<1> SUFFICES ASSUME SvaInit PROVE SvaIInv
  OBVIOUS
<1>1. SvaTypeOK
  <2>1. 0 \in 0..MaxSvaDevs
    BY SvaAssumption
  <2>2. SvaClosed \in [st : {"none", "opening", "open"}, dev : 0..MaxSvaDevs, handle : SvaProcs \cup {SvaNull}]
    BY <2>1 DEF SvaClosed
  <2> QED BY <2>1, <2>2 DEF SvaTypeOK, SvaInit
<1>2. FilesMatch
  BY SvaAssumption DEF FilesMatch, SvaInit, SvaClosed
<1>3. LiveMatches
  BY DEF LiveMatches, SvaInit
<1>4. DevicesServe
  BY DEF DevicesServe, SvaInit, SvaClosed
<1>5. BindingsMatch
  BY SvaAssumption DEF BindingsMatch, SvaInit, SvaClosed
<1>6. Kept
  BY DEF Kept, SvaInit
<1> QED BY <1>1, <1>2, <1>3, <1>4, <1>5, <1>6 DEF SvaIInv

\* dfl_pci_sva_add_dev lists a new device when none is listed.
LEMMA AddKeeps ==
  ASSUME SvaIInv, NEW d \in SvaDevs, dfl_pci_sva_add_dev(d)
  PROVE  SvaIInv'
<1>1. SvaTypeOK'
  BY DEF SvaIInv, SvaTypeOK, dfl_pci_sva_add_dev
<1>2. FilesMatch'
  BY DEF SvaIInv, FilesMatch, dfl_pci_sva_add_dev
<1>3. LiveMatches'
  BY DEF SvaIInv, LiveMatches, SvaTypeOK, dfl_pci_sva_add_dev
<1>4. DevicesServe'
  BY DEF SvaIInv, DevicesServe, dfl_pci_sva_add_dev
<1>5. BindingsMatch'
  BY DEF SvaIInv, BindingsMatch, dfl_pci_sva_add_dev
<1>6. Kept'
  BY DEF SvaIInv, Kept, dfl_pci_sva_add_dev
<1> QED BY <1>1, <1>2, <1>3, <1>4, <1>5, <1>6 DEF SvaIInv

\* misc_open finds a live device and keeps misc_mtx.
LEMMA MiscOpenKeeps ==
  ASSUME SvaIInv, NEW f \in SvaFiles, NEW d \in SvaDevs, misc_open(f, d)
  PROVE  SvaIInv'
<1>1. SvaTypeOK'
  BY DEF SvaIInv, SvaTypeOK, SvaDevs, misc_open
<1>2. FilesMatch'
  BY SvaAssumption DEF SvaIInv, FilesMatch, SvaTypeOK, misc_open
<1>3. LiveMatches'
  BY DEF SvaIInv, LiveMatches, misc_open
<1>4. DevicesServe'
  BY DEF SvaIInv, DevicesServe, misc_open
<1>5. BindingsMatch'
  BY DEF SvaIInv, BindingsMatch, FilesMatch, misc_open
<1>6. Kept'
  BY DEF SvaIInv, Kept, misc_open
<1> QED BY <1>1, <1>2, <1>3, <1>4, <1>5, <1>6 DEF SvaIInv

\* dfl_pci_sva_open enters the file in the list of its device, or fails.
LEMMA OpenKeeps ==
  ASSUME SvaIInv, NEW f \in SvaFiles, dfl_pci_sva_open(f)
  PROVE  SvaIInv'
<1>1. SvaTypeOK'
  <2>1. SvaClosed \in [st : {"none", "opening", "open"}, dev : 0..MaxSvaDevs, handle : SvaProcs \cup {SvaNull}]
    BY SvaAssumption DEF SvaClosed
  <2>2. sva_file' \in [SvaFiles -> [st : {"none", "opening", "open"}, dev : 0..MaxSvaDevs,
                                   handle : SvaProcs \cup {SvaNull}]]
    BY <2>1 DEF SvaIInv, SvaTypeOK, dfl_pci_sva_open
  <2> QED BY <2>2 DEF SvaIInv, SvaTypeOK, dfl_pci_sva_open
<1>2. FilesMatch'
  BY SvaAssumption DEF SvaIInv, FilesMatch, SvaTypeOK, dfl_pci_sva_open, SvaFree, SvaClosed
<1>3. LiveMatches'
  BY DEF SvaIInv, LiveMatches, dfl_pci_sva_open
<1>4. DevicesServe'
  BY DEF SvaIInv, DevicesServe, SvaTypeOK, dfl_pci_sva_open, SvaFree, SvaClosed
<1>5. BindingsMatch'
  BY SvaAssumption DEF SvaIInv, BindingsMatch, SvaTypeOK, FilesMatch, dfl_pci_sva_open, SvaClosed
<1>6. Kept'
  BY SvaAssumption DEF SvaIInv, Kept, SvaTypeOK, FilesMatch, dfl_pci_sva_open
<1> QED BY <1>1, <1>2, <1>3, <1>4, <1>5, <1>6 DEF SvaIInv

\* ioctl_sva_bind_dev binds a process to a file without a handle.
LEMMA BindKeeps ==
  ASSUME SvaIInv, NEW f \in SvaFiles, NEW p \in SvaProcs, ioctl_sva_bind_dev(f, p)
  PROVE  SvaIInv'
<1>1. SvaTypeOK'
  BY DEF SvaIInv, SvaTypeOK, ioctl_sva_bind_dev, SvaCall
<1>2. FilesMatch'
  BY DEF SvaIInv, FilesMatch, ioctl_sva_bind_dev, SvaCall
<1>3. LiveMatches'
  BY DEF SvaIInv, LiveMatches, ioctl_sva_bind_dev
<1>4. DevicesServe'
  BY DEF SvaIInv, DevicesServe, ioctl_sva_bind_dev
<1>5. BindingsMatch'
  BY SvaAssumption DEF SvaIInv, BindingsMatch, SvaTypeOK, ioctl_sva_bind_dev
<1>6. Kept'
  BY DEF SvaIInv, Kept, ioctl_sva_bind_dev
<1> QED BY <1>1, <1>2, <1>3, <1>4, <1>5, <1>6 DEF SvaIInv

\* ioctl_sva_unbind_dev takes the handle of the file back.
LEMMA UnbindKeeps ==
  ASSUME SvaIInv, NEW f \in SvaFiles, ioctl_sva_unbind_dev(f)
  PROVE  SvaIInv'
<1>1. SvaTypeOK'
  BY DEF SvaIInv, SvaTypeOK, ioctl_sva_unbind_dev
<1>2. FilesMatch'
  BY DEF SvaIInv, FilesMatch, ioctl_sva_unbind_dev
<1>3. LiveMatches'
  BY DEF SvaIInv, LiveMatches, ioctl_sva_unbind_dev
<1>4. DevicesServe'
  BY DEF SvaIInv, DevicesServe, ioctl_sva_unbind_dev
<1>5. BindingsMatch'
  BY SvaAssumption DEF SvaIInv, BindingsMatch, SvaTypeOK, ioctl_sva_unbind_dev
<1>6. Kept'
  BY DEF SvaIInv, Kept, ioctl_sva_unbind_dev
<1> QED BY <1>1, <1>2, <1>3, <1>4, <1>5, <1>6 DEF SvaIInv

\* dfl_pci_sva_release takes the handle back and frees the device after the last file.
LEMMA CloseKeeps ==
  ASSUME SvaIInv, NEW f \in SvaFiles, dfl_pci_sva_release(f)
  PROVE  SvaIInv'
<1>1. SvaTypeOK'
  BY SvaAssumption DEF SvaIInv, SvaTypeOK, FilesMatch, dfl_pci_sva_release, SvaCall, SvaClosed
<1>2. FilesMatch'
  BY DEF SvaIInv, FilesMatch, dfl_pci_sva_release, SvaCall, SvaClosed
<1>3. LiveMatches'
  BY DEF SvaIInv, LiveMatches, dfl_pci_sva_release
<1>4. DevicesServe'
  BY DEF SvaIInv, DevicesServe, SvaTypeOK, dfl_pci_sva_release, SvaClosed, SvaList
<1>5. BindingsMatch'
  BY SvaAssumption DEF SvaIInv, BindingsMatch, SvaTypeOK, dfl_pci_sva_release, SvaClosed
<1>6. Kept'
  BY DEF SvaIInv, Kept, SvaTypeOK, dfl_pci_sva_release, SvaList
<1> QED BY <1>1, <1>2, <1>3, <1>4, <1>5, <1>6 DEF SvaIInv

\* dfl_pci_sva_del_dev takes the device off the list, under its mutex.
LEMMA DelKeeps ==
  ASSUME SvaIInv, NEW d \in SvaDevs, dfl_pci_sva_del_dev(d)
  PROVE  SvaIInv'
<1>1. SvaTypeOK'
  BY DEF SvaIInv, SvaTypeOK, SvaDevs, dfl_pci_sva_del_dev
<1>2. FilesMatch'
  BY DEF SvaIInv, FilesMatch, dfl_pci_sva_del_dev
<1>3. LiveMatches'
  BY DEF SvaIInv, LiveMatches, dfl_pci_sva_del_dev
<1>4. DevicesServe'
  BY DEF SvaIInv, DevicesServe, dfl_pci_sva_del_dev
<1>5. BindingsMatch'
  BY DEF SvaIInv, BindingsMatch, dfl_pci_sva_del_dev
<1>6. Kept'
  BY DEF SvaIInv, Kept, dfl_pci_sva_del_dev
<1> QED BY <1>1, <1>2, <1>3, <1>4, <1>5, <1>6 DEF SvaIInv

\* The rest of the removal, behind misc_mtx, takes all handles of the device.
LEMMA DeregisterKeeps ==
  ASSUME SvaIInv, del_dfl_mdev
  PROVE  SvaIInv'
<1>1. SvaTypeOK'
  <2>1. del_pc.dev \in SvaDevs /\ 0 \in 0..MaxSvaDevs
    BY SvaAssumption DEF SvaIInv, LiveMatches, del_dfl_mdev
  <2>2. sva_file' \in [SvaFiles -> [st : {"none", "opening", "open"}, dev : 0..MaxSvaDevs,
                                   handle : SvaProcs \cup {SvaNull}]]
    BY DEF SvaIInv, SvaTypeOK, del_dfl_mdev
  <2>3. sva_dev' \in [SvaDevs -> {"none", "live", "nopdev", "freed"}]
    BY <2>1 DEF SvaIInv, SvaTypeOK, del_dfl_mdev
  <2>4. sva_mutex' \in [SvaDevs -> {SvaNull, "del"}] /\ del_pc' \in [pc : {"none", "deregister"}, dev : 0..MaxSvaDevs]
    BY <2>1 DEF SvaIInv, SvaTypeOK, del_dfl_mdev
  <2> QED BY <2>2, <2>3, <2>4 DEF SvaIInv, SvaTypeOK, del_dfl_mdev
<1>2. FilesMatch'
  BY DEF SvaIInv, FilesMatch, del_dfl_mdev
<1>3. LiveMatches'
  BY DEF SvaIInv, LiveMatches, SvaTypeOK, del_dfl_mdev
<1>4. DevicesServe'
  BY SvaAssumption DEF SvaIInv, DevicesServe, FilesMatch, del_dfl_mdev, SvaList
<1>5. BindingsMatch'
  BY SvaAssumption DEF SvaIInv, BindingsMatch, del_dfl_mdev
<1>6. Kept'
  BY DEF SvaIInv, Kept, del_dfl_mdev, SvaList
<1> QED BY <1>1, <1>2, <1>3, <1>4, <1>5, <1>6 DEF SvaIInv

\* Every step of a file, a removal or an addition keeps the invariant.
LEMMA SvaStepIInv ==
  ASSUME SvaIInv, [SvaNext]_sva_vars
  PROVE  SvaIInv'
<1>1. CASE \E d \in SvaDevs : dfl_pci_sva_add_dev(d)
  BY <1>1, AddKeeps
<1>2. CASE \E f \in SvaFiles, d \in SvaDevs : misc_open(f, d)
  BY <1>2, MiscOpenKeeps
<1>3. CASE \E f \in SvaFiles : dfl_pci_sva_open(f)
  BY <1>3, OpenKeeps
<1>4. CASE \E f \in SvaFiles, p \in SvaProcs : ioctl_sva_bind_dev(f, p)
  BY <1>4, BindKeeps
<1>5. CASE \E f \in SvaFiles : ioctl_sva_unbind_dev(f)
  BY <1>5, UnbindKeeps
<1>6. CASE \E f \in SvaFiles : dfl_pci_sva_release(f)
  BY <1>6, CloseKeeps
<1>7. CASE \E d \in SvaDevs : dfl_pci_sva_del_dev(d)
  BY <1>7, DelKeeps
<1>8. CASE del_dfl_mdev
  BY <1>8, DeregisterKeeps
<1>9. CASE UNCHANGED sva_vars
  BY <1>9 DEF SvaIInv, SvaTypeOK, FilesMatch, LiveMatches, DevicesServe, BindingsMatch, Kept,
     sva_vars
<1> QED BY <1>1, <1>2, <1>3, <1>4, <1>5, <1>6, <1>7, <1>8, <1>9 DEF SvaNext

-----------------------------------------------------------------------------
\* However files and removals interleave, SvaIInv holds.
THEOREM SvaInvariance == SvaSpec => []SvaIInv
<1>1. SvaInit => SvaIInv
  BY SvaInitIInv
<1>2. SvaIInv /\ [SvaNext]_sva_vars => SvaIInv'
  BY SvaStepIInv
<1> QED BY <1>1, <1>2, PTL DEF SvaSpec

\* Bindings are those of open files on a function with its features, and a device is
\* freed when its function is gone and its last file closed: del_dfl_mdev and
\* dfl_pci_sva_release, whichever comes last.
THEOREM SvaIsOwned == SvaSpec => []SvaOwnership
<1>1. SvaIInv => SvaOwnership
  <2> SUFFICES ASSUME SvaIInv PROVE SvaOwnership
    OBVIOUS
  <2>1. sva_bound = {<<f, sva_file[f].handle>> : f \in {g \in SvaFiles : sva_file[g].handle # SvaNull}}
    BY SvaAssumption DEF SvaIInv, BindingsMatch, SvaTypeOK
  <2>2. sva_bound # {} => sva_features
    <3>1. ASSUME NEW b \in sva_bound PROVE sva_features
      <4>1. PICK f \in SvaFiles : sva_file[f].handle # SvaNull
        BY <2>1, <3>1
      <4>2. sva_dev[sva_file[f].dev] = "live" /\ sva_file[f].dev \in SvaDevs
        BY <4>1 DEF SvaIInv, DevicesServe, FilesMatch
      <4> QED BY <4>2 DEF SvaIInv, LiveMatches
    <3> QED BY <3>1
  <2>3. SvaFreedWhenUnused
    <3>1. ASSUME NEW d \in SvaDevs, sva_dev[d] = "freed", NEW f \in SvaFiles PROVE sva_file[f].dev # d
      <4>1. d # 0
        BY SvaAssumption DEF SvaDevs
      <4> QED BY <3>1, <4>1 DEF SvaIInv, DevicesServe, FilesMatch, SvaTypeOK
    <3>2. ASSUME NEW d \in SvaDevs, sva_dev[d] = "nopdev" PROVE SvaList(d) # {}
      BY <3>2 DEF SvaIInv, Kept, SvaList
    <3> QED BY <3>1, <3>2 DEF SvaFreedWhenUnused
  <2> QED BY <2>1, <2>2, <2>3 DEF SvaOwnership, SvaBindingsOwned
<1> QED BY <1>1, SvaInvariance, PTL

-----------------------------------------------------------------------------
(* Eventfds bound to interrupts.                                           *)

NoFds == [k \in Irqs |-> NoTrigger]

CallType == [pc : {"none", "free", "put", "get", "request"}, start : Irqs, count : 0..NrIrqs,
             i : Irqs, fds : [Irqs -> Fds], failed : -1..(NrIrqs - 1)]

IrqTypeOK ==
  /\ irq_trigger \in [Irqs -> Fds] /\ irq_handler \in [Irqs -> Fds]
  /\ fd_refs \in [Eventfds -> Int]
  /\ irq_call \in CallType
  /\ irq_open \in BOOLEAN

\* The range of a call is inside of the interrupts, and its index inside of the range.
CallInRange ==
  irq_call.pc # "none" => irq_call.i < irq_call.count /\ irq_call.start + irq_call.count <= NrIrqs

\* do_set_irq_trigger: the handler goes first, then the context, and only an unbound
\* interrupt is bound again.
HandlersMatch ==
  /\ irq_call.pc = "put" => Bound(IrqIdx)
  /\ irq_call.pc \in {"get", "request"} => ~Bound(IrqIdx)
  /\ irq_call.pc = "request" => irq_call.fds[irq_call.i] # NoTrigger
  /\ \A k \in Irqs :
       irq_handler[k] = IF irq_call.pc = "put" /\ k = IrqIdx THEN NoTrigger ELSE irq_trigger[k]

\* The interrupts bound to a context.
BoundTo(e) == {k \in Irqs : irq_trigger[k] = e}

\* A context is referenced once per binding, and by the call that is about to bind it.
RefsMatch ==
  \A e \in Eventfds :
    fd_refs[e] = Cardinality(BoundTo(e))
               + (IF irq_call.pc = "request" /\ irq_call.fds[irq_call.i] = e THEN 1 ELSE 0)

\* A rollback binds nothing and has unbound what it passed.
RollbackMatches ==
  IrqRollingBack =>
    /\ irq_call.pc # "none" /\ irq_call.fds = NoFds
    /\ irq_call.i < irq_call.failed /\ irq_call.failed < irq_call.count
    /\ \A k \in Irqs : irq_call.start + irq_call.i < k /\ k <= irq_call.start + irq_call.failed => ~Bound(k)

\* With no file open the only call is the one of the last close, which has unbound
\* what it passed.
CloseMatches ==
  ~irq_open =>
    /\ ~IrqRollingBack
    /\ irq_call.pc = "none" => \A k \in Irqs : ~Bound(k)
    /\ irq_call.pc # "none" => /\ irq_call.start = 0 /\ irq_call.count = NrIrqs /\ irq_call.fds = NoFds
                               /\ \A k \in Irqs : k < irq_call.i => ~Bound(k)

IrqIInv == IrqTypeOK /\ CallInRange /\ HandlersMatch /\ RefsMatch /\ RollbackMatches /\ CloseMatches

\* Handlers and references in step with the bindings, as after each interrupt.
Settled ==
  /\ irq_trigger \in [Irqs -> Fds] /\ irq_handler \in [Irqs -> Fds] /\ fd_refs \in [Eventfds -> Int]
  /\ \A k \in Irqs : irq_handler[k] = irq_trigger[k]
  /\ \A e \in Eventfds : fd_refs[e] = Cardinality(BoundTo(e))

-----------------------------------------------------------------------------
\* The interrupt a call is at exists.
LEMMA IdxInRange ==
  ASSUME IrqTypeOK, CallInRange, irq_call.pc # "none"
  PROVE  IrqIdx \in Irqs /\ irq_call.i \in Irqs
  BY IrqAssumption DEF IrqTypeOK, CallType, CallInRange, IrqIdx, Irqs

\* The bindings of a context can be counted.
LEMMA BoundToFinite ==
  ASSUME NEW e
  PROVE  IsFiniteSet(BoundTo(e)) /\ Cardinality(BoundTo(e)) \in Nat
<1>1. IsFiniteSet(Irqs)
  BY IrqAssumption, FS_Interval DEF Irqs
<1>2. BoundTo(e) \subseteq Irqs
  BY DEF BoundTo
<1> QED BY <1>1, <1>2, FS_Subset, FS_CardinalityType

\* No call is under way.
LEMMA NoCallIs ==
  /\ NoCall \in CallType
  /\ NoCall.pc = "none" /\ NoCall.failed = -1 /\ NoCall.fds = NoFds
<1>1. 0 \in Irqs /\ 0 \in 0..NrIrqs /\ -1 \in -1..(NrIrqs - 1)
  BY IrqAssumption DEF Irqs
<1>2. NoFds \in [Irqs -> Fds]
  BY DEF NoFds, Fds
<1>3. NoCall = [pc |-> "none", start |-> 0, count |-> 0, i |-> 0, fds |-> NoFds, failed |-> -1]
  BY DEF NoCall, NoFds
<1> QED BY <1>1, <1>2, <1>3 DEF CallType

\* The loop of dfl_fpga_set_irq_triggers ends, or goes on with the next interrupt.
LEMMA AdvanceMoves ==
  ASSUME irq_call \in CallType, CallInRange, irq_call.pc # "none", IrqAdvance
  PROVE  \/ irq_call' = NoCall /\ irq_call.i + 1 = irq_call.count
         \/ /\ irq_call' \in CallType
            /\ irq_call'.pc = "free" /\ irq_call'.i = irq_call.i + 1 /\ irq_call.i + 1 < irq_call.count
            /\ irq_call'.start = irq_call.start /\ irq_call'.count = irq_call.count
            /\ irq_call'.fds = irq_call.fds /\ irq_call'.failed = irq_call.failed
<1>1. CASE irq_call.i + 1 = irq_call.count
  BY <1>1 DEF IrqAdvance
<1>2. CASE irq_call.i + 1 # irq_call.count
  <2>1. irq_call.i + 1 < irq_call.count /\ irq_call.i + 1 \in Irqs
    BY <1>2, IrqAssumption DEF CallType, CallInRange, Irqs
  <2>2. irq_call' = [irq_call EXCEPT !.pc = "free", !.i = irq_call.i + 1]
    BY <1>2 DEF IrqAdvance
  <2> QED BY <2>1, <2>2 DEF CallType
<1> QED BY <1>1, <1>2

\* The rollback ends, or goes on with the interrupt before.
LEMMA RollbackMoves ==
  ASSUME irq_call \in CallType, CallInRange, irq_call.pc # "none", IrqRollback
  PROVE  \/ irq_call' = NoCall /\ irq_call.i = 0
         \/ /\ irq_call' \in CallType
            /\ irq_call'.pc = "free" /\ irq_call'.i = irq_call.i - 1
            /\ irq_call'.start = irq_call.start /\ irq_call'.count = irq_call.count
            /\ irq_call'.fds = NoFds
            /\ irq_call'.failed = IF IrqRollingBack THEN irq_call.failed ELSE irq_call.i
<1>1. CASE irq_call.i = 0
  BY <1>1 DEF IrqRollback
<1>2. CASE irq_call.i # 0
  <2>1. irq_call.i - 1 \in Irqs /\ irq_call.i \in -1..(NrIrqs - 1)
    BY <1>2, IrqAssumption DEF CallType, Irqs
  <2>2. irq_call' = [irq_call EXCEPT !.pc = "free", !.i = irq_call.i - 1, !.fds = NoFds,
                                     !.failed = IF IrqRollingBack THEN irq_call.failed ELSE irq_call.i]
    BY <1>2, NoCallIs DEF IrqRollback
  <2>3. NoFds \in [Irqs -> Fds]
    BY DEF NoFds, Fds
  <2> QED BY <2>1, <2>2, <2>3 DEF CallType
<1> QED BY <1>1, <1>2

\* The references in the form RefsMatch has outside of a request.
LEMMA SettledRefs ==
  Settled => \A e \in Eventfds : fd_refs[e] = Cardinality(BoundTo(e)) + 0
  BY BoundToFinite DEF Settled

\* An interrupt is done with: bound, or left unbound.
LEMMA AdvanceKeeps ==
  ASSUME IrqIInv, irq_call.pc # "none", ~IrqRollingBack, IrqAdvance, Settled', UNCHANGED irq_open,
         \A k \in Irqs : k # IrqIdx => irq_trigger'[k] = irq_trigger[k],
         ~irq_open => irq_trigger'[IrqIdx] = NoTrigger
  PROVE  IrqIInv'
<1>1. irq_call \in CallType
  BY DEF IrqIInv, IrqTypeOK
<1>a. (\A e \in Eventfds : fd_refs[e] = Cardinality(BoundTo(e)) + 0)'
  <2>1. (Settled => \A e \in Eventfds : fd_refs[e] = Cardinality(BoundTo(e)) + 0)'
    BY SettledRefs, PTL
  <2> QED BY <2>1
<1>b. IrqTypeOK' <=> Settled' /\ irq_call' \in CallType
  <2>1. irq_open' \in BOOLEAN
    BY DEF IrqIInv, IrqTypeOK
  <2> QED BY <2>1 DEF Settled, IrqTypeOK
<1>2. CASE irq_call' = NoCall /\ irq_call.i + 1 = irq_call.count
  <2>1. irq_call'.pc = "none" /\ irq_call'.failed = -1
    BY <1>2, NoCallIs
  <2>2. IrqTypeOK' /\ CallInRange' /\ HandlersMatch' /\ RefsMatch' /\ RollbackMatches'
    BY <1>2, <1>a, <1>b, <2>1, NoCallIs DEF Settled, CallInRange, HandlersMatch, RefsMatch,
       RollbackMatches, IrqRollingBack
  <2>3. CloseMatches'
    <3>1. ASSUME ~irq_open, NEW k \in Irqs PROVE irq_trigger'[k] = NoTrigger
      <4>1. irq_call.start = 0 /\ irq_call.count = NrIrqs
        BY <3>1 DEF IrqIInv, CloseMatches
      <4>2. CASE k = IrqIdx
        BY <3>1, <4>2
      <4>3. CASE k # IrqIdx
        <5>1. k < irq_call.i
          BY <1>1, <1>2, <4>1, <4>3, IrqAssumption DEF IrqIdx, Irqs, CallType
        <5> QED BY <3>1, <4>3, <5>1 DEF IrqIInv, CloseMatches, Bound
      <4> QED BY <4>2, <4>3
    <3> QED BY <2>1, <3>1 DEF CloseMatches, IrqRollingBack, Bound
  <2> QED BY <2>2, <2>3 DEF IrqIInv
<1>3. CASE /\ irq_call' \in CallType
           /\ irq_call'.pc = "free" /\ irq_call'.i = irq_call.i + 1 /\ irq_call.i + 1 < irq_call.count
           /\ irq_call'.start = irq_call.start /\ irq_call'.count = irq_call.count
           /\ irq_call'.fds = irq_call.fds /\ irq_call'.failed = irq_call.failed
  <2>1. IrqTypeOK' /\ HandlersMatch' /\ RefsMatch' /\ RollbackMatches'
    BY <1>3, <1>a, <1>b DEF Settled, HandlersMatch, RefsMatch, RollbackMatches, IrqRollingBack
  <2>2. CallInRange'
    BY <1>3 DEF IrqIInv, CallInRange
  <2>3. CloseMatches'
    <3>1. ASSUME ~irq_open, NEW k \in Irqs, k < irq_call'.i PROVE irq_trigger'[k] = NoTrigger
      <4>1. irq_call.start = 0
        BY <3>1 DEF IrqIInv, CloseMatches
      <4>2. CASE k = IrqIdx
        BY <3>1, <4>2
      <4>3. CASE k # IrqIdx
        <5>1. k < irq_call.i
          BY <1>1, <1>3, <3>1, <4>1, <4>3 DEF IrqIdx, Irqs, CallType
        <5> QED BY <3>1, <4>3, <5>1 DEF IrqIInv, CloseMatches, Bound
      <4> QED BY <4>2, <4>3
    <3> QED BY <1>3, <3>1 DEF IrqIInv, CloseMatches, IrqRollingBack, Bound
  <2> QED BY <2>1, <2>2, <2>3 DEF IrqIInv
<1> QED BY <1>1, <1>2, <1>3, AdvanceMoves DEF IrqIInv

\* An interrupt that is unbound is left so, and the one before is next.
LEMMA RollbackKeeps ==
  ASSUME IrqIInv, irq_call.pc # "none", ~Bound(IrqIdx), irq_open, IrqRollback, Settled',
         UNCHANGED <<irq_open, irq_trigger>>
  PROVE  IrqIInv'
<1>1. irq_call \in CallType
  BY DEF IrqIInv, IrqTypeOK
<1>a. (\A e \in Eventfds : fd_refs[e] = Cardinality(BoundTo(e)) + 0)'
  <2>1. (Settled => \A e \in Eventfds : fd_refs[e] = Cardinality(BoundTo(e)) + 0)'
    BY SettledRefs, PTL
  <2> QED BY <2>1
<1>b. IrqTypeOK' <=> Settled' /\ irq_call' \in CallType
  <2>1. irq_open' \in BOOLEAN
    OBVIOUS
  <2> QED BY <2>1 DEF Settled, IrqTypeOK
<1>2. CASE irq_call' = NoCall
  <2>1. irq_call'.pc = "none" /\ irq_call'.failed = -1
    BY <1>2, NoCallIs
  <2> QED BY <1>2, <1>a, <1>b, <2>1, NoCallIs DEF IrqIInv, Settled, CallInRange, HandlersMatch,
             RefsMatch, RollbackMatches, IrqRollingBack, CloseMatches
<1>3. CASE /\ irq_call' \in CallType
           /\ irq_call'.pc = "free" /\ irq_call'.i = irq_call.i - 1
           /\ irq_call'.start = irq_call.start /\ irq_call'.count = irq_call.count
           /\ irq_call'.fds = NoFds
           /\ irq_call'.failed = IF IrqRollingBack THEN irq_call.failed ELSE irq_call.i
  <2>1. IrqTypeOK' /\ HandlersMatch' /\ RefsMatch' /\ CloseMatches'
    BY <1>3, <1>a, <1>b DEF Settled, HandlersMatch, RefsMatch, CloseMatches
  <2>2. CallInRange'
    BY <1>1, <1>3 DEF IrqIInv, CallInRange, CallType, Irqs
  <2>3. irq_call'.i < irq_call'.failed /\ irq_call'.failed < irq_call'.count
    BY <1>1, <1>3 DEF IrqIInv, CallInRange, CallType, Irqs, RollbackMatches
  <2>4. ASSUME NEW k \in Irqs, irq_call'.start + irq_call'.i < k, k <= irq_call'.start + irq_call'.failed
        PROVE  ~Bound(k)'
    <3>1. CASE k = IrqIdx
      BY <3>1 DEF Bound
    <3>2. CASE k # IrqIdx
      <4>1. IrqRollingBack /\ irq_call.start + irq_call.i < k /\ k <= irq_call.start + irq_call.failed
        BY <1>1, <1>3, <2>4, <3>2 DEF IrqIdx, CallType, Irqs
      <4> QED BY <4>1 DEF IrqIInv, RollbackMatches, Bound
    <3> QED BY <3>1, <3>2
  <2> QED BY <1>3, <2>1, <2>2, <2>3, <2>4 DEF IrqIInv, RollbackMatches
<1> QED BY <1>1, <1>2, <1>3, RollbackMoves DEF IrqIInv

\* Nothing is bound at first.
LEMMA IrqInitIInv == IrqInit => IrqIInv
<1> SUFFICES ASSUME IrqInit PROVE IrqIInv
  OBVIOUS
<1>1. irq_call.pc = "none" /\ irq_call.failed = -1 /\ irq_call \in CallType
  BY NoCallIs DEF IrqInit
<1>2. IrqTypeOK
  <2>1. irq_trigger \in [Irqs -> Fds] /\ irq_handler \in [Irqs -> Fds]
    BY DEF IrqInit, Fds
  <2>2. fd_refs \in [Eventfds -> Int]
    BY DEF IrqInit
  <2>3. irq_open \in BOOLEAN
    BY DEF IrqInit
  <2> QED BY <1>1, <2>1, <2>2, <2>3 DEF IrqTypeOK
<1>3. RefsMatch
  <2>1. ASSUME NEW e \in Eventfds PROVE fd_refs[e] = Cardinality(BoundTo(e)) + 0
    <3>1. BoundTo(e) = {}
      BY IrqAssumption DEF IrqInit, BoundTo
    <3> QED BY <3>1, FS_EmptySet DEF IrqInit
  <2> QED BY <1>1, <2>1 DEF RefsMatch
<1>4. CallInRange /\ HandlersMatch /\ RollbackMatches /\ CloseMatches
  BY <1>1 DEF IrqInit, CallInRange, HandlersMatch, RollbackMatches, CloseMatches, IrqRollingBack,
     Bound
<1> QED BY <1>2, <1>3, <1>4 DEF IrqIInv

\* A file is opened; a release that is not over goes on.
LEMMA AfuOpenKeeps ==
  ASSUME IrqIInv, irq_afu_open
  PROVE  IrqIInv'
<1>1. IrqTypeOK'
  BY DEF IrqIInv, IrqTypeOK, irq_afu_open
<1>2. CallInRange'
  BY DEF IrqIInv, CallInRange, irq_afu_open
<1>3. HandlersMatch'
  BY DEF IrqIInv, HandlersMatch, Bound, IrqIdx, irq_afu_open
<1>4. RefsMatch'
  BY DEF IrqIInv, RefsMatch, BoundTo, irq_afu_open
<1>5. RollbackMatches'
  BY DEF IrqIInv, RollbackMatches, IrqRollingBack, Bound, irq_afu_open
<1>6. CloseMatches'
  BY DEF CloseMatches, irq_afu_open
<1> QED BY <1>1, <1>2, <1>3, <1>4, <1>5, <1>6 DEF IrqIInv

\* The last close begins to unbind all interrupts.
LEMMA AfuReleaseKeeps ==
  ASSUME IrqIInv, irq_afu_release
  PROVE  IrqIInv'
<1>1. NrIrqs \in 0..NrIrqs /\ 0 < NrIrqs /\ 0 \in Irqs /\ -1 \in -1..(NrIrqs - 1)
  BY IrqAssumption DEF Irqs
<1>2. NoFds \in [Irqs -> Fds]
  BY DEF NoFds, Fds
<1>3. irq_call' = [pc |-> "free", start |-> 0, count |-> NrIrqs, i |-> 0, fds |-> NoFds, failed |-> -1]
  BY DEF irq_afu_release, NoCall, NoFds
<1>4. irq_call' \in CallType
  BY <1>1, <1>2, <1>3 DEF CallType
<1>5. IrqTypeOK' /\ CallInRange'
  <2>1. IrqTypeOK'
    BY <1>4 DEF IrqIInv, IrqTypeOK, irq_afu_release
  <2>2. irq_call'.i < irq_call'.count /\ irq_call'.start + irq_call'.count <= NrIrqs
    BY <1>1, <1>3, IrqAssumption
  <2> QED BY <2>1, <2>2 DEF CallInRange
<1>6. HandlersMatch' /\ RollbackMatches'
  <2>1. irq_call'.pc = "free" /\ irq_call'.failed = -1
    BY <1>3
  <2>a. irq_call.pc = "none"
    BY DEF irq_afu_release
  <2>2. \A k \in Irqs : irq_handler'[k] = irq_trigger'[k]
    BY <2>a DEF IrqIInv, HandlersMatch, irq_afu_release
  <2> QED BY <2>1, <2>2 DEF HandlersMatch, RollbackMatches, IrqRollingBack
<1>7. RefsMatch'
  BY <1>3 DEF IrqIInv, RefsMatch, BoundTo, irq_afu_release
<1>8. CloseMatches'
  BY <1>3 DEF CloseMatches, IrqRollingBack, Irqs
<1> QED BY <1>5, <1>6, <1>7, <1>8 DEF IrqIInv

\* dfl_feature_ioctl_set_irq begins a call on a range it checked.
LEMMA SetIrqKeeps ==
  ASSUME IrqIInv, NEW s \in Irqs, NEW c \in 1..NrIrqs, NEW fds \in [Irqs -> Fds],
         dfl_feature_ioctl_set_irq(s, c, fds)
  PROVE  IrqIInv'
<1>1. IrqTypeOK'
  BY IrqAssumption DEF IrqIInv, IrqTypeOK, CallType, Irqs, dfl_feature_ioctl_set_irq
<1>2. CallInRange'
  BY DEF CallInRange, dfl_feature_ioctl_set_irq
<1>3. HandlersMatch'
  BY DEF IrqIInv, HandlersMatch, dfl_feature_ioctl_set_irq
<1>4. RefsMatch'
  BY DEF IrqIInv, RefsMatch, BoundTo, dfl_feature_ioctl_set_irq
<1>5. RollbackMatches'
  BY DEF RollbackMatches, IrqRollingBack, dfl_feature_ioctl_set_irq
<1>6. CloseMatches'
  BY DEF CloseMatches, dfl_feature_ioctl_set_irq
<1> QED BY <1>1, <1>2, <1>3, <1>4, <1>5, <1>6 DEF IrqIInv

\* The handler of a bound interrupt is freed.
LEMMA FreeIrqKeeps ==
  ASSUME IrqIInv, irq_free_irq
  PROVE  IrqIInv'
<1>a. IrqIdx \in Irqs /\ irq_call.i \in Irqs
  BY IdxInRange DEF IrqIInv, irq_free_irq
<1>1. IrqTypeOK'
  BY <1>a DEF IrqIInv, IrqTypeOK, CallType, Fds, irq_free_irq, IrqGoto
<1>2. CallInRange'
  BY <1>a DEF IrqIInv, CallInRange, irq_free_irq, IrqGoto
<1>3. HandlersMatch'
  BY <1>a DEF IrqIInv, HandlersMatch, Bound, IrqIdx, IrqTypeOK, irq_free_irq, IrqGoto
<1>4. RefsMatch'
  BY <1>a DEF IrqIInv, RefsMatch, BoundTo, irq_free_irq, IrqGoto
<1>5. RollbackMatches'
  BY <1>a DEF IrqIInv, RollbackMatches, IrqRollingBack, Bound, irq_free_irq, IrqGoto
<1>6. CloseMatches'
  BY <1>a DEF IrqIInv, CloseMatches, IrqRollingBack, Bound, irq_free_irq, IrqGoto
<1> QED BY <1>1, <1>2, <1>3, <1>4, <1>5, <1>6 DEF IrqIInv

\* The context of an interrupt without handler is put, and the interrupt unbound.
LEMMA PutKeeps ==
  ASSUME IrqIInv, irq_put
  PROVE  IrqIInv'
<1> DEFINE c == irq_trigger[IrqIdx]
<1>a. IrqIdx \in Irqs
  BY IdxInRange DEF IrqIInv, irq_put
<1>b. c \in Eventfds
  BY <1>a DEF IrqIInv, IrqTypeOK, HandlersMatch, Bound, Fds, irq_put
<1>c. irq_call' = [irq_call EXCEPT !.pc = "get"] /\ irq_call \in CallType /\ irq_call' \in CallType
  BY DEF IrqIInv, IrqTypeOK, CallType, irq_put, IrqGoto
<1>1. IrqTypeOK'
  <2>1. fd_refs' \in [Eventfds -> Int]
    BY <1>b DEF IrqIInv, IrqTypeOK, irq_put
  <2>2. irq_trigger' \in [Irqs -> Fds]
    BY <1>a DEF IrqIInv, IrqTypeOK, irq_put, Fds
  <2> QED BY <1>c, <2>1, <2>2 DEF IrqIInv, IrqTypeOK, irq_put
<1>2. CallInRange'
  BY <1>c DEF IrqIInv, CallInRange, irq_put
<1>3. HandlersMatch'
  BY <1>a, <1>c DEF IrqIInv, IrqTypeOK, HandlersMatch, Bound, IrqIdx, irq_put
<1>4. RefsMatch'
  <2>1. ASSUME NEW e \in Eventfds
        PROVE  BoundTo(e)' = IF e = c THEN BoundTo(e) \ {IrqIdx} ELSE BoundTo(e)
    BY <1>a, <1>b, IrqAssumption DEF IrqIInv, IrqTypeOK, BoundTo, irq_put
  <2>2. Cardinality(BoundTo(c) \ {IrqIdx}) = Cardinality(BoundTo(c)) - 1
    <3>1. IrqIdx \in BoundTo(c) /\ IsFiniteSet(BoundTo(c))
      BY <1>a, BoundToFinite DEF BoundTo
    <3> QED BY <3>1, FS_RemoveElement
  <2>3. ASSUME NEW e \in Eventfds PROVE fd_refs'[e] = Cardinality(BoundTo(e)') + 0
    <3>1. fd_refs[e] = Cardinality(BoundTo(e)) + 0
      BY DEF IrqIInv, RefsMatch, irq_put
    <3>2. fd_refs'[e] = IF e = c THEN fd_refs[e] - 1 ELSE fd_refs[e]
      BY <1>b DEF IrqIInv, IrqTypeOK, irq_put
    <3>3. Cardinality(BoundTo(e)) \in Nat
      BY BoundToFinite
    <3>4. CASE e = c
      BY <2>1, <2>2, <3>1, <3>2, <3>3, <3>4
    <3>5. CASE e # c
      BY <2>1, <3>1, <3>2, <3>5
    <3> QED BY <3>4, <3>5
  <2> QED BY <1>c, <2>3 DEF RefsMatch
<1>5. RollbackMatches'
  BY <1>c DEF IrqIInv, RollbackMatches, IrqRollingBack, Bound, irq_put
<1>6. CloseMatches'
  BY <1>c DEF IrqIInv, CloseMatches, IrqRollingBack, Bound, irq_put
<1> QED BY <1>1, <1>2, <1>3, <1>4, <1>5, <1>6 DEF IrqIInv

\* Outside of a request an unbound interrupt leaves everything in step.
LEMMA IsSettled ==
  (IrqIInv /\ irq_call.pc \in {"free", "get"}) => Settled
<1> SUFFICES ASSUME IrqIInv, irq_call.pc \in {"free", "get"} PROVE Settled
  OBVIOUS
<1>1. ASSUME NEW e \in Eventfds PROVE fd_refs[e] = Cardinality(BoundTo(e))
  <2>1. fd_refs[e] = Cardinality(BoundTo(e)) + 0
    BY DEF IrqIInv, RefsMatch
  <2> QED BY <2>1, BoundToFinite
<1> QED BY <1>1 DEF Settled, IrqIInv, IrqTypeOK, HandlersMatch

\* Nothing is to be bound: the loop or the rollback goes on.
LEMMA UnboundKeeps ==
  ASSUME IrqIInv, irq_unbound
  PROVE  IrqIInv'
<1>1. irq_call.pc \in {"free", "get"} /\ irq_call.pc # "none" /\ ~Bound(IrqIdx)
  BY DEF IrqIInv, HandlersMatch, irq_unbound
<1>2. Settled'
  <2>1. Settled
    BY <1>1, IsSettled
  <2> QED BY <2>1 DEF Settled, BoundTo, irq_unbound
<1>3. CASE IrqRollingBack
  <2>1. irq_open
    BY <1>3 DEF IrqIInv, CloseMatches
  <2> QED BY <1>1, <1>2, <1>3, <2>1, RollbackKeeps DEF irq_unbound
<1>4. CASE ~IrqRollingBack
  BY <1>1, <1>2, <1>4, AdvanceKeeps DEF irq_unbound, Bound
<1> QED BY <1>3, <1>4

\* A context is got, or the call fails here.
LEMMA FdgetKeeps ==
  ASSUME IrqIInv, irq_fdget
  PROVE  IrqIInv'
<1> DEFINE c == irq_call.fds[irq_call.i]
<1>1. irq_call.pc \in {"free", "get"} /\ irq_call.pc # "none" /\ ~Bound(IrqIdx)
  BY DEF IrqIInv, HandlersMatch, irq_fdget
<1>2. IrqIdx \in Irqs /\ irq_call.i \in Irqs
  BY <1>1, IdxInRange DEF IrqIInv
<1>3. c \in Eventfds /\ c # NoTrigger
  BY <1>2 DEF irq_fdget, IrqIInv, IrqTypeOK, CallType, Fds
<1>4. irq_open /\ ~IrqRollingBack
  BY <1>1, <1>2, <1>3 DEF IrqIInv, CloseMatches, RollbackMatches, NoFds
<1>5. Settled
  BY <1>1, IsSettled
<1>6. CASE IrqRollback /\ UNCHANGED fd_refs
  <2>1. Settled'
    BY <1>5, <1>6 DEF Settled, BoundTo, irq_fdget
  <2> QED BY <1>1, <1>4, <1>6, <2>1, RollbackKeeps DEF irq_fdget
<1>7. CASE fd_refs' = [fd_refs EXCEPT ![c] = @ + 1] /\ IrqGoto("request")
  <2>1. /\ irq_call' = [irq_call EXCEPT !.pc = "request"]
        /\ irq_call \in CallType /\ irq_call' \in CallType
    BY <1>7 DEF IrqIInv, IrqTypeOK, CallType, IrqGoto
  <2>2. /\ irq_call'.pc = "request" /\ irq_call'.start = irq_call.start /\ irq_call'.count = irq_call.count
        /\ irq_call'.i = irq_call.i /\ irq_call'.fds = irq_call.fds /\ irq_call'.failed = irq_call.failed
    BY <2>1
  <2>3. IrqTypeOK'
    BY <1>3, <1>7, <2>1 DEF IrqIInv, IrqTypeOK, irq_fdget
  <2>4. CallInRange' /\ RollbackMatches' /\ CloseMatches'
    BY <1>1, <1>4, <2>2 DEF IrqIInv, CallInRange, RollbackMatches, CloseMatches, IrqRollingBack,
       irq_fdget
  <2>5. HandlersMatch'
    BY <1>1, <1>3, <1>5, <2>2 DEF HandlersMatch, Settled, IrqIdx, Bound, irq_fdget
  <2>6. RefsMatch'
    <3>1. ASSUME NEW e \in Eventfds
          PROVE  fd_refs'[e] = Cardinality(BoundTo(e)') + (IF e = c THEN 1 ELSE 0)
      <4>1. BoundTo(e)' = BoundTo(e)
        BY DEF BoundTo, irq_fdget
      <4>2. fd_refs[e] = Cardinality(BoundTo(e)) /\ Cardinality(BoundTo(e)) \in Nat
        BY <1>5, BoundToFinite DEF Settled
      <4>3. fd_refs'[e] = IF e = c THEN fd_refs[e] + 1 ELSE fd_refs[e]
        BY <1>3, <1>5, <1>7 DEF Settled
      <4> QED BY <4>1, <4>2, <4>3
    <3> QED BY <2>2, <3>1 DEF RefsMatch
  <2> QED BY <2>3, <2>4, <2>5, <2>6 DEF IrqIInv
<1> QED BY <1>6, <1>7 DEF irq_fdget

\* The interrupt is bound, or the context put and the call fails here.
LEMMA RequestKeeps ==
  ASSUME IrqIInv, irq_request
  PROVE  IrqIInv'
<1> DEFINE c == irq_call.fds[irq_call.i]
<1>1. irq_call.pc = "request" /\ irq_call.pc # "none" /\ ~Bound(IrqIdx) /\ c # NoTrigger
  BY DEF IrqIInv, HandlersMatch, irq_request
<1>2. IrqIdx \in Irqs /\ irq_call.i \in Irqs
  BY <1>1, IdxInRange DEF IrqIInv
<1>3. c \in Eventfds
  BY <1>1, <1>2 DEF IrqIInv, IrqTypeOK, CallType, Fds
<1>4. irq_open /\ ~IrqRollingBack
  BY <1>1, <1>2 DEF IrqIInv, CloseMatches, RollbackMatches, NoFds
<1>5. ASSUME NEW e \in Eventfds
      PROVE  /\ fd_refs[e] = Cardinality(BoundTo(e)) + (IF e = c THEN 1 ELSE 0)
             /\ Cardinality(BoundTo(e)) \in Nat
  BY <1>1, BoundToFinite DEF IrqIInv, RefsMatch
<1>6. irq_trigger \in [Irqs -> Fds] /\ irq_handler = irq_trigger /\ fd_refs \in [Eventfds -> Int]
  BY <1>1 DEF IrqIInv, IrqTypeOK, HandlersMatch
<1>7. CASE /\ irq_handler' = [irq_handler EXCEPT ![IrqIdx] = c]
           /\ irq_trigger' = [irq_trigger EXCEPT ![IrqIdx] = c]
           /\ IrqAdvance /\ UNCHANGED fd_refs
  <2>1. irq_trigger' \in [Irqs -> Fds] /\ irq_handler' = irq_trigger'
    BY <1>2, <1>3, <1>6, <1>7 DEF Fds
  <2>2. ASSUME NEW e \in Eventfds
        PROVE  BoundTo(e)' = IF e = c THEN BoundTo(e) \cup {IrqIdx} ELSE BoundTo(e)
    BY <1>1, <1>2, <1>6, <1>7, IrqAssumption DEF BoundTo, Bound
  <2>3. Cardinality(BoundTo(c) \cup {IrqIdx}) = Cardinality(BoundTo(c)) + 1
    <3>1. IrqIdx \notin BoundTo(c) /\ IsFiniteSet(BoundTo(c))
      BY <1>1, BoundToFinite DEF BoundTo, Bound
    <3> QED BY <3>1, FS_AddElement
  <2>4. ASSUME NEW e \in Eventfds PROVE fd_refs'[e] = Cardinality(BoundTo(e)')
    <3>1. CASE e = c
      BY <1>5, <1>7, <2>2, <2>3, <3>1
    <3>2. CASE e # c
      BY <1>5, <1>7, <2>2, <3>2
    <3> QED BY <3>1, <3>2
  <2>5. Settled'
    BY <1>6, <1>7, <2>1, <2>4 DEF Settled
  <2>6. \A k \in Irqs : k # IrqIdx => irq_trigger'[k] = irq_trigger[k]
    BY <1>6, <1>7
  <2> QED BY <1>1, <1>4, <1>7, <2>5, <2>6, AdvanceKeeps DEF irq_request
<1>8. CASE /\ fd_refs' = [fd_refs EXCEPT ![c] = @ - 1]
           /\ IrqRollback /\ UNCHANGED <<irq_handler, irq_trigger>>
  <2>1. ASSUME NEW e \in Eventfds PROVE fd_refs'[e] = Cardinality(BoundTo(e)')
    <3>1. BoundTo(e)' = BoundTo(e)
      BY <1>8 DEF BoundTo
    <3>2. fd_refs'[e] = IF e = c THEN fd_refs[e] - 1 ELSE fd_refs[e]
      BY <1>3, <1>6, <1>8
    <3> QED BY <1>5, <3>1, <3>2
  <2>2. fd_refs' \in [Eventfds -> Int]
    BY <1>3, <1>6, <1>8
  <2>3. Settled'
    BY <1>6, <1>8, <2>1, <2>2 DEF Settled
  <2> QED BY <1>1, <1>4, <1>8, <2>3, RollbackKeeps DEF irq_request
<1> QED BY <1>7, <1>8 DEF irq_request

\* Every step keeps the invariant.
LEMMA IrqStepIInv ==
  ASSUME IrqIInv, [IrqNext]_irq_vars
  PROVE  IrqIInv'
<1>1. CASE irq_afu_open
  BY <1>1, AfuOpenKeeps
<1>2. CASE irq_afu_release
  BY <1>2, AfuReleaseKeeps
<1>3. CASE \E s \in Irqs, c \in 1..NrIrqs, fds \in [Irqs -> Fds] : dfl_feature_ioctl_set_irq(s, c, fds)
  BY <1>3, SetIrqKeeps
<1>4. CASE irq_free_irq
  BY <1>4, FreeIrqKeeps
<1>5. CASE irq_put
  BY <1>5, PutKeeps
<1>6. CASE irq_unbound
  BY <1>6, UnboundKeeps
<1>7. CASE irq_fdget
  BY <1>7, FdgetKeeps
<1>8. CASE irq_request
  BY <1>8, RequestKeeps
<1>9. CASE UNCHANGED irq_vars
  BY <1>9 DEF IrqIInv, IrqTypeOK, CallInRange, HandlersMatch, RefsMatch, RollbackMatches,
     CloseMatches, Bound, IrqIdx, BoundTo, IrqRollingBack, irq_vars
<1> QED BY <1>1, <1>2, <1>3, <1>4, <1>5, <1>6, <1>7, <1>8, <1>9 DEF IrqNext

-----------------------------------------------------------------------------
\* Whatever is bound, unbound, closed or failing, IrqIInv holds.
THEOREM IrqInvariance == IrqSpec => []IrqIInv
<1>1. IrqInit => IrqIInv
  BY IrqInitIInv
<1>2. IrqIInv /\ [IrqNext]_irq_vars => IrqIInv'
  BY IrqStepIInv
<1> QED BY <1>1, <1>2, PTL DEF IrqSpec

\* do_set_irq_trigger and its rollback keep a context as long as an interrupt can
\* signal it and no longer than it is bound; the last close unbinds everything.
THEOREM BindingsAreExact == IrqSpec => []IrqBindingsExact
<1>1. IrqIInv => IrqBindingsExact
  <2> SUFFICES ASSUME IrqIInv PROVE IrqBindingsExact
    OBVIOUS
  <2>1. ASSUME NEW k \in Irqs, irq_handler[k] # NoTrigger
        PROVE  fd_refs[irq_handler[k]] > 0
    <3> DEFINE e == irq_handler[k]
    <3>1. e \in Eventfds /\ irq_trigger[k] = e
      BY <2>1 DEF IrqIInv, IrqTypeOK, HandlersMatch, Fds
    <3>2. k \in BoundTo(e)
      BY <3>1 DEF BoundTo
    <3>3. Cardinality(BoundTo(e)) \in Nat /\ Cardinality(BoundTo(e)) # 0
      BY <3>2, BoundToFinite, FS_EmptySet
    <3>4. fd_refs[e] >= Cardinality(BoundTo(e))
      BY <3>1, <3>3 DEF IrqIInv, RefsMatch
    <3>5. fd_refs[e] \in Int
      BY <3>1 DEF IrqIInv, IrqTypeOK
    <3> QED BY <3>3, <3>4, <3>5
  <2>2. ASSUME irq_call.pc = "none"
        PROVE  /\ irq_handler = irq_trigger
               /\ \A e \in Eventfds : fd_refs[e] = Cardinality({k \in Irqs : irq_trigger[k] = e})
    <3>1. irq_handler = irq_trigger
      BY <2>2 DEF IrqIInv, IrqTypeOK, HandlersMatch
    <3>2. ASSUME NEW e \in Eventfds PROVE fd_refs[e] = Cardinality(BoundTo(e))
      BY <2>2, BoundToFinite DEF IrqIInv, RefsMatch
    <3> QED BY <3>1, <3>2 DEF BoundTo
  <2>3. IrqClosedUnbound
    BY DEF IrqIInv, CloseMatches, IrqClosedUnbound
  <2> QED BY <2>1, <2>2, <2>3 DEF IrqBindingsExact, IrqSignalsLive, IrqRefsExact
<1> QED BY <1>1, IrqInvariance, PTL

\* A call of dfl_feature_ioctl_set_irq that failed ends with its interrupts up to
\* the one that failed unbound.
THEOREM FailureUnbinds == IrqSpec => IrqFailedUnbinds
<1>1. IrqIInv /\ [IrqNext]_irq_vars =>
        [IrqRollingBack /\ irq_call'.pc = "none"
           => \A k \in irq_call.start..(irq_call.start + irq_call.failed) :
                irq_trigger'[k] = NoTrigger]_irq_vars
  <2> SUFFICES ASSUME IrqIInv, IrqNext, IrqRollingBack, irq_call'.pc = "none",
                      NEW k \in irq_call.start..(irq_call.start + irq_call.failed)
               PROVE  irq_trigger'[k] = NoTrigger
    OBVIOUS
  <2>1. irq_call.pc # "none" /\ irq_call.fds = NoFds /\ irq_call.pc # "request"
    BY IdxInRange DEF IrqIInv, RollbackMatches, HandlersMatch, NoFds
  <2>2. irq_open
    BY DEF IrqIInv, CloseMatches
  <2>3. irq_unbound /\ irq_call.i = 0 /\ ~Bound(IrqIdx)
    <3>1. ~(irq_afu_open \/ irq_afu_release \/ irq_free_irq \/ irq_put)
      BY <2>1, <2>2 DEF irq_afu_open, irq_afu_release, irq_free_irq, irq_put, IrqGoto, IrqIInv,
         IrqTypeOK, CallType
    <3>2. ~(\E s \in Irqs, c \in 1..NrIrqs, fds \in [Irqs -> Fds] : dfl_feature_ioctl_set_irq(s, c, fds))
      BY <2>1 DEF dfl_feature_ioctl_set_irq
    <3>3. irq_call.fds[irq_call.i] = NoTrigger
      BY <2>1, IdxInRange DEF IrqIInv, NoFds
    <3>4. irq_unbound
      BY <2>1, <3>1, <3>2, <3>3 DEF IrqNext, irq_fdget, irq_request
    <3>5. irq_call.i = 0
      BY <3>4 DEF irq_unbound, IrqRollback, IrqIInv, IrqTypeOK, CallType
    <3> QED BY <3>4, <3>5 DEF irq_unbound, IrqIInv, HandlersMatch
  <2>4. irq_trigger' = irq_trigger
    BY <2>3 DEF irq_unbound
  <2>5. k \in Irqs
    BY <2>1, IrqAssumption DEF IrqIInv, IrqTypeOK, CallType, CallInRange, RollbackMatches, Irqs
  <2>6. CASE k = irq_call.start
    BY <2>3, <2>4, <2>6 DEF Bound, IrqIdx
  <2>7. CASE k > irq_call.start
    BY <2>3, <2>4, <2>5, <2>7 DEF Bound, IrqIInv, IrqTypeOK, CallType, RollbackMatches, Irqs
  <2> QED BY <2>6, <2>7 DEF IrqIInv, IrqTypeOK, CallType, Irqs
<1> QED BY <1>1, IrqInvariance, PTL DEF IrqSpec, IrqFailedUnbinds
=============================================================================
