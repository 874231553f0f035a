------------------------------- MODULE DflEnum -------------------------------
(***************************************************************************)
(* Enumeration of a DFL device: the lists are found through the PCI vendor *)
(* capability, through BAR 0 and the FME header, or in a device tree node; *)
(* every list is walked header by header, features are collected for the   *)
(* feature device they belong to, and the device is registered when the    *)
(* next one starts or the list ends.  An error undoes what was registered. *)
(*                                                                         *)
(* A list is the sequence of its headers, each with the distance to the    *)
(* next one; a header reaches over DfhSize units of memory.                *)
(***************************************************************************)
EXTENDS Integers, Sequences, FiniteSets

CONSTANTS
  Boards,       \* set of [how, entries, bars]: how lists are found, where, and the memory
  NrIrqs,       \* vectors of a PCI device
  NumBars,      \* PCI_STD_NUM_BARS
  DfhSize,      \* DFH_SIZE
  SizeUnknown   \* size given to a feature without one (4 kB)

VARIABLES
  en,      \* struct build_feature_devs_info and where the walk is
  devs,    \* registered feature devices, in order
  cdev     \* region and vectors held, reference to the FME device, and whether
           \* a good board was refused

enum_vars == <<en, devs, cdev>>

NoBoard == [how |-> "none", entries |-> <<>>, bars |-> <<>>]
NoDev == "DFL_ID_MAX"
EnOff == [pc |-> "none", board |-> NoBoard, lists |-> <<>>, bar |-> 0, len |-> 0, i |-> 0, base |-> 1, win |-> FALSE,
          type |-> NoDev, feats |-> <<>>, num |-> 0, after |-> "list"]
CdevOff == [region |-> FALSE, irqs |-> FALSE, fme |-> FALSE, refused |-> FALSE]

EnumInit == en = EnOff /\ devs = <<>> /\ cdev = CdevOff

-----------------------------------------------------------------------------
(* Finding the lists: Bad, or the sequence of [bar, len].                  *)

Bad == <<[bar |-> NumBars, len |-> 0]>>
BarLen(b, bar) == b.bars[bar].len

\* Every entry must name another BAR that exists and an offset inside of it.
find_dfls_by_vsec(b) ==
  LET e == b.entries IN
  IF \/ Len(e) > NumBars
     \/ \E k \in DOMAIN e : e[k].bar >= NumBars \/ e[k].off >= BarLen(b, e[k].bar)
     \/ \E k, m \in DOMAIN e : k # m /\ e[k].bar = e[m].bar
  THEN Bad ELSE [k \in DOMAIN e |-> [bar |-> e[k].bar, len |-> BarLen(b, e[k].bar) - e[k].off]]

\* The ports the FME names: not implemented ones, ones to skip, used BARs and bad
\* offsets are passed over; a BAR that does not exist is an error.
PortLists(b) ==
  LET found[k \in 0..Len(b.entries)] ==
        IF k = 0 THEN <<[bar |-> 0, len |-> BarLen(b, 0)]>>
        ELSE LET p == b.entries[k]
                 l == found[k - 1]
             IN  IF l = Bad \/ ~p.imp \/ p.skip THEN l
                 ELSE IF p.bar >= NumBars THEN Bad
                 ELSE IF p.bar \in {l[j].bar : j \in DOMAIN l} \/ p.off >= BarLen(b, p.bar) THEN l
                 ELSE Append(l, [bar |-> p.bar, len |-> BarLen(b, p.bar) - p.off])
  IN  found[Len(b.entries)]

\* BAR 0 tells by its first header: an FME with its ports, a port or a private
\* feature alone, or an AFU with nothing to enumerate.
find_dfls_by_default(b) ==
  LET h == b.bars[0].hdrs[1]
      bar0 == <<[bar |-> 0, len |-> BarLen(b, 0)]>>
  IN  CASE h.type = "fiu" /\ h.id = "fme" -> PortLists(b)
        [] (h.type = "fiu" /\ h.id = "port") \/ h.type = "private" -> bar0
        [] h.type = "afu" -> <<>>
        [] OTHER -> Bad

\* The one list of a device tree node.
dfl_platform_process_dfl_node(b) == <<[bar |-> 0, len |-> BarLen(b, 0)]>>

find_dfls(b) ==
  CASE b.how = "vsec" -> find_dfls_by_vsec(b)
    [] b.how = "default" -> find_dfls_by_default(b)
    [] OTHER -> dfl_platform_process_dfl_node(b)

\* Vectors of a PCI device; a device tree node has none.
cci_pci_alloc_irq(b) == IF b.how = "of" THEN 0 ELSE NrIrqs

\* What the enumeration starts from.
dfl_fpga_enum_info(b) == [dfls |-> find_dfls(b), nr_irqs |-> cci_pci_alloc_irq(b)]

Mem == en.board.bars[en.bar].hdrs
Hdr == Mem[en.i]
\* Where header k of a list starts.
Ofst(h, k) == LET at[j \in 1..(Len(h) + 1)] == IF j = 1 THEN 0 ELSE at[j - 1] + h[j - 1].next IN at[k]

\* Up to the next header that is no interface, or the end of the list; 0 when
\* interfaces run up to the end of the memory.
feature_size(h, k) ==
  IF h[k].next = 0 THEN SizeUnknown
  ELSE LET ends == {j \in (k + 1)..(Len(h) + 1) : h[j - 1].eol \/ j > Len(h) \/ (h[j].type # "interface")}
           last == CHOOSE j \in ends : \A m \in ends : j <= m
       IN  IF last > Len(h) /\ last > k + 1 /\ ~h[last - 1].eol THEN 0 ELSE Ofst(h, last) - Ofst(h, k)

\* The parameter blocks of version 1 end inside of the feature.
dfh_get_param_size(h, size) == h.ver = 0 \/ h.params < size

-----------------------------------------------------------------------------
(* What boards there are, and which of them follow the format.             *)

Headers ==
  [type : {"fiu", "private", "afu", "interface", "other"}, id : {"fme", "port", "unknown"}, ver : {0, 1}, next : Nat,
   eol : BOOLEAN, csr : {"rel", "out"}, params : Nat, irqs : [base : Nat, n : Nat], afu : [ofst : Nat, size : Nat]]
Entries(how) ==
  CASE how = "vsec" -> [bar : Nat, off : Nat]
    [] how = "default" -> [imp : BOOLEAN, skip : BOOLEAN, bar : Nat, off : Nat]
    [] OTHER -> {}

\* The headers of a list are all there are up to its end.  Interfaces have a distance:
\* without one feature_size would read the same header for ever.
Complete(h, len) ==
  /\ len > 0 /\ h # <<>>
  /\ h[Len(h)].eol \/ h[Len(h)].next = 0 \/ Ofst(h, Len(h) + 1) >= len
  /\ \A k \in DOMAIN h : h[k].type = "interface" => h[k].eol \/ h[k].next # 0

ASSUME EnumAssumption ==
  /\ NrIrqs \in Nat /\ NumBars \in Nat \ {0} /\ DfhSize \in Nat \ {0} /\ SizeUnknown \in Nat
  /\ \A b \in Boards :
       /\ DOMAIN b = {"how", "entries", "bars"} /\ b.how \in {"vsec", "default", "of"} /\ b.entries \in Seq(Entries(b.how))
       /\ b.bars \in [0..(NumBars - 1) -> [len : Nat, hdrs : Seq(Headers)]] /\ b.bars[0].hdrs # <<>>
       /\ \A l \in {find_dfls(b)[n] : n \in DOMAIN find_dfls(b)} : find_dfls(b) = Bad \/ Complete(b.bars[l.bar].hdrs, l.len)

\* A list that starts with neither a device nor a feature does not name a device in its
\* first header, which the first FIU of the list would be taken for.
ListsLead ==
  \A b \in Boards : \A l \in {find_dfls(b)[n] : n \in DOMAIN find_dfls(b)} :
    find_dfls(b) = Bad \/ (b.bars[l.bar].hdrs[1].type \in {"interface", "other"} => b.bars[l.bar].hdrs[1].id = "unknown")

\* Header k of the list is reached by its walk.
Walked(h, len, k) == \A j \in 1..(k - 1) : ~h[j].eol /\ h[j].next # 0 /\ Ofst(h, j + 1) < len
\* The last FIU at or before header k, or the first header.
LastFiu(h, k) ==
  LET fius == {j \in 1..k : h[j].type = "fiu"} IN IF fius = {} THEN 1 ELSE CHOOSE j \in fius : \A m \in fius : m <= j

\* Header k, what it describes and what belongs to it lie inside of the list.
Fits(b, h, len, k) ==
  LET o == Ofst(h, k)
      size == feature_size(h, k)
      fiu == h[LastFiu(h, k)]
  IN  /\ o + DfhSize <= len
      /\ h[k].type \in {"fiu", "private"} =>
           /\ size # 0 /\ o + size <= len /\ dfh_get_param_size(h[k], size)
           /\ h[k].irqs.n = 0 \/ h[k].irqs.base + h[k].irqs.n <= cci_pci_alloc_irq(b)
      /\ h[k].type = "fiu" => h[k].id # "unknown"
      /\ h[k].type = "fiu" /\ h[k].id = "port" => o + h[k].afu.ofst + h[k].afu.size <= len
      /\ h[k].type = "afu" /\ fiu.type = "fiu" /\ fiu.id = "port" => o + fiu.afu.size <= len

\* Every list starts with a device: an FIU, or private features of version 1.
FollowsFormat(b) ==
  /\ find_dfls(b) # Bad
  /\ \A l \in {find_dfls(b)[n] : n \in DOMAIN find_dfls(b)} :
       LET h == b.bars[l.bar].hdrs IN
       /\ h[1].type = "fiu" \/ (h[1].type = "private" /\ h[1].ver = 1)
       /\ \A k \in DOMAIN h : Walked(h, l.len, k) => Fits(b, h, l.len, k)
GoodBoards == {b \in Boards : FollowsFormat(b)}

-----------------------------------------------------------------------------
\* Probe of the PCI device: the vectors, the lists, the region of the container.
cci_enumerate_feature_devs ==
  /\ en.pc = "none"
  /\ \E b \in Boards :
       /\ b.how # "of"
       /\ LET info == dfl_fpga_enum_info(b) IN
          IF info.dfls = Bad THEN cdev' = [CdevOff EXCEPT !.refused = b \in GoodBoards] /\ UNCHANGED en
          ELSE /\ en' = [EnOff EXCEPT !.pc = "list", !.board = b, !.lists = info.dfls]
               /\ cdev' = [CdevOff EXCEPT !.region = TRUE, !.irqs = TRUE]
  /\ UNCHANGED devs

\* Probe of the device tree node, which has no interrupts.
dfl_platform_enumerate_feature_devs ==
  /\ en.pc = "none"
  /\ \E b \in Boards :
       /\ b.how = "of"
       /\ en' = [EnOff EXCEPT !.pc = "list", !.board = b, !.lists = dfl_fpga_enum_info(b).dfls]
       /\ cdev' = [CdevOff EXCEPT !.region = TRUE]
  /\ UNCHANGED devs

-----------------------------------------------------------------------------
(* Helpers of the walk.                                                    *)

\* The vectors a feature claims are in the table.
parse_feature_irqs(h) == h.irqs.n = 0 \/ h.irqs.base + h.irqs.n <= dfl_fpga_enum_info(en.board).nr_irqs

\* Fault: the length of the window is the one of the whole list.
InWindow_Whole(base, o, size) == o > en.len \/ size <= en.len - o
\* o is relative to the window, which starts with header base.  The difference is
\* unsigned: it is large for an offset behind the end of the window.
InWindow(base, o, size) ==
  LET len == en.len - Ofst(Mem, base) IN o > len \/ size <= len - o

\* The walk goes on behind the current header, or the list ends.
Advance(e) ==
  IF Hdr.eol \/ Hdr.next = 0 \/ Ofst(Mem, e.i) + Hdr.next >= e.len
  THEN [e EXCEPT !.pc = "end"] ELSE [e EXCEPT !.i = @ + 1, !.pc = "walk"]

\* An error anywhere: all devices are removed, the region is unregistered, the
\* vectors are freed; the reference to the FME device is not put.
enumerate_fails(why) ==
  /\ en' = EnOff /\ devs' = <<>>
  /\ cdev' = [cdev EXCEPT !.region = FALSE, !.irqs = FALSE, !.refused = why = "rejected" /\ en.board \in GoodBoards]

\* What the header at o of the window says: [ok, feats].  Parameters and
\* registers of version 1 have to fit; a feature whose registers do not is
\* passed over, any other misfit ends the enumeration.
create_feature_instance(base, k, o) ==
  LET h == Mem[k]
      size == feature_size(Mem, k)
      f == [hdr |-> k, kind |-> h.type, start |-> Ofst(Mem, base) + o, size |-> size, abs |-> h.ver = 1]
  IN  [ok |-> size # 0 /\ dfh_get_param_size(h, size) /\ InWindow(base, o, size) /\ (parse_feature_irqs(h) \/ (h.ver = 1 /\ h.csr = "out")),
       feats |-> IF h.ver = 1 /\ h.csr = "out" THEN <<>> ELSE <<f>>]

\* The AFU at o; its size is the one the port at the start of the window names.
parse_feature_port_afu(base, k, o) ==
  LET size == Mem[base].afu.size IN
  [ok |-> InWindow(base, o, size),
   feats |-> <<[hdr |-> k, kind |-> "afu", start |-> Ofst(Mem, base) + o, size |-> size, abs |-> FALSE]>>]

\* The walk takes what c found into e, or fails for c or for memory.
Take(c, e) ==
  \/ IF c.ok THEN /\ en' = Advance([e EXCEPT !.feats = @ \o c.feats, !.num = @ + Len(c.feats)])
                  /\ UNCHANGED <<devs, cdev>>
     ELSE enumerate_fails("rejected")
  \/ enumerate_fails("nomem")

-----------------------------------------------------------------------------
(* The walk.                                                               *)

\* The window from header k of e's list is claimed and mapped, or not.
build_info_prepare(e, k) ==
  \/ en' = [e EXCEPT !.win = TRUE, !.base = k] /\ UNCHANGED <<devs, cdev>>
  \/ enumerate_fails("nomem")

\* The window is given up.
build_info_complete(e) == [e EXCEPT !.win = FALSE]

parse_feature_list ==
  /\ en.pc = "list" /\ en.lists # <<>>
  /\ build_info_prepare([en EXCEPT !.pc = "walk", !.lists = Tail(@), !.bar = Head(en.lists).bar,
                                   !.len = Head(en.lists).len, !.i = 1], 1)

TooSmall == en.len - Ofst(Mem, en.i) < DfhSize
parse_feature_fails ==
  /\ en.pc = "walk"
  /\ \/ TooSmall
     \/ Hdr.type = "afu" /\ en.type = NoDev
     \/ Hdr.type = "private" /\ Mem[en.base].ver = 0 /\ en.type = NoDev
  /\ enumerate_fails("rejected")

\* An FIU ends the device before it, whose registration needs the window's memory.
parse_feature_fiu ==
  /\ en.pc = "walk" /\ ~TooSmall /\ Hdr.type = "fiu" /\ en.type # NoDev
  /\ en' = [build_info_complete(en) EXCEPT !.pc = "commit", !.after = "window"]
  /\ UNCHANGED <<devs, cdev>>

\* The window of the new device.
fiu_window ==
  /\ en.pc = "window"
  /\ build_info_prepare([en EXCEPT !.pc = "fiu"], en.i)

\* The type is read at the start of the window; the header is the first feature,
\* the AFU a port names the second.
fiu_start ==
  /\ \/ en.pc = "fiu"
     \/ en.pc = "walk" /\ ~TooSmall /\ Hdr.type = "fiu" /\ en.type = NoDev
  /\ LET b == Mem[en.base]
         c == create_feature_instance(en.base, en.base, 0)
         a == IF b.id = "port" /\ b.afu.ofst # 0 THEN parse_feature_port_afu(en.base, en.base, b.afu.ofst)
              ELSE [ok |-> TRUE, feats |-> <<>>]
     IN  Take([ok |-> b.id # "unknown" /\ c.ok /\ a.ok, feats |-> c.feats \o a.feats],
              [en EXCEPT !.type = b.id, !.feats = <<>>, !.num = 0])

\* A window of version 1 holds private features, of a device of their own.
parse_feature_private ==
  /\ en.pc = "walk" /\ ~TooSmall /\ Hdr.type = "private" /\ (Mem[en.base].ver = 1 \/ en.type # NoDev)
  /\ Take(create_feature_instance(en.base, en.i, Ofst(Mem, en.i) - Ofst(Mem, en.base)),
          [en EXCEPT !.type = IF Mem[en.base].ver = 1 THEN "priv" ELSE @])

\* An AFU in the list belongs to the port; elsewhere it is passed over.
parse_feature_afu ==
  /\ en.pc = "walk" /\ ~TooSmall /\ Hdr.type = "afu" /\ en.type # NoDev
  /\ IF en.type = "port" THEN Take(parse_feature_port_afu(en.base, en.i, Ofst(Mem, en.i) - Ofst(Mem, en.base)), en)
     ELSE en' = Advance(en) /\ UNCHANGED <<devs, cdev>>

\* Interfaces, and types that are not known.
parse_feature_other ==
  /\ en.pc = "walk" /\ ~TooSmall /\ Hdr.type \in {"interface", "other"}
  /\ en' = Advance(en) /\ UNCHANGED <<devs, cdev>>

parse_feature_list_end ==
  /\ en.pc = "end"
  /\ en' = [build_info_complete(en) EXCEPT !.pc = IF en.type = NoDev THEN "list" ELSE "commit", !.after = "list"]
  /\ UNCHANGED <<devs, cdev>>

\* The device's data: the features in order, and the number that was counted.
binfo_create_feature_dev_data(e) == [type |-> e.type, bar |-> e.bar, base |-> e.base, num |-> e.num, feats |-> e.feats]

\* The memory of its header is claimed for the bus device, and the feature device
\* is registered; or none of it stays.
build_info_commit_dev ==
  /\ en.pc = "commit"
  /\ \/ /\ ~en.win
        /\ devs' = Append(devs, binfo_create_feature_dev_data(en))
        /\ cdev' = [cdev EXCEPT !.fme = @ \/ en.type = "fme"]
        /\ en' = [en EXCEPT !.pc = en.after, !.type = NoDev, !.feats = <<>>]
     \/ enumerate_fails(IF en.win THEN "rejected" ELSE "nomem")

build_info_free ==
  /\ en.pc = "list" /\ en.lists = <<>>
  /\ en' = [en EXCEPT !.pc = "done"]
  /\ UNCHANGED <<devs, cdev>>

dfl_fpga_feature_devs_remove ==
  /\ en.pc = "done"
  /\ en' = EnOff /\ devs' = <<>> /\ cdev' = CdevOff

EnumNext ==
  \/ cci_enumerate_feature_devs \/ dfl_platform_enumerate_feature_devs \/ parse_feature_list
  \/ parse_feature_fails \/ parse_feature_fiu \/ fiu_window \/ fiu_start
  \/ parse_feature_private \/ parse_feature_afu \/ parse_feature_other
  \/ parse_feature_list_end \/ build_info_commit_dev \/ build_info_free \/ dfl_fpga_feature_devs_remove

EnumSpec == EnumInit /\ [][EnumNext]_enum_vars

-----------------------------------------------------------------------------
(* Properties.                                                             *)

Feats == UNION {{[dev |-> k, bar |-> devs[k].bar, base |-> devs[k].base, f |-> devs[k].feats[j]] : j \in DOMAIN devs[k].feats} :
                k \in DOMAIN devs}

\* The registers a device driver is given by create_feature_instance lie inside
\* the list they were found in, also when the window was moved to a later FIU.  (The
\* one exception is an AFU that a port names behind the end of the list.)
EnumInside ==
  \A x \in Feats : x.f.abs \/ (\E l \in {find_dfls(en.board)[k] : k \in DOMAIN find_dfls(en.board)} :
                                 /\ l.bar = x.bar /\ x.f.start >= 0
                                 /\ x.f.start + x.f.size <= l.len \/ (x.f.kind = "afu" /\ x.f.start > l.len))

\* Neither a failed enumeration nor a removal leaves a feature device, the region
\* or the interrupt vectors behind.
EnumFailedClean == en.pc = "none" => devs = <<>> /\ ~cdev.region /\ ~cdev.irqs

\* Where header k of a list is a feature.
Owners(bar, h, k) == {x \in Feats : x.bar = bar /\ x.f.hdr = k /\ x.f.kind = h[k].type}

\* After parse_feature_list every FIU and private header of every list is a
\* feature of exactly one device, the one of the last FIU at or before it.
EnumGrouping ==
  en.pc = "done" =>
    LET lists == find_dfls(en.board) IN
    \A n \in DOMAIN lists :
      LET h == en.board.bars[lists[n].bar].hdrs IN
      \A k \in DOMAIN h :
        (Walked(h, lists[n].len, k) /\ h[k].type \in {"fiu", "private"} /\ ~(h[k].ver = 1 /\ h[k].csr = "out")) =>
          /\ Cardinality(Owners(lists[n].bar, h, k)) = 1
          /\ \A x \in Owners(lists[n].bar, h, k) : x.base = LastFiu(h, k)

\* Lists that follow the format are enumerated unless the kernel runs out of
\* memory: the enumeration does not get in its own way.
EnumGoodAccepted == ~cdev.refused

\* Taken together: enumeration finds all of a good board, nothing outside of its
\* lists, and leaves nothing of a bad one.
EnumSound == EnumInside /\ EnumFailedClean /\ EnumGrouping /\ EnumGoodAccepted
=============================================================================
