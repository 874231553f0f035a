-------------------------- MODULE Platform_proofs ---------------------------
(***************************************************************************)
(* Proofs about what a device is programmed and bound through.  Device     *)
(* tree regions: for any regions, bridges and overlays a region is cut off *)
(* while it is loaded, connected while its overlay is applied, and holds   *)
(* nothing otherwise.  The DFL bus: for any feature devices and drivers    *)
(* every feature is served by one side, on top of what it needs, and a     *)
(* bind that fails or is undone leaves nothing.  Enumeration: for any      *)
(* boards the devices have exactly the features of their lists.            *)
(***************************************************************************)
EXTENDS OverlayRegions, DflBus, DflEnum, SequenceTheorems, FiniteSetTheorems, WellFoundedInduction, TLAPS

-----------------------------------------------------------------------------
(* Device tree regions.                                                    *)

HpsKinds == {"hps2fpga", "lwhps2fpga"}
Hw == {"on", "off", "none"}
OvType ==
  [target : Regions \cup {NoRegion}, fw : BOOLEAN, ext : BOOLEAN, childfw : BOOLEAN, bridges : Seq(Bridges)]
RgType == [reg : BOOLEAN, info : BOOLEAN, list : Seq(Bridges), stack : Seq(OvType)]
BrType ==
  [reg : BOOLEAN, lock : Regions \cup {NoRegion, Lost}, info : Regions \cup {NoRegion}, hw : Hw, set : Hw,
   probing : BOOLEAN, late : BOOLEAN]
RemapType == [shadow : SUBSET Bridges, l3 : SUBSET Bridges]
NtfType ==
  [pc : {"idle", "get", "parent", "bridges", "disable", "load", "enable", "oops"}, r : Regions \cup {NoRegion},
   ov : OvType, todo : Seq(Bridges), rm : BOOLEAN, pbr : Bridges \cup {NoBridge}]

RegTyped ==
  /\ rg \in [Regions -> RgType] /\ br \in [Bridges -> BrType]
  /\ remap \in RemapType /\ ntf \in NtfType /\ mgrlock \in Regions \cup {NoRegion}

\* A region that is not registered holds nothing.
RegGone == \A r \in Regions : ~rg[r].reg => ~rg[r].info /\ rg[r].list = <<>>

\* Only one driver sets its bridge after it has registered it, and only so a region
\* can hold a bridge that is not registered.
RegLate ==
  \A b \in Bridges :
    /\ br[b].probing => BridgeKind[b] = "fpga2sdram"
    /\ ~br[b].reg /\ br[b].lock \in Regions => br[b].late

\* The notification under way: its region is registered and, unless its overlay is
\* removed, programmed; nothing is taken before its first bridge.
RegPhase ==
  /\ ntf.pc = "idle" <=> ntf.r = NoRegion
  /\ ntf.rm => ntf.pc \in {"disable", "oops"}
  /\ ntf.pc \in {"idle", "get"} \/ ntf.rm => mgrlock = NoRegion
  /\ ntf.r # NoRegion => rg[ntf.r].reg /\ (~ntf.rm => rg[ntf.r].info)
  /\ ntf.pc \in {"get", "parent"} => rg[ntf.r].list = <<>>

Elems(s) == {s[i] : i \in DOMAIN s}

\* The bridges of the region are disabled, and enabled, up to the ones still to do and
\* those that their probe touched.
RegTodo ==
  /\ ntf.pc \in {"disable", "enable"} => Elems(ntf.todo) \subseteq BrHeld(ntf.r)
  /\ ntf.pc = "disable" /\ ~ntf.rm => \A b \in BrHeld(ntf.r) \ Elems(ntf.todo) : br[b].hw = "off" \/ br[b].late
  /\ ntf.pc = "enable" => \A b \in BrHeld(ntf.r) \ Elems(ntf.todo) : br[b].hw = "on" \/ br[b].late

\* Once a bridge was set the write only register has what its shadow has.
HpsShadow ==
  \A b \in Bridges : BridgeKind[b] \in HpsKinds /\ br[b].set # "none" =>
    remap.l3 = remap.shadow /\ (b \in remap.shadow <=> br[b].set = "on")

RegIInv ==
  /\ RegTyped /\ RegGone /\ RegLate /\ RegPhase /\ RegHeldListed /\ RegTodo
  /\ RegLoadIsolated /\ RegAppliedUp /\ HpsShadow

-----------------------------------------------------------------------------
LEMMA ElemsEmpty == Elems(<<>>) = {}
  BY DEF Elems

LEMMA ElemsIn ==
  ASSUME NEW S, NEW s \in Seq(S)
  PROVE  Elems(s) \subseteq S
  BY ElementOfSeq DEF Elems

LEMMA ElemsHead ==
  ASSUME NEW S, NEW s \in Seq(S), s # <<>>
  PROVE  Head(s) \in S /\ Tail(s) \in Seq(S) /\ Elems(s) = {Head(s)} \cup Elems(Tail(s))
<1>1. Head(s) \in S /\ Tail(s) \in Seq(S) /\ Len(s) >= 1 /\ Head(s) = s[1]
  BY HeadTailProperties, EmptySeq
<1>2. DOMAIN s = 1..Len(s) /\ DOMAIN Tail(s) = 1..(Len(s) - 1)
      /\ \A i \in 1..(Len(s) - 1) : Tail(s)[i] = s[i + 1]
  BY <1>1, HeadTailProperties
<1>3. ASSUME NEW x \in Elems(s) PROVE x \in {Head(s)} \cup Elems(Tail(s))
  <2>1. PICK i \in 1..Len(s) : x = s[i]
    BY <1>2 DEF Elems
  <2>2. i = 1 \/ i - 1 \in 1..(Len(s) - 1)
    BY <1>1, <2>1
  <2>3. CASE i - 1 \in 1..(Len(s) - 1)
    <3>1. Tail(s)[i - 1] = s[(i - 1) + 1] /\ (i - 1) + 1 = i
      BY <1>2, <2>1, <2>3
    <3> QED BY <1>2, <2>1, <2>3, <3>1 DEF Elems
  <2> QED BY <1>1, <2>1, <2>2, <2>3
<1>4. ASSUME NEW x \in {Head(s)} \cup Elems(Tail(s)) PROVE x \in Elems(s)
  BY <1>1, <1>2, <1>4 DEF Elems
<1> QED BY <1>1, <1>3, <1>4

LEMMA ElemsCons ==
  ASSUME NEW S, NEW s \in Seq(S), NEW b \in S
  PROVE  <<b>> \o s \in Seq(S) /\ Elems(<<b>> \o s) = {b} \cup Elems(s)
<1> DEFINE c == <<b>> \o s
<1>0. <<b>> \in Seq(S) /\ Len(<<b>>) = 1 /\ <<b>>[1] = b
  OBVIOUS
<1>1. c \in Seq(S) /\ Len(c) = Len(s) + 1 /\ DOMAIN c = 1..(Len(s) + 1) /\ DOMAIN s = 1..Len(s)
      /\ Len(s) \in Nat
  <2>1. c \in Seq(S) /\ Len(c) = 1 + Len(s)
    BY <1>0, ConcatProperties
  <2> QED BY <2>1
<1>2. \A i \in 1..(Len(s) + 1) : c[i] = IF i = 1 THEN b ELSE s[i - 1]
  <2>1. \A i \in 1..(1 + Len(s)) : c[i] = IF i <= 1 THEN <<b>>[i] ELSE s[i - 1]
    BY <1>0, ConcatProperties
  <2> QED BY <1>0, <1>1, <2>1
<1> HIDE DEF c
<1>3. ASSUME NEW x \in Elems(c) PROVE x \in {b} \cup Elems(s)
  <2>1. PICK i \in 1..(Len(s) + 1) : x = c[i]
    BY <1>1 DEF Elems
  <2>2. i = 1 \/ i - 1 \in 1..Len(s)
    BY <1>1, <2>1
  <2> QED BY <1>1, <1>2, <2>1, <2>2 DEF Elems
<1>4. b \in Elems(c)
  BY <1>1, <1>2 DEF Elems
<1>5. ASSUME NEW x \in Elems(s) PROVE x \in Elems(c)
  <2>1. PICK i \in 1..Len(s) : x = s[i]
    BY <1>1 DEF Elems
  <2>2. i + 1 \in 1..(Len(s) + 1) /\ c[i + 1] = s[i]
    BY <1>1, <1>2
  <2> QED BY <1>1, <2>1, <2>2 DEF Elems
<1> QED BY <1>1, <1>3, <1>4, <1>5 DEF c

LEMMA HeldIs == \A r : BrHeld(r) = Elems(rg[r].list)
  BY DEF BrHeld, Elems
LEMMA HeldIsNext == \A r : BrHeld(r)' = Elems(rg[r].list)'
  BY DEF BrHeld, Elems

\* What enable_set does to a bridge: it gets into the state that was asked for, or
\* nothing changes.  What a driver does whose data is gone is not known.
LEMMA BridgeSetIs ==
  ASSUME RegTyped, NEW b \in Bridges, NEW on \in BOOLEAN, NEW o \in fpga_bridge_set(b, on)
  PROVE  /\ o.b \in BrType /\ o.remap \in RemapType /\ o.ok \in BOOLEAN
         /\ o.b.reg = br[b].reg /\ o.b.lock = br[b].lock /\ o.b.info = br[b].info
         /\ o.b.probing = br[b].probing /\ o.b.late = (br[b].late /\ ~(o.ok /\ br[b].reg))
         /\ o.ok /\ (br[b].reg \/ BridgeKind[b] # "fpga2sdram") => o.b.hw = BrState(on) /\ o.b.set = BrState(on)
         /\ ~o.ok => o.b = br[b] /\ o.remap = remap
         /\ BridgeKind[b] \notin HpsKinds => o.remap = remap
         /\ BridgeKind[b] \in HpsKinds /\ o.ok =>
              /\ o.remap.l3 = o.remap.shadow
              /\ o.remap.shadow = IF on THEN remap.shadow \cup {b} ELSE remap.shadow \ {b}
<1>1. br[b] \in BrType /\ remap \in RemapType /\ BridgeKind[b] \in BridgeKinds
  BY RegionAssumption DEF RegTyped
<1>2. ASSUME NEW hw \in Hw, NEW rm \in RemapType, NEW ok \in BOOLEAN, ok \/ hw = br[b].hw
      PROVE  LET q == BrResult(b, hw, rm, ok) IN
             /\ q.b \in BrType /\ q.remap = rm /\ q.ok = ok
             /\ q.b.reg = br[b].reg /\ q.b.lock = br[b].lock /\ q.b.info = br[b].info
             /\ q.b.probing = br[b].probing /\ q.b.late = (br[b].late /\ ~(ok /\ br[b].reg))
             /\ ok => q.b.hw = hw /\ q.b.set = hw
             /\ ~ok => q.b = br[b]
  BY <1>1, <1>2 DEF BrResult, BrType
<1>3. \E hw \in Hw, rm \in RemapType, ok \in BOOLEAN :
        /\ ok \/ (hw = br[b].hw /\ rm = remap)
        /\ ok /\ (br[b].reg \/ BridgeKind[b] # "fpga2sdram") => hw = BrState(on)
        /\ BridgeKind[b] \notin HpsKinds => rm = remap
        /\ BridgeKind[b] \in HpsKinds /\ ok =>
             /\ rm.l3 = rm.shadow
             /\ rm.shadow = IF on THEN remap.shadow \cup {b} ELSE remap.shadow \ {b}
        /\ o = BrResult(b, hw, rm, ok)
  <2>0. br[b].hw \in Hw /\ BrState(on) \in Hw
    BY <1>1 DEF BrType, BrState, Hw
  <2>1. CASE BridgeKind[b] = "freeze"
    <3>1. o \in altera_freeze_br_enable_set(b, on)
      BY <2>1 DEF fpga_bridge_set
    <3>2. CASE on
      <4>1. o \in altera_freeze_br_do_unfreeze(b)
        BY <3>1, <3>2 DEF altera_freeze_br_enable_set
      <4>2. \E ack \in BOOLEAN : o = BrResult(b, IF ack THEN "on" ELSE br[b].hw, remap, ack)
        BY <4>1 DEF altera_freeze_br_do_unfreeze, altera_freeze_br_req_ack
      <4> QED BY <1>1, <2>0, <2>1, <3>2, <4>2 DEF BrState, HpsKinds
    <3>3. CASE ~on
      <4>1. o \in altera_freeze_br_do_freeze(b)
        BY <3>1, <3>3 DEF altera_freeze_br_enable_set
      <4>2. \E ack \in BOOLEAN : o = BrResult(b, IF ack THEN "off" ELSE br[b].hw, remap, ack)
        BY <4>1 DEF altera_freeze_br_do_freeze, altera_freeze_br_req_ack
      <4> QED BY <1>1, <2>0, <2>1, <3>3, <4>2 DEF BrState, HpsKinds
    <3> QED BY <3>2, <3>3
  <2>2. CASE BridgeKind[b] \in HpsKinds
    <3> DEFINE s == IF on THEN remap.shadow \cup {b} ELSE remap.shadow \ {b}
               new == [shadow |-> s, l3 |-> s]
    <3>1. new \in RemapType /\ new.l3 = new.shadow /\ new.shadow = s
      BY <1>1 DEF RemapType
    <3>2. o = BrResult(b, BrState(on), new, TRUE) \/ o = BrResult(b, br[b].hw, remap, FALSE)
      BY <2>2 DEF fpga_bridge_set, _alt_hps2fpga_enable_set, HpsKinds
    <3> HIDE DEF new
    <3>3. CASE o = BrResult(b, BrState(on), new, TRUE)
      <4> BrState(on) \in Hw /\ new \in RemapType /\ new.l3 = new.shadow /\ new.shadow = s
        BY <2>0, <3>1
      <4> HIDE DEF s
      <4> WITNESS BrState(on) \in Hw, new \in RemapType, TRUE \in BOOLEAN
      <4> QED BY <2>2, <3>3 DEF s
    <3>4. CASE o = BrResult(b, br[b].hw, remap, FALSE)
      BY <1>1, <2>0, <2>2, <3>4
    <3> QED BY <3>2, <3>3, <3>4
  <2>3. CASE BridgeKind[b] \in {"fpga2sdram", "decoupler"}
    <3>1. \/ \E hw \in Hw : /\ o = BrResult(b, hw, remap, TRUE)
                            /\ br[b].reg \/ BridgeKind[b] # "fpga2sdram" => hw = BrState(on)
          \/ o = BrResult(b, br[b].hw, remap, FALSE)
      BY <2>0, <2>3 DEF fpga_bridge_set, _alt_fpga2sdram_enable_set, xlnx_pr_decoupler_enable_set, Hw
    <3>2. BridgeKind[b] \notin HpsKinds
      BY <2>3 DEF HpsKinds
    <3>3. ASSUME NEW hw \in Hw, o = BrResult(b, hw, remap, TRUE),
                 br[b].reg \/ BridgeKind[b] # "fpga2sdram" => hw = BrState(on)
          PROVE  \E h \in Hw, rm \in RemapType, ok \in BOOLEAN :
                   /\ ok \/ (h = br[b].hw /\ rm = remap)
                   /\ ok /\ (br[b].reg \/ BridgeKind[b] # "fpga2sdram") => h = BrState(on)
                   /\ BridgeKind[b] \notin HpsKinds => rm = remap
                   /\ BridgeKind[b] \in HpsKinds /\ ok =>
                        /\ rm.l3 = rm.shadow
                        /\ rm.shadow = IF on THEN remap.shadow \cup {b} ELSE remap.shadow \ {b}
                   /\ o = BrResult(b, h, rm, ok)
      BY <1>1, <3>2, <3>3
    <3> QED BY <1>1, <2>0, <3>1, <3>2, <3>3
  <2> QED BY <1>1, <2>1, <2>2, <2>3 DEF BridgeKinds, HpsKinds
<1> QED BY <1>2, <1>3

\* The ways out of programming and the removal of an overlay: the region has no
\* bridges, those it had are free, and nothing is under way.
LEMMA RegEnds ==
  ASSUME RegIInv, NEW r \in Regions, ntf.r = r,
         rg' \in [Regions -> RgType], \A q \in Regions : q # r => rg'[q] = rg[q],
         rg'[r].reg = rg[r].reg, ~rg'[r].info, rg'[r].list = <<>>,
         br' \in [Bridges -> BrType],
         \A b \in Bridges : /\ br'[b].reg = br[b].reg /\ br'[b].hw = br[b].hw /\ br'[b].set = br[b].set
                            /\ br'[b].lock = IF br[b].lock = r THEN NoRegion ELSE br[b].lock
                            /\ br'[b].probing = br[b].probing /\ (br[b].lock # r => br'[b].late = br[b].late),
         ntf' = NtfIdle, mgrlock' = NoRegion, remap' = remap
  PROVE  RegIInv'
<1>0. /\ RegTyped /\ RegGone /\ RegLate /\ RegHeldListed /\ RegAppliedUp /\ HpsShadow /\ RegPhase
      /\ NoRegion \notin Regions /\ Lost \notin Regions
  BY RegionAssumption DEF RegIInv
<1>1. ntf'.pc = "idle" /\ ntf'.r = NoRegion /\ ~ntf'.rm
  BY DEF NtfIdle
<1>2. RegTyped'
  <2>1. NtfIdle \in NtfType
    BY EmptySeq DEF NtfIdle, NtfType, NoOverlay, OvType
  <2> QED BY <1>0, <2>1 DEF RegTyped
<1>3. RegGone' /\ RegLate' /\ RegPhase' /\ RegTodo' /\ RegLoadIsolated'
  BY <1>0, <1>1 DEF RegGone, RegLate, RegPhase, RegTodo, RegLoadIsolated
<1>4. BrHeld(r)' = {} /\ \A q \in Regions : q # r => BrHeld(q)' = BrHeld(q)
  BY HeldIs, HeldIsNext, ElemsEmpty
<1>5. RegHeldListed'
  BY <1>0, <1>1, <1>4 DEF RegHeldListed
<1>6. RegAppliedUp'
  <2> SUFFICES ASSUME NEW q \in Regions, rg'[q].info, NEW b \in BrHeld(q)' PROVE br'[b].hw = "on" \/ br'[b].late
    BY DEF RegAppliedUp
  <2>1. q # r /\ b \in BrHeld(q) /\ rg[q].info
    BY <1>4
  <2>2. b \in Bridges /\ br[b].lock = q
    BY <1>0, <2>1 DEF RegHeldListed
  <2>3. br[b].hw = "on" \/ br[b].late
    BY <1>0, <2>1 DEF RegAppliedUp
  <2> QED BY <2>1, <2>2, <2>3
<1>7. HpsShadow'
  BY <1>0 DEF HpsShadow
<1> QED BY <1>2, <1>3, <1>5, <1>6, <1>7 DEF RegIInv

\* Putting the bridges of a region frees what it holds.
LEMMA PutIs ==
  ASSUME RegIInv, NEW r \in Regions
  PROVE  /\ fpga_bridges_put(r) \in [Bridges -> BrType]
         /\ \A b \in Bridges :
              LET x == fpga_bridges_put(r)[b] IN
              /\ x.reg = br[b].reg /\ x.hw = br[b].hw /\ x.set = br[b].set /\ x.probing = br[b].probing
              /\ br[b].lock # r => x.late = br[b].late
              /\ x.lock = IF br[b].lock = r THEN NoRegion ELSE br[b].lock
<1>1. br \in [Bridges -> BrType] /\ BrHeld(r) = {b \in Bridges : br[b].lock = r}
  BY DEF RegIInv, RegTyped, RegHeldListed
<1>2. ASSUME NEW x \in BrType
      PROVE  LET y == fpga_bridge_put(x) IN
             y \in BrType /\ y.reg = x.reg /\ y.hw = x.hw /\ y.set = x.set /\ y.lock = NoRegion /\ y.probing = x.probing
  BY DEF fpga_bridge_put, BrType
<1> QED BY <1>1, <1>2 DEF fpga_bridges_put

LEMMA RegClears ==
  ASSUME RegTyped, NEW r \in Regions
  PROVE  LET g == [rg EXCEPT ![r].info = FALSE, ![r].list = <<>>] IN
         /\ g \in [Regions -> RgType] /\ \A q \in Regions : q # r => g[q] = rg[q]
         /\ g[r].reg = rg[r].reg /\ ~g[r].info /\ g[r].list = <<>>
  BY EmptySeq DEF RegTyped, RgType

LEMMA ErrPut ==
  ASSUME RegIInv, NEW r \in Regions, ntf.r = r, err_put_br, remap' = remap
  PROVE  RegIInv'
<1>1. br' = fpga_bridges_put(r) /\ rg' = [rg EXCEPT ![r].info = FALSE, ![r].list = <<>>]
      /\ ntf' = NtfIdle /\ mgrlock' = NoRegion
  BY DEF err_put_br
<1>2. /\ rg' \in [Regions -> RgType] /\ \A q \in Regions : q # r => rg'[q] = rg[q]
      /\ rg'[r].reg = rg[r].reg /\ ~rg'[r].info /\ rg'[r].list = <<>>
  BY <1>1, RegClears DEF RegIInv
<1>3. /\ br' \in [Bridges -> BrType]
      /\ \A b \in Bridges : /\ br'[b].reg = br[b].reg /\ br'[b].hw = br[b].hw /\ br'[b].set = br[b].set
                            /\ br'[b].lock = IF br[b].lock = r THEN NoRegion ELSE br[b].lock
                            /\ br'[b].probing = br[b].probing /\ (br[b].lock # r => br'[b].late = br[b].late)
  BY <1>1, PutIs
<1> QED BY <1>1, <1>2, <1>3, RegEnds

LEMMA BusyOut ==
  ASSUME RegIInv, NEW r \in Regions, ntf.r = r, NEW b \in Bridges, BrBusyOut(b), remap' = remap
  PROVE  RegIInv'
<1>1. br' = [fpga_bridges_put(r) EXCEPT ![b].info = r] /\ rg' = [rg EXCEPT ![r].info = FALSE, ![r].list = <<>>]
      /\ ntf' = NtfIdle /\ mgrlock' = NoRegion
  BY DEF BrBusyOut
<1>2. /\ rg' \in [Regions -> RgType] /\ \A q \in Regions : q # r => rg'[q] = rg[q]
      /\ rg'[r].reg = rg[r].reg /\ ~rg'[r].info /\ rg'[r].list = <<>>
  BY <1>1, RegClears DEF RegIInv
<1> DEFINE p == fpga_bridges_put(r)
<1>3. p \in [Bridges -> BrType]
  BY PutIs
<1> HIDE DEF p
<1>4. br' \in [Bridges -> BrType] /\ \A c \in Bridges :
        /\ br'[c].reg = p[c].reg /\ br'[c].hw = p[c].hw /\ br'[c].set = p[c].set /\ br'[c].lock = p[c].lock
        /\ br'[c].probing = p[c].probing /\ br'[c].late = p[c].late
  BY <1>1, <1>3 DEF BrType, p
<1>5. \A c \in Bridges : /\ p[c].reg = br[c].reg /\ p[c].hw = br[c].hw /\ p[c].set = br[c].set
                         /\ p[c].lock = IF br[c].lock = r THEN NoRegion ELSE br[c].lock
                         /\ p[c].probing = br[c].probing /\ (br[c].lock # r => p[c].late = br[c].late)
  BY PutIs DEF p
<1>6. \A b1 \in Bridges : /\ br'[b1].reg = br[b1].reg /\ br'[b1].hw = br[b1].hw /\ br'[b1].set = br[b1].set
                          /\ br'[b1].lock = IF br[b1].lock = r THEN NoRegion ELSE br[b1].lock
                          /\ br'[b1].probing = br[b1].probing /\ (br[b1].lock # r => br'[b1].late = br[b1].late)
  BY <1>4, <1>5
<1> QED BY <1>1, <1>2, <1>4, <1>6, RegEnds

-----------------------------------------------------------------------------
\* Setting a bridge keeps the register and its shadow together.
LEMMA SetsHps ==
  ASSUME RegTyped, HpsShadow, NEW b \in Bridges, NEW on \in BOOLEAN, NEW o \in fpga_bridge_set(b, on),
         remap' = o.remap, \A c \in Bridges : c # b => br'[c] = br[c], br'[b].set = o.b.set
  PROVE  HpsShadow'
<1>1. /\ o.ok \in BOOLEAN /\ (o.ok /\ BridgeKind[b] # "fpga2sdram" => o.b.set = BrState(on))
      /\ ~o.ok => o.b = br[b] /\ o.remap = remap
      /\ BridgeKind[b] \notin HpsKinds => o.remap = remap
      /\ BridgeKind[b] \in HpsKinds /\ o.ok =>
           /\ o.remap.l3 = o.remap.shadow
           /\ o.remap.shadow = IF on THEN remap.shadow \cup {b} ELSE remap.shadow \ {b}
  BY BridgeSetIs
<1>2. CASE o.remap = remap /\ (BridgeKind[b] \notin HpsKinds \/ o.b = br[b])
  BY <1>2 DEF HpsShadow
<1>3. CASE BridgeKind[b] \in HpsKinds /\ o.ok
  <2>1. BridgeKind[b] # "fpga2sdram"
    BY <1>3 DEF HpsKinds
  <2> QED BY <1>1, <1>3, <2>1 DEF HpsShadow, BrState
<1> QED BY <1>1, <1>2, <1>3

\* Bridges come and go without being held by a region.
LEMMA ProbeIs ==
  ASSUME RegTyped, RegLate, NEW b \in Bridges, BridgeProbe(b)
  PROVE  /\ br' \in [Bridges -> BrType] /\ remap' \in RemapType /\ UNCHANGED <<rg, ntf, mgrlock>>
         /\ \A c \in Bridges : c # b => br'[c] = br[c]
         /\ br[b].lock \notin Regions /\ br'[b].lock \notin Regions
         /\ br'[b].probing => BridgeKind[b] = "fpga2sdram"
         /\ HpsShadow => HpsShadow'
<1>1. /\ br \in [Bridges -> BrType] /\ remap \in RemapType /\ br[b] \in BrType /\ ~br[b].reg
      /\ br[b].lock \notin Regions /\ UNCHANGED <<rg, ntf, mgrlock>> /\ NoRegion \notin Regions
      /\ br[b].probing => BridgeKind[b] = "fpga2sdram"
  BY RegionAssumption DEF RegTyped, RegLate, BridgeProbe
<1>2. ASSUME NEW x \in BrType
      PROVE  LET y == fpga_bridge_register(x) IN
             y \in BrType /\ y.hw = x.hw /\ y.set = x.set /\ y.lock = NoRegion /\ ~y.probing
  BY DEF fpga_bridge_register, BrType
<1>3. ASSUME NEW y \in BrType, br' = [br EXCEPT ![b] = y], y.lock \notin Regions,
             y.probing => BridgeKind[b] = "fpga2sdram"
      PROVE  /\ br' \in [Bridges -> BrType] /\ \A c \in Bridges : c # b => br'[c] = br[c]
             /\ br'[b] = y /\ br'[b].lock \notin Regions /\ (br'[b].probing => BridgeKind[b] = "fpga2sdram")
  BY <1>1, <1>3
<1>4. CASE altera_freeze_br_probe(b)
  <2>1. PICK hw \in Hw : br' = [br EXCEPT ![b] = [fpga_bridge_register(br[b]) EXCEPT !.hw = hw, !.set = "none"]]
    BY <1>4 DEF altera_freeze_br_probe, Hw
  <2>2. remap' = remap /\ BridgeKind[b] = "freeze"
    BY <1>4 DEF altera_freeze_br_probe
  <2> DEFINE y == [fpga_bridge_register(br[b]) EXCEPT !.hw = hw, !.set = "none"]
  <2>3. y \in BrType /\ y.lock = NoRegion /\ ~y.probing
    BY <1>1, <1>2 DEF BrType, Hw
  <2> HIDE DEF y
  <2>4. br' = [br EXCEPT ![b] = y]
    BY <2>1 DEF y
  <2> QED BY <1>1, <1>3, <2>2, <2>3, <2>4 DEF HpsShadow, HpsKinds
<1>5. CASE br' = [br EXCEPT ![b] = fpga_bridge_register(br[b])] /\ remap' = remap
  <2>1. fpga_bridge_register(br[b]) \in BrType /\ fpga_bridge_register(br[b]).set = br[b].set
        /\ fpga_bridge_register(br[b]).lock \notin Regions /\ ~fpga_bridge_register(br[b]).probing
    BY <1>1, <1>2
  <2> QED BY <1>1, <1>3, <1>5, <2>1 DEF HpsShadow
<1>6. ASSUME NEW on \in BOOLEAN, NEW o \in fpga_bridge_set(b, on), remap' = o.remap,
             \/ br' = [br EXCEPT ![b] = fpga_bridge_register(o.b)]
             \/ br' = [br EXCEPT ![b] = o.b]
      PROVE  /\ br' \in [Bridges -> BrType] /\ \A c \in Bridges : c # b => br'[c] = br[c]
             /\ br'[b].lock \notin Regions /\ (br'[b].probing => BridgeKind[b] = "fpga2sdram")
             /\ remap' \in RemapType
             /\ HpsShadow => HpsShadow'
  <2>1. o.b \in BrType /\ o.b.lock = br[b].lock /\ o.remap \in RemapType /\ o.b.probing = br[b].probing
    BY BridgeSetIs
  <2>2. PICK y : br' = [br EXCEPT ![b] = y] /\ (y = fpga_bridge_register(o.b) \/ y = o.b)
    BY <1>6
  <2>3. y \in BrType /\ y.set = o.b.set /\ y.lock \notin Regions /\ (y.probing => BridgeKind[b] = "fpga2sdram")
    BY <1>1, <1>2, <2>1, <2>2
  <2>4. /\ br' \in [Bridges -> BrType] /\ \A c \in Bridges : c # b => br'[c] = br[c]
        /\ br'[b] = y /\ br'[b].lock \notin Regions /\ (br'[b].probing => BridgeKind[b] = "fpga2sdram")
    BY <1>3, <2>2, <2>3
  <2>5. HpsShadow => HpsShadow'
    BY <1>6, <2>3, <2>4, SetsHps
  <2> QED BY <1>6, <2>1, <2>4, <2>5
<1>7. CASE alt_hps2fpga_probe(b)
  <2>1. BridgeKind[b] \in {"hps2fpga", "lwhps2fpga"}
    BY <1>7 DEF alt_hps2fpga_probe
  <2>2. \A on \in BOOLEAN : fpga_bridge_set(b, on) = _alt_hps2fpga_enable_set(b, on)
    BY <2>1 DEF fpga_bridge_set
  <2>3. ASSUME NEW on \in BOOLEAN, NEW o \in _alt_hps2fpga_enable_set(b, on), remap' = o.remap,
               br' = [br EXCEPT ![b] = fpga_bridge_register(o.b)] \/ br' = [br EXCEPT ![b] = o.b]
        PROVE  /\ br' \in [Bridges -> BrType] /\ \A c \in Bridges : c # b => br'[c] = br[c]
               /\ br'[b].lock \notin Regions /\ (br'[b].probing => BridgeKind[b] = "fpga2sdram")
               /\ remap' \in RemapType
               /\ HpsShadow => HpsShadow'
    BY <1>6, <2>2, <2>3
  <2>4. CASE \E on \in BOOLEAN : \E o \in _alt_hps2fpga_enable_set(b, on) :
               /\ br' = [br EXCEPT ![b] = fpga_bridge_register(o.b)] \/ br' = [br EXCEPT ![b] = o.b]
               /\ remap' = o.remap
    BY <1>1, <2>3, <2>4
  <2> QED BY <1>5, <1>7, <2>4 DEF alt_hps2fpga_probe
<1>8. CASE alt_fpga2sdram_probe(b)
  <2>1. BridgeKind[b] = "fpga2sdram" /\ remap' = remap
    BY <1>8 DEF alt_fpga2sdram_probe
  <2>2. PICK enable \in BOOLEAN : br' = [br EXCEPT ![b] = [fpga_bridge_register(br[b]) EXCEPT !.probing = enable]]
    BY <1>8 DEF alt_fpga2sdram_probe
  <2> DEFINE y == [fpga_bridge_register(br[b]) EXCEPT !.probing = enable]
  <2>3. y \in BrType /\ y.set = br[b].set /\ y.lock = NoRegion
    BY <1>1, <1>2 DEF BrType
  <2> HIDE DEF y
  <2>4. br' = [br EXCEPT ![b] = y]
    BY <2>2 DEF y
  <2> QED BY <1>1, <1>3, <2>1, <2>3, <2>4 DEF HpsShadow
<1>9. CASE xlnx_pr_decoupler_probe(b)
  BY <1>5, <1>9 DEF xlnx_pr_decoupler_probe
<1> QED BY <1>4, <1>7, <1>8, <1>9 DEF BridgeProbe

\* A step of a bridge that no region holds disturbs nothing else.
LEMMA FreeBridges ==
  ASSUME RegIInv, NEW b \in Bridges, br[b].lock \notin Regions, UNCHANGED <<rg, ntf, mgrlock>>,
         br' \in [Bridges -> BrType], remap' \in RemapType, \A c \in Bridges : c # b => br'[c] = br[c],
         br'[b].lock \notin Regions, br'[b].probing => BridgeKind[b] = "fpga2sdram", HpsShadow'
  PROVE  RegIInv'
<1>0. /\ RegTyped /\ RegGone /\ RegLate /\ RegPhase /\ RegHeldListed /\ RegTodo /\ RegLoadIsolated /\ RegAppliedUp
      /\ NoRegion \notin Regions
  BY RegionAssumption DEF RegIInv
<1>1. RegTyped' /\ RegGone' /\ RegLate' /\ RegPhase'
  BY <1>0 DEF RegTyped, RegGone, RegLate, RegPhase
<1>2. \A r : BrHeld(r)' = BrHeld(r)
  BY HeldIs, HeldIsNext
<1>3. RegHeldListed'
  BY <1>0, <1>2 DEF RegHeldListed
<1>4. \A r \in Regions : \A c \in BrHeld(r) : c \in Bridges /\ c # b /\ br'[c] = br[c]
  BY <1>0 DEF RegHeldListed
<1>5. ntf.pc # "idle" => ntf.r \in Regions
  BY <1>0 DEF RegPhase, RegTyped, NtfType
<1>6. RegTodo' /\ RegLoadIsolated' /\ RegAppliedUp'
  BY <1>0, <1>2, <1>4, <1>5 DEF RegTodo, RegLoadIsolated, RegAppliedUp
<1> QED BY <1>1, <1>3, <1>6 DEF RegIInv

LEMMA BridgesComeAndGo ==
  ASSUME RegIInv, NEW b \in Bridges, BridgeProbe(b) \/ fpga_bridge_unregister(b)
  PROVE  RegIInv'
<1>1. RegTyped /\ RegLate /\ HpsShadow
  BY DEF RegIInv
<1>2. CASE BridgeProbe(b)
  BY <1>1, <1>2, ProbeIs, FreeBridges
<1>3. CASE fpga_bridge_unregister(b)
  <2>1. br[b].lock = NoRegion /\ br' = [br EXCEPT ![b].reg = FALSE] /\ UNCHANGED <<rg, remap, ntf, mgrlock>>
    BY <1>3 DEF fpga_bridge_unregister
  <2>2. /\ br' \in [Bridges -> BrType] /\ \A c \in Bridges : c # b => br'[c] = br[c]
        /\ br'[b].lock = br[b].lock /\ br'[b].set = br[b].set /\ br'[b].probing = br[b].probing
    BY <1>1, <2>1 DEF RegTyped, BrType
  <2>3. HpsShadow'
    BY <1>1, <2>1, <2>2 DEF HpsShadow
  <2>4. remap' \in RemapType /\ NoRegion \notin Regions /\ (br[b].probing => BridgeKind[b] = "fpga2sdram")
    BY <1>1, <2>1, RegionAssumption DEF RegTyped, RegLate
  <2> QED BY <2>1, <2>2, <2>3, <2>4, FreeBridges
<1> QED BY <1>2, <1>3

\* The second step of a probe sets its bridge or leaves it without a driver, in the
\* hands of a region or not.
LEMMA SetsLate ==
  ASSUME RegIInv, NEW b \in Bridges, alt_fpga2sdram_probe_set(b)
  PROVE  RegIInv'
<1>0. /\ RegTyped /\ RegGone /\ RegLate /\ RegPhase /\ RegHeldListed /\ RegTodo /\ RegLoadIsolated /\ RegAppliedUp
      /\ HpsShadow /\ NoRegion \notin Regions
  BY RegionAssumption DEF RegIInv
<1>1. /\ br \in [Bridges -> BrType] /\ BridgeKind[b] = "fpga2sdram" /\ UNCHANGED <<rg, remap, ntf, mgrlock>>
  BY <1>0 DEF RegTyped, RegLate, alt_fpga2sdram_probe_set
<1>2. \A on \in BOOLEAN : fpga_bridge_set(b, on) = _alt_fpga2sdram_enable_set(b, on)
  BY <1>1 DEF fpga_bridge_set
<1>3. PICK on \in BOOLEAN : \E o \in fpga_bridge_set(b, on) :
        br' = [br EXCEPT ![b] = [o.b EXCEPT !.probing = FALSE, !.reg = o.ok, !.late = br[b].lock \in Regions]]
  BY <1>2 DEF alt_fpga2sdram_probe_set
<1>4. PICK o \in fpga_bridge_set(b, on) :
        br' = [br EXCEPT ![b] = [o.b EXCEPT !.probing = FALSE, !.reg = o.ok, !.late = br[b].lock \in Regions]]
  BY <1>3
<1>5. o.b \in BrType /\ o.ok \in BOOLEAN /\ o.b.lock = br[b].lock
  BY <1>0, BridgeSetIs
<1> DEFINE late == br[b].lock \in Regions
           y == [o.b EXCEPT !.probing = FALSE, !.reg = o.ok, !.late = late]
<1>6. late \in BOOLEAN /\ br' = [br EXCEPT ![b] = y]
  BY <1>4
<1> HIDE DEF late
<1>7. y \in BrType /\ ~y.probing /\ y.late = late /\ y.lock = br[b].lock
  BY <1>5, <1>6 DEF BrType
<1> HIDE DEF y
<1>8. /\ br' \in [Bridges -> BrType] /\ \A c \in Bridges : c # b => br'[c] = br[c]
      /\ br'[b].lock = br[b].lock /\ ~br'[b].probing /\ (br[b].lock \in Regions => br'[b].late)
  BY <1>1, <1>6, <1>7 DEF late
<1>9. RegTyped' /\ RegGone' /\ RegPhase'
  BY <1>0, <1>1, <1>8 DEF RegTyped, RegGone, RegPhase
<1>10. RegLate' /\ HpsShadow'
  BY <1>0, <1>1, <1>8 DEF RegLate, HpsShadow, HpsKinds
<1>11. \A r : BrHeld(r)' = BrHeld(r)
  BY <1>1, HeldIs, HeldIsNext
<1>12. RegHeldListed'
  BY <1>0, <1>1, <1>8, <1>11 DEF RegHeldListed
<1>13. \A r \in Regions : \A c \in BrHeld(r) : br'[c] = br[c] \/ br'[c].late
  BY <1>0, <1>8 DEF RegHeldListed
<1>14. ntf.pc # "idle" => ntf.r \in Regions
  BY <1>0 DEF RegPhase, RegTyped, NtfType
<1>15. RegTodo' /\ RegLoadIsolated' /\ RegAppliedUp'
  BY <1>0, <1>1, <1>11, <1>13, <1>14 DEF RegTodo, RegLoadIsolated, RegAppliedUp
<1> QED BY <1>9, <1>10, <1>12, <1>15 DEF RegIInv

-----------------------------------------------------------------------------
LEMMA RegionsComeAndGo ==
  ASSUME RegIInv, NEW r \in Regions, of_fpga_region_probe(r) \/ of_fpga_region_remove(r)
  PROVE  RegIInv'
<1>0. /\ RegTyped /\ RegGone /\ RegLate /\ RegPhase /\ RegHeldListed /\ RegTodo /\ RegLoadIsolated /\ RegAppliedUp
      /\ HpsShadow
      /\ NoRegion \notin Regions /\ Lost \notin Regions
  BY RegionAssumption DEF RegIInv
<1>1. ntf.r \in Regions \cup {NoRegion} /\ rg \in [Regions -> RgType] /\ br \in [Bridges -> BrType]
  BY <1>0 DEF RegTyped, NtfType
<1>2. ntf.r # r /\ UNCHANGED <<ntf, remap, mgrlock>>
  BY <1>0 DEF of_fpga_region_probe, of_fpga_region_remove, RegPhase
<1>3. /\ rg' \in [Regions -> RgType] /\ \A q \in Regions : q # r => rg'[q] = rg[q]
      /\ ~rg'[r].info /\ rg'[r].list = <<>>
  <2>1. /\ DOMAIN rg' = Regions /\ \A q \in Regions : q # r => rg'[q] = rg[q]
        /\ \E reg \in BOOLEAN : rg'[r] = [rg[r] EXCEPT !.reg = reg, !.info = FALSE, !.list = <<>>]
    <3>1. CASE of_fpga_region_probe(r)
      BY <1>1, <3>1 DEF of_fpga_region_probe, RgType
    <3>2. CASE of_fpga_region_remove(r)
      BY <1>1, <3>2 DEF of_fpga_region_remove, RgType
    <3> QED BY <3>1, <3>2
  <2>2. rg'[r] \in RgType /\ ~rg'[r].info /\ rg'[r].list = <<>>
    <3>1. PICK reg \in BOOLEAN : rg'[r] = [rg[r] EXCEPT !.reg = reg, !.info = FALSE, !.list = <<>>]
      BY <2>1
    <3>2. rg[r] \in RgType /\ <<>> \in Seq(Bridges)
      BY <1>1, EmptySeq
    <3> QED BY <3>1, <3>2 DEF RgType
  <2>3. rg' = [q \in Regions |-> rg'[q]]
    BY <1>1, <2>1 DEF of_fpga_region_probe, of_fpga_region_remove
  <2> QED BY <1>1, <2>1, <2>2, <2>3
<1>4. /\ br' \in [Bridges -> BrType]
      /\ \A b \in Bridges : /\ br'[b].reg = br[b].reg /\ br'[b].hw = br[b].hw /\ br'[b].set = br[b].set
                            /\ br'[b].lock = IF br[b].lock = r THEN Lost ELSE br[b].lock
                            /\ br'[b].probing = br[b].probing /\ br'[b].late = br[b].late
  <2>1. CASE of_fpga_region_probe(r)
    <3>1. br' = br /\ BrHeld(r) = {}
      BY <1>0, <2>1, HeldIs, ElemsEmpty DEF of_fpga_region_probe, RegGone
    <3> QED BY <1>0, <1>1, <3>1 DEF RegHeldListed
  <2>2. CASE of_fpga_region_remove(r)
    <3>1. br' = [b \in Bridges |-> IF b \in BrHeld(r) THEN [br[b] EXCEPT !.lock = Lost] ELSE br[b]]
      BY <2>2 DEF of_fpga_region_remove
    <3>2. BrHeld(r) = {b \in Bridges : br[b].lock = r}
      BY <1>0 DEF RegHeldListed
    <3>3. ASSUME NEW x \in BrType
          PROVE  LET y == [x EXCEPT !.lock = Lost] IN
                 /\ y \in BrType /\ y.reg = x.reg /\ y.hw = x.hw /\ y.set = x.set /\ y.lock = Lost
                 /\ y.probing = x.probing /\ y.late = x.late
      BY DEF BrType
    <3> QED BY <1>1, <3>1, <3>2, <3>3
  <2> QED BY <2>1, <2>2
<1>5. RegTyped' /\ RegGone' /\ RegLate' /\ HpsShadow'
  <2>1. RegTyped' /\ HpsShadow' /\ RegLate'
    BY <1>0, <1>2, <1>3, <1>4 DEF RegTyped, HpsShadow, RegLate
  <2>2. RegGone'
    BY <1>0, <1>3, <1>4 DEF RegGone
  <2> QED BY <2>1, <2>2
<1>6. RegPhase'
  BY <1>0, <1>1, <1>2, <1>3 DEF RegPhase
<1>7. BrHeld(r)' = {} /\ \A q \in Regions : q # r => BrHeld(q)' = BrHeld(q)
  BY <1>3, HeldIs, HeldIsNext, ElemsEmpty
<1>8. RegHeldListed'
  BY <1>0, <1>2, <1>3, <1>4, <1>7 DEF RegHeldListed
<1>9. \A q \in Regions : BrHeld(q) \subseteq Bridges
  BY <1>0 DEF RegHeldListed
<1>10. RegTodo' /\ RegLoadIsolated'
  <2>1. ntf.pc # "idle" => ntf.r \in Regions /\ BrHeld(ntf.r)' = BrHeld(ntf.r)
    BY <1>0, <1>1, <1>2, <1>7 DEF RegPhase
  <2> QED BY <1>0, <1>2, <1>4, <1>9, <2>1 DEF RegTodo, RegLoadIsolated
<1>11. RegAppliedUp'
  BY <1>0, <1>2, <1>3, <1>4, <1>7, <1>9 DEF RegAppliedUp
<1> QED BY <1>5, <1>6, <1>8, <1>10, <1>11 DEF RegIInv

\* A notification moves on, and the bridges and lists stay as they are: what
\* is left to show is what its next phase needs.
LEMMA RegMoves ==
  ASSUME RegIInv, ntf' \in NtfType, mgrlock' \in Regions \cup {NoRegion}, UNCHANGED <<br, remap>>,
         rg' \in [Regions -> RgType], RegPhase', RegTodo', RegLoadIsolated',
         \A q \in Regions : rg'[q].reg = rg[q].reg /\ rg'[q].list = rg[q].list,
         \A q \in Regions : rg'[q].info = rg[q].info \/ ntf'.r = q,
         \A q \in Regions : ntf'.r # q /\ ntf.r = q => rg[q].info /\ \A b \in BrHeld(q) : br[b].hw = "on" \/ br[b].late
  PROVE  RegIInv'
<1>0. RegTyped /\ RegGone /\ RegLate /\ RegHeldListed /\ RegAppliedUp /\ HpsShadow /\ RegPhase
  BY DEF RegIInv
<1>1. \A q \in Regions : BrHeld(q)' = BrHeld(q)
  BY HeldIs, HeldIsNext
<1>2. RegTyped' /\ HpsShadow' /\ RegLate'
  BY <1>0 DEF RegTyped, HpsShadow, RegLate
<1>3. RegHeldListed'
  BY <1>0, <1>1 DEF RegHeldListed
<1>4. RegGone'
  BY <1>0, RegionAssumption DEF RegGone, RegPhase
<1>5. RegAppliedUp'
  BY <1>0, <1>1 DEF RegAppliedUp
<1> QED BY <1>2, <1>3, <1>4, <1>5 DEF RegIInv

-----------------------------------------------------------------------------
LEMMA PreApplies ==
  ASSUME RegIInv, NEW ov \in Overlays, of_fpga_region_notify_pre_apply(ov)
  PROVE  RegIInv'
<1> DEFINE r == ov.target
<1>0. RegTyped /\ RegPhase /\ RegTodo /\ RegLoadIsolated /\ RegHeldListed /\ NoRegion \notin Regions
  BY RegionAssumption DEF RegIInv
<1>1. r \in Regions /\ ov \in OvType
  BY RegionAssumption DEF OvType
<1>2. ntf.pc = "idle" /\ ntf.r = NoRegion /\ ~ntf.rm /\ mgrlock = NoRegion /\ UNCHANGED <<br, remap, mgrlock>>
  BY <1>0 DEF of_fpga_region_notify_pre_apply, RegPhase
<1> HIDE DEF r
<1>3. rg \in [Regions -> RgType] /\ ntf \in NtfType /\ mgrlock \in Regions \cup {NoRegion}
  BY <1>0 DEF RegTyped
<1>4. CASE rg' = [rg EXCEPT ![r].stack = Append(@, ov)] /\ UNCHANGED ntf
  <2>1. Append(rg[r].stack, ov) \in Seq(OvType)
    BY <1>1, <1>3, AppendProperties DEF RgType
  <2>2. /\ rg' \in [Regions -> RgType]
        /\ \A q \in Regions : rg'[q].reg = rg[q].reg /\ rg'[q].list = rg[q].list /\ rg'[q].info = rg[q].info
    BY <1>1, <1>3, <1>4, <2>1 DEF RgType
  <2>3. RegPhase' /\ RegTodo' /\ RegLoadIsolated'
    BY <1>0, <1>2, <1>4, <2>2 DEF RegPhase, RegTodo, RegLoadIsolated
  <2> QED BY <1>2, <1>3, <1>4, <2>2, <2>3, RegMoves
<1>5. CASE UNCHANGED <<rg, ntf>>
  <2>1. RegPhase' /\ RegTodo' /\ RegLoadIsolated'
    BY <1>0, <1>2, <1>5 DEF RegPhase, RegTodo, RegLoadIsolated
  <2> QED BY <1>2, <1>3, <1>5, <2>1, RegMoves
<1>6. CASE /\ rg[r].reg /\ ~rg[r].info /\ rg' = [rg EXCEPT ![r].info = TRUE]
           /\ ntf' = [NtfIdle EXCEPT !.pc = "get", !.r = r, !.ov = ov]
  <2>1. /\ rg' \in [Regions -> RgType] /\ rg'[r].info
        /\ \A q \in Regions : rg'[q].reg = rg[q].reg /\ rg'[q].list = rg[q].list
        /\ \A q \in Regions : q # r => rg'[q].info = rg[q].info
    BY <1>1, <1>3, <1>6 DEF RgType
  <2>2. ntf' \in NtfType /\ ntf'.pc = "get" /\ ntf'.r = r /\ ~ntf'.rm
    BY <1>1, <1>6, EmptySeq DEF NtfIdle, NtfType
  <2>3. rg'[r].reg /\ rg'[r].list = <<>>
    BY <1>0, <1>1, <1>2, <1>6, <2>1 DEF RegHeldListed
  <2>4. RegPhase' /\ RegTodo' /\ RegLoadIsolated'
    BY <1>0, <1>1, <1>2, <2>1, <2>2, <2>3 DEF RegPhase, RegTodo, RegLoadIsolated
  <2> QED BY <1>0, <1>2, <1>3, <2>1, <2>2, <2>4, RegMoves
<1> QED BY <1>4, <1>5, <1>6 DEF of_fpga_region_notify_pre_apply, of_fpga_region_parse_ov, r

LEMMA GetsRegion ==
  ASSUME RegIInv, fpga_region_get
  PROVE  RegIInv'
<1>0. RegTyped /\ RegPhase /\ RegHeldListed /\ NoRegion \notin Regions
  BY RegionAssumption DEF RegIInv
<1>1. /\ ntf.pc = "get" /\ ntf.r \in Regions /\ ~ntf.rm /\ mgrlock = NoRegion /\ rg[ntf.r].list = <<>>
      /\ UNCHANGED <<br, remap>> /\ rg \in [Regions -> RgType] /\ ntf \in NtfType /\ br \in [Bridges -> BrType]
      /\ rg[ntf.r].reg /\ rg[ntf.r].info
  BY <1>0 DEF fpga_region_get, RegPhase, RegTyped, NtfType
<1>2. CASE mgrlock' = ntf.r /\ ntf' = [ntf EXCEPT !.pc = "parent"] /\ UNCHANGED rg
  <2>1. ntf' \in NtfType /\ ntf'.pc = "parent" /\ ntf'.r = ntf.r /\ ntf'.rm = ntf.rm
    BY <1>1, <1>2 DEF NtfType
  <2>2. RegPhase' /\ RegTodo' /\ RegLoadIsolated'
    BY <1>0, <1>1, <1>2, <2>1 DEF RegPhase, RegTodo, RegLoadIsolated
  <2> QED BY <1>1, <1>2, <2>1, <2>2, RegMoves
<1>3. CASE rg' = [rg EXCEPT ![ntf.r].info = FALSE] /\ ntf' = NtfIdle /\ UNCHANGED mgrlock
  <2> DEFINE r == ntf.r
  <2>1. /\ rg' \in [Regions -> RgType] /\ \A q \in Regions : q # r => rg'[q] = rg[q]
        /\ rg'[r].reg = rg[r].reg /\ ~rg'[r].info /\ rg'[r].list = <<>>
    BY <1>1, <1>3 DEF RgType
  <2>2. BrHeld(r) = {}
    BY <1>1, HeldIs, ElemsEmpty
  <2>3. \A b \in Bridges : br[b].lock # r
    BY <1>0, <1>1, <2>2 DEF RegHeldListed
  <2> HIDE DEF r
  <2>4. r \in Regions /\ ntf.r = r
    BY <1>1 DEF r
  <2> QED BY <1>1, <1>3, <2>1, <2>3, <2>4, RegEnds
<1> QED BY <1>2, <1>3 DEF fpga_region_get

\* A bridge is taken, or the next one is looked at.
LEMMA TakesBridge ==
  ASSUME RegIInv, NEW r \in Regions, ntf.r = r, ntf.pc \in {"parent", "bridges"},
         ntf' \in NtfType, ntf'.pc = "bridges", ntf'.r = r, ntf'.rm = ntf.rm, UNCHANGED <<mgrlock, remap>>,
         \/ UNCHANGED <<br, rg>>
         \/ \E b \in Bridges : ~BrBusy(b) /\ of_fpga_bridge_get_to_list(b)
  PROVE  RegIInv'
<1>0. /\ RegTyped /\ RegGone /\ RegLate /\ RegPhase /\ RegHeldListed /\ RegAppliedUp /\ HpsShadow
      /\ NoRegion \notin Regions /\ Lost \notin Regions
  BY RegionAssumption DEF RegIInv
<1>1. ~ntf.rm /\ rg \in [Regions -> RgType] /\ br \in [Bridges -> BrType] /\ rg[r].reg /\ rg[r].info
      /\ mgrlock \in Regions \cup {NoRegion}
  BY <1>0 DEF RegPhase, RegTyped
<1>2. CASE UNCHANGED <<br, rg>>
  <2>1. RegPhase' /\ RegTodo' /\ RegLoadIsolated'
    BY <1>0, <1>1, <1>2 DEF RegPhase, RegTodo, RegLoadIsolated
  <2> QED BY <1>1, <1>2, <2>1, RegMoves
<1>3. ASSUME NEW b \in Bridges, br[b].reg, br[b].lock = NoRegion,
             br' = [br EXCEPT ![b].info = r, ![b].lock = r], rg' = [rg EXCEPT ![r].list = <<b>> \o @]
      PROVE  RegIInv'
  <2>1. rg[r].list \in Seq(Bridges)
    BY <1>1 DEF RgType
  <2> DEFINE l == <<b>> \o rg[r].list
  <2>2. l \in Seq(Bridges) /\ Elems(l) = {b} \cup Elems(rg[r].list)
    BY <2>1, ElemsCons
  <2>3. rg' = [rg EXCEPT ![r].list = l]
    BY <1>3
  <2> HIDE DEF l
  <2>4. /\ rg' \in [Regions -> RgType] /\ \A q \in Regions : q # r => rg'[q] = rg[q]
        /\ rg'[r].reg = rg[r].reg /\ rg'[r].info = rg[r].info /\ rg'[r].list = l
    BY <1>1, <2>2, <2>3 DEF RgType
  <2>5. /\ br' \in [Bridges -> BrType] /\ \A c \in Bridges : c # b => br'[c] = br[c]
        /\ br'[b].reg = br[b].reg /\ br'[b].hw = br[b].hw /\ br'[b].set = br[b].set /\ br'[b].lock = r
        /\ br'[b].probing = br[b].probing
    <3> DEFINE x == [br[b] EXCEPT !.info = r, !.lock = r]
    <3>1. x \in BrType /\ x.reg = br[b].reg /\ x.hw = br[b].hw /\ x.set = br[b].set /\ x.lock = r
          /\ x.probing = br[b].probing
      BY <1>1 DEF BrType
    <3>2. br' = [br EXCEPT ![b] = x]
      BY <1>1, <1>3 DEF BrType
    <3> HIDE DEF x
    <3> QED BY <1>1, <3>1, <3>2
  <2>6. BrHeld(r)' = {b} \cup BrHeld(r) /\ \A q \in Regions : q # r => BrHeld(q)' = BrHeld(q)
    BY <2>2, <2>4, HeldIs, HeldIsNext
  <2>7. RegTyped' /\ HpsShadow'
    BY <1>0, <2>4, <2>5 DEF RegTyped, HpsShadow
  <2>8. RegGone' /\ RegLate' /\ RegPhase' /\ RegTodo' /\ RegLoadIsolated'
    BY <1>0, <1>1, <1>3, <2>4, <2>5 DEF RegGone, RegLate, RegPhase, RegTodo, RegLoadIsolated
  <2>9. RegHeldListed'
    BY <1>0, <1>3, <2>4, <2>5, <2>6 DEF RegHeldListed
  <2>10. RegAppliedUp'
    <3> SUFFICES ASSUME NEW q \in Regions, q # r, rg[q].info, NEW c \in BrHeld(q) PROVE br'[c].hw = "on" \/ br'[c].late
      BY <2>4, <2>6 DEF RegAppliedUp
    <3>1. c \in Bridges /\ br[c].lock = q /\ (br[c].hw = "on" \/ br[c].late)
      BY <1>0 DEF RegAppliedUp, RegHeldListed
    <3>2. c # b
      BY <1>0, <1>3, <3>1
    <3> QED BY <2>5, <3>1, <3>2
  <2> QED BY <2>7, <2>8, <2>9, <2>10 DEF RegIInv
<1> QED BY <1>2, <1>3 DEF BrBusy, of_fpga_bridge_get_to_list

LEMMA GetsParent ==
  ASSUME RegIInv, get_parent_bridge
  PROVE  RegIInv'
<1> DEFINE p == ParentBridge[ntf.r]
           got == p # NoBridge /\ br[p].reg
           todo == IF ntf.ov.bridges # <<>> THEN ntf.ov.bridges ELSE RegionBridges[ntf.r]
<1>1. ntf.pc = "parent" /\ ntf.r \in Regions /\ ntf \in NtfType /\ UNCHANGED remap
  BY RegionAssumption DEF RegIInv, RegPhase, RegTyped, NtfType, get_parent_bridge
<1>2. p \in Bridges \cup {NoBridge} /\ todo \in Seq(Bridges)
  BY <1>1, RegionAssumption DEF NtfType, OvType
<1>3. CASE got /\ BrBusy(p)
  BY <1>1, <1>2, <1>3, BusyOut DEF get_parent_bridge
<1>4. CASE ~(got /\ BrBusy(p))
  <2>1. /\ IF got THEN of_fpga_bridge_get_to_list(p) ELSE UNCHANGED <<br, rg>>
        /\ ntf' = [ntf EXCEPT !.pc = "bridges", !.pbr = IF got THEN p ELSE NoBridge, !.todo = todo]
        /\ UNCHANGED mgrlock
    BY <1>4 DEF get_parent_bridge
  <2> HIDE DEF p, todo
  <2>2. ntf' \in NtfType /\ ntf'.pc = "bridges" /\ ntf'.r = ntf.r /\ ntf'.rm = ntf.rm
    BY <1>1, <1>2, <2>1 DEF NtfType
  <2>3. CASE got
    BY <1>1, <1>2, <1>4, <2>1, <2>2, <2>3, TakesBridge
  <2>4. CASE ~got
    BY <1>1, <2>1, <2>2, <2>4, TakesBridge
  <2> QED BY <2>3, <2>4
<1> QED BY <1>3, <1>4

LEMMA GetsBridges ==
  ASSUME RegIInv, of_fpga_region_get_bridges
  PROVE  RegIInv'
<1> DEFINE b == Head(ntf.todo)
<1>1. /\ ntf.pc = "bridges" /\ ntf.r \in Regions /\ ntf \in NtfType /\ ntf.todo \in Seq(Bridges)
      /\ ntf.todo # <<>>
      /\ UNCHANGED remap
  BY RegionAssumption DEF RegIInv, RegPhase, RegTyped, NtfType, of_fpga_region_get_bridges
<1>2. b \in Bridges /\ Tail(ntf.todo) \in Seq(Bridges)
  BY <1>1, ElemsHead
<1>3. CASE b # ntf.pbr /\ BrBusy(b)
  BY <1>1, <1>2, <1>3, BusyOut DEF of_fpga_region_get_bridges
<1>4. CASE ~(b # ntf.pbr /\ BrBusy(b))
  <2>1. /\ IF b = ntf.pbr THEN UNCHANGED <<br, rg>> ELSE of_fpga_bridge_get_to_list(b)
        /\ ntf' = [ntf EXCEPT !.todo = Tail(@)] /\ UNCHANGED mgrlock
    BY <1>4 DEF of_fpga_region_get_bridges
  <2> HIDE DEF b
  <2>2. ntf' \in NtfType /\ ntf'.pc = "bridges" /\ ntf'.r = ntf.r /\ ntf'.rm = ntf.rm
    BY <1>1, <1>2, <2>1 DEF NtfType
  <2>3. CASE b = ntf.pbr
    BY <1>1, <2>1, <2>2, <2>3, TakesBridge
  <2>4. CASE b # ntf.pbr
    BY <1>1, <1>2, <1>4, <2>1, <2>2, <2>4, TakesBridge
  <2> QED BY <2>3, <2>4
<1> QED BY <1>3, <1>4

-----------------------------------------------------------------------------
\* One bridge of the region is set as was asked for.
LEMMA SetsBridge ==
  ASSUME RegIInv, NEW r \in Regions, ntf.r = r, ntf.todo # <<>>, NEW on \in BOOLEAN,
         NEW o \in fpga_bridge_set(Head(ntf.todo), on), o.ok,
         ntf.pc = IF on THEN "enable" ELSE "disable",
         br' = [br EXCEPT ![Head(ntf.todo)] = o.b], remap' = o.remap,
         ntf' = [ntf EXCEPT !.todo = Tail(@)], UNCHANGED <<rg, mgrlock>>
  PROVE  RegIInv'
<1>0. /\ RegTyped /\ RegGone /\ RegLate /\ RegPhase /\ RegHeldListed /\ RegTodo /\ RegAppliedUp /\ HpsShadow
      /\ NoRegion \notin Regions
  BY RegionAssumption DEF RegIInv
<1>1. ntf \in NtfType /\ ntf.todo \in Seq(Bridges) /\ br \in [Bridges -> BrType]
  BY <1>0 DEF RegTyped, NtfType
<1>2. PICK b \in Bridges : b = Head(ntf.todo)
  BY <1>1, ElemsHead
<1>3. /\ o.b \in BrType /\ o.remap \in RemapType /\ o.b.reg = br[b].reg /\ o.b.lock = br[b].lock
      /\ o.b.probing = br[b].probing /\ o.b.late = (br[b].late /\ ~br[b].reg)
      /\ br[b].reg => o.b.hw = BrState(on)
  BY <1>0, <1>2, BridgeSetIs
<1>4. /\ br' \in [Bridges -> BrType] /\ \A c \in Bridges : c # b => br'[c] = br[c]
      /\ br'[b] = o.b
  BY <1>1, <1>2, <1>3
<1>5. /\ ntf' \in NtfType /\ ntf'.pc = ntf.pc /\ ntf'.r = r /\ ntf'.rm = ntf.rm
      /\ Elems(ntf.todo) = {b} \cup Elems(ntf'.todo)
  <2>1. Tail(ntf.todo) \in Seq(Bridges) /\ Elems(ntf.todo) = {b} \cup Elems(Tail(ntf.todo))
    BY <1>1, <1>2, ElemsHead
  <2> QED BY <1>1, <2>1 DEF NtfType
<1>6. RegTyped' /\ RegGone' /\ RegLate' /\ RegPhase'
  BY <1>0, <1>3, <1>4, <1>5 DEF RegTyped, RegGone, RegLate, RegPhase
<1>7. \A q \in Regions : BrHeld(q)' = BrHeld(q)
  BY HeldIs, HeldIsNext
<1>8. RegHeldListed'
  BY <1>0, <1>3, <1>4, <1>5, <1>7 DEF RegHeldListed
<1>9. HpsShadow'
  <2>1. o \in fpga_bridge_set(b, on) /\ br'[b].set = o.b.set
    BY <1>2, <1>4
  <2> QED BY <1>0, <1>4, <2>1, SetsHps
<1>10. BrHeld(r) = {c \in Bridges : br[c].lock = r} /\ b \in BrHeld(r)
  BY <1>0, <1>5 DEF RegHeldListed, RegTodo
<1>11. RegTodo' /\ RegLoadIsolated'
  <2>1. BrHeld(ntf.r)' = BrHeld(r)
    BY <1>5, <1>7
  <2>2. RegLoadIsolated'
    BY <1>5 DEF RegLoadIsolated
  <2>3. ASSUME ~ntf.rm, NEW c \in BrHeld(r), c \notin Elems(ntf'.todo) PROVE br'[c].hw = BrState(on) \/ br'[c].late
    <3>1. CASE c = b
      <4>1. ~br[b].reg => br[b].late
        BY <1>0, <1>10 DEF RegLate
      <4> QED BY <1>3, <1>4, <3>1, <4>1
    <3>2. CASE c # b
      <4>1. c \notin Elems(ntf.todo) /\ c \in Bridges /\ br'[c] = br[c]
        BY <1>4, <1>5, <1>10, <2>3, <3>2
      <4> QED BY <1>0, <2>3, <4>1 DEF RegTodo, BrState
    <3> QED BY <3>1, <3>2
  <2>4. on => ~ntf.rm
    BY <1>0 DEF RegPhase
  <2>5. Elems(ntf'.todo) \subseteq BrHeld(r)
    BY <1>0, <1>5 DEF RegTodo
  <2>6. RegTodo'
    BY <1>5, <2>1, <2>3, <2>4, <2>5 DEF RegTodo, BrState
  <2> QED BY <2>2, <2>6
<1>12. RegAppliedUp'
  <2> SUFFICES ASSUME NEW q \in Regions, q # r, rg[q].info, NEW c \in BrHeld(q) PROVE br'[c].hw = "on" \/ br'[c].late
    BY <1>5, <1>7 DEF RegAppliedUp
  <2>1. c \in Bridges /\ br[c].lock = q /\ (br[c].hw = "on" \/ br[c].late)
    BY <1>0 DEF RegAppliedUp, RegHeldListed
  <2>2. c # b
    BY <1>10, <2>1
  <2> QED BY <1>4, <2>1, <2>2
<1> QED BY <1>6, <1>8, <1>9, <1>11, <1>12 DEF RegIInv

LEMMA SetsBridges ==
  ASSUME RegIInv, fpga_bridges_disable \/ fpga_bridges_enable
  PROVE  RegIInv'
<1>0. RegTyped /\ RegPhase /\ RegTodo /\ RegHeldListed /\ NoRegion \notin Regions
  BY RegionAssumption DEF RegIInv
<1>1. /\ ntf \in NtfType /\ ntf.todo \in Seq(Bridges) /\ ntf.todo # <<>> /\ br \in [Bridges -> BrType]
      /\ rg \in [Regions -> RgType] /\ mgrlock \in Regions \cup {NoRegion}
  BY <1>0 DEF RegTyped, NtfType, fpga_bridges_disable, fpga_bridges_enable
<1>2. PICK r \in Regions : r = ntf.r
  BY <1>0, <1>1 DEF RegPhase, NtfType, fpga_bridges_disable, fpga_bridges_enable
<1>3. PICK b \in Bridges : b = Head(ntf.todo)
  BY <1>1, ElemsHead
<1>4. CASE fpga_bridges_disable
  <2>1. PICK o \in fpga_bridge_set(b, FALSE) :
          /\ remap' = o.remap
          /\ IF o.ok \/ ntf.rm
             THEN /\ br' = [br EXCEPT ![b] = o.b]
                  /\ ntf' = [ntf EXCEPT !.todo = IF o.ok THEN Tail(@) ELSE <<>>] /\ UNCHANGED <<rg, mgrlock>>
             ELSE err_put_br
    BY <1>3, <1>4 DEF fpga_bridges_disable
  <2>2. o.ok \in BOOLEAN /\ (~o.ok => o.b = br[b] /\ o.remap = remap)
    BY <1>0, BridgeSetIs
  <2>3. ntf.pc = "disable"
    BY <1>4 DEF fpga_bridges_disable
  <2>4. CASE o.ok
    <3>1. ntf' = [ntf EXCEPT !.todo = Tail(@)]
      BY <2>1, <2>4
    <3> QED BY <1>1, <1>2, <1>3, <2>1, <2>3, <2>4, <3>1, SetsBridge
  <2>5. CASE ~o.ok /\ ntf.rm
    <3>1. br' = br /\ remap' = remap /\ rg' = rg /\ mgrlock' = mgrlock /\ ntf' = [ntf EXCEPT !.todo = <<>>]
      BY <1>1, <2>1, <2>2, <2>5
    <3>2. /\ ntf' \in NtfType /\ ntf'.pc = ntf.pc /\ ntf'.r = ntf.r /\ ntf'.rm /\ Elems(ntf'.todo) = {}
      BY <1>1, <2>5, <3>1, ElemsEmpty, EmptySeq DEF NtfType
    <3>3. RegPhase' /\ RegTodo' /\ RegLoadIsolated'
      BY <1>0, <2>3, <2>5, <3>1, <3>2 DEF RegPhase, RegTodo, RegLoadIsolated
    <3> QED BY <1>1, <3>1, <3>2, <3>3, RegMoves
  <2>6. CASE ~o.ok /\ ~ntf.rm
    BY <1>2, <2>1, <2>2, <2>6, ErrPut
  <2> QED BY <2>2, <2>4, <2>5, <2>6
<1>5. CASE fpga_bridges_enable
  <2>1. PICK o \in fpga_bridge_set(b, TRUE) :
          /\ remap' = o.remap
          /\ IF o.ok THEN /\ br' = [br EXCEPT ![b] = o.b]
                          /\ ntf' = [ntf EXCEPT !.todo = Tail(@)] /\ UNCHANGED <<rg, mgrlock>>
             ELSE err_put_br
    BY <1>3, <1>5 DEF fpga_bridges_enable
  <2>2. o.ok \in BOOLEAN /\ (~o.ok => o.remap = remap)
    BY <1>0, BridgeSetIs
  <2>3. ntf.pc = "enable"
    BY <1>5 DEF fpga_bridges_enable
  <2>4. CASE o.ok
    BY <1>1, <1>2, <1>3, <2>1, <2>3, <2>4, SetsBridge
  <2>5. CASE ~o.ok
    BY <1>2, <2>1, <2>2, <2>5, ErrPut
  <2> QED BY <2>2, <2>4, <2>5
<1> QED BY <1>4, <1>5

LEMMA Programs ==
  ASSUME RegIInv,
         \/ got_bridges \/ fpga_mgr_load_region \/ fpga_mgr_load_returns \/ fpga_region_program_fpga \/ bridge_oops
  PROVE  RegIInv'
<1>0. RegTyped /\ RegPhase /\ RegTodo /\ RegHeldListed /\ RegLoadIsolated /\ NoRegion \notin Regions
  BY RegionAssumption DEF RegIInv
<1>1. /\ ntf \in NtfType /\ ntf.todo \in Seq(Bridges) /\ br \in [Bridges -> BrType]
      /\ rg \in [Regions -> RgType] /\ mgrlock \in Regions \cup {NoRegion}
      /\ ntf.ov \in OvType
  BY <1>0 DEF RegTyped, NtfType
<1>2. PICK r \in Regions : r = ntf.r
  BY <1>0, <1>1 DEF RegPhase, NtfType, got_bridges, fpga_mgr_load_region, fpga_mgr_load_returns,
                    fpga_region_program_fpga, bridge_oops
<1>3. rg[r].list \in Seq(Bridges) /\ rg[r].stack \in Seq(OvType) /\ BrHeld(r) = Elems(rg[r].list)
  BY <1>1, HeldIs DEF RgType
<1>4. ASSUME NEW pc \in {"disable", "enable"}, ntf' = [ntf EXCEPT !.pc = pc, !.todo = rg[r].list],
             ntf.pc \in {"bridges", "load"}, UNCHANGED <<rg, br, remap, mgrlock>>
      PROVE  RegIInv'
  <2>1. ntf' \in NtfType /\ ntf'.pc = pc /\ ntf'.r = r /\ ntf'.rm = ntf.rm /\ ntf'.todo = rg[r].list
    BY <1>1, <1>2, <1>3, <1>4 DEF NtfType
  <2>2. BrHeld(ntf.r)' = BrHeld(r)
    BY <1>4, <2>1, HeldIs, HeldIsNext
  <2>3. RegPhase' /\ RegTodo' /\ RegLoadIsolated'
    BY <1>0, <1>2, <1>3, <1>4, <2>1, <2>2 DEF RegPhase, RegTodo, RegLoadIsolated
  <2> QED BY <1>1, <1>2, <1>4, <2>1, <2>3, RegMoves
<1>5. CASE got_bridges
  BY <1>2, <1>4, <1>5 DEF got_bridges
<1>6. CASE fpga_mgr_load_region
  <2>1. ntf.pc = "disable" /\ ntf.todo = <<>> /\ ~ntf.rm /\ ntf' = [ntf EXCEPT !.pc = "load"]
        /\ UNCHANGED <<rg, br, remap, mgrlock>>
    BY <1>6 DEF fpga_mgr_load_region
  <2>2. ntf' \in NtfType /\ ntf'.pc = "load" /\ ntf'.r = r /\ ntf'.rm = ntf.rm
    BY <1>1, <1>2, <2>1 DEF NtfType
  <2>3. BrHeld(ntf.r)' = BrHeld(r) /\ Elems(ntf.todo) = {}
    BY <2>1, <2>2, HeldIs, HeldIsNext, ElemsEmpty
  <2>4. RegPhase' /\ RegTodo' /\ RegLoadIsolated'
    BY <1>0, <1>2, <2>1, <2>2, <2>3 DEF RegPhase, RegTodo, RegLoadIsolated
  <2> QED BY <1>1, <1>2, <2>1, <2>2, <2>4, RegMoves
<1>7. CASE fpga_mgr_load_returns
  <2>1. CASE ntf' = [ntf EXCEPT !.pc = "enable", !.todo = rg[ntf.r].list] /\ UNCHANGED <<rg, br, mgrlock>>
    BY <1>2, <1>4, <1>7, <2>1 DEF fpga_mgr_load_returns
  <2>2. CASE err_put_br
    BY <1>2, <1>7, <2>2, ErrPut DEF fpga_mgr_load_returns
  <2> QED BY <1>7, <2>1, <2>2 DEF fpga_mgr_load_returns
<1>8. CASE fpga_region_program_fpga
  <2>1. /\ ntf.pc = "enable" /\ ntf.todo = <<>> /\ mgrlock' = NoRegion /\ ntf' = NtfIdle
        /\ UNCHANGED <<br, remap>>
        /\ rg' = [rg EXCEPT ![r].stack = Append(@, ntf.ov)]
    BY <1>2, <1>8 DEF fpga_region_program_fpga
  <2>2. Append(rg[r].stack, ntf.ov) \in Seq(OvType)
    BY <1>1, <1>3, AppendProperties
  <2>3. /\ rg' \in [Regions -> RgType]
        /\ \A q \in Regions : rg'[q].reg = rg[q].reg /\ rg'[q].list = rg[q].list /\ rg'[q].info = rg[q].info
    BY <1>1, <2>1, <2>2 DEF RgType
  <2>4. ntf' \in NtfType /\ ntf'.pc = "idle" /\ ntf'.r = NoRegion /\ ~ntf'.rm
    BY <2>1, EmptySeq DEF NtfType, NtfIdle, NoOverlay, OvType
  <2>5. RegPhase' /\ RegTodo' /\ RegLoadIsolated'
    BY <2>1, <2>4 DEF RegPhase, RegTodo, RegLoadIsolated
  <2>6. rg[r].info /\ \A b \in BrHeld(r) : br[b].hw = "on" \/ br[b].late
    BY <1>0, <1>2, <2>1, ElemsEmpty DEF RegTodo, RegPhase
  <2> QED BY <1>2, <2>1, <2>3, <2>4, <2>5, <2>6, RegMoves
<1>9. CASE bridge_oops
  <2>1. /\ ntf.pc \in {"bridges", "disable", "load", "enable"} /\ ntf' = [ntf EXCEPT !.pc = "oops"]
        /\ UNCHANGED <<rg, br, remap, mgrlock>>
    BY <1>9 DEF bridge_oops
  <2>2. ntf' \in NtfType /\ ntf'.pc = "oops" /\ ntf'.r = r /\ ntf'.rm = ntf.rm
    BY <1>1, <1>2, <2>1 DEF NtfType
  <2>3. RegPhase' /\ RegTodo' /\ RegLoadIsolated'
    BY <1>0, <1>2, <2>1, <2>2 DEF RegPhase, RegTodo, RegLoadIsolated
  <2> QED BY <1>1, <1>2, <2>1, <2>2, <2>3, RegMoves
<1> QED BY <1>5, <1>6, <1>7, <1>8, <1>9

LEMMA Removes ==
  ASSUME RegIInv, remove_put \/ \E r \in Regions : of_fpga_region_notify_post_remove(r)
  PROVE  RegIInv'
<1>0. RegTyped /\ RegPhase /\ RegTodo /\ RegHeldListed /\ RegLoadIsolated /\ NoRegion \notin Regions
  BY RegionAssumption DEF RegIInv
<1>1. /\ ntf \in NtfType /\ br \in [Bridges -> BrType]
      /\ rg \in [Regions -> RgType] /\ mgrlock \in Regions \cup {NoRegion}
  BY <1>0 DEF RegTyped, NtfType
<1>2. CASE remove_put
  <2>1. PICK r \in Regions : r = ntf.r
    BY <1>0, <1>1, <1>2 DEF RegPhase, NtfType, remove_put
  <2>2. err_put_br /\ remap' = remap
    BY <1>0, <1>2 DEF remove_put, err_put_br, RegPhase
  <2> QED BY <2>1, <2>2, ErrPut
<1>3. ASSUME NEW r \in Regions, of_fpga_region_notify_post_remove(r) PROVE RegIInv'
  <2>1. ntf.pc = "idle" /\ ntf.r = NoRegion /\ ~ntf.rm /\ mgrlock = NoRegion /\ UNCHANGED <<br, remap, mgrlock>>
    BY <1>0, <1>3 DEF of_fpga_region_notify_post_remove, RegPhase
  <2>2. rg[r].stack \in Seq(OvType) /\ rg[r].list \in Seq(Bridges)
    BY <1>1 DEF RgType
  <2> DEFINE st == SubSeq(rg[r].stack, 1, Len(rg[r].stack) - 1)
  <2>3. st \in Seq(OvType)
    <3>1. rg[r].stack # <<>>
      BY <1>3 DEF of_fpga_region_notify_post_remove
    <3>2. PICK n \in Nat \ {0} : n = Len(rg[r].stack)
      BY <2>2, <3>1, EmptySeq
    <3>3. 1 \in 1..(n + 1) /\ n - 1 \in (1 - 1)..n
      BY <3>2
    <3> QED BY <2>2, <3>2, <3>3, SubSeqProperties
  <2>4. rg' = [rg EXCEPT ![r].stack = st]
    BY <1>3 DEF of_fpga_region_notify_post_remove
  <2> HIDE DEF st
  <2>5. /\ rg' \in [Regions -> RgType]
        /\ \A q \in Regions : rg'[q].reg = rg[q].reg /\ rg'[q].list = rg[q].list /\ rg'[q].info = rg[q].info
    BY <1>1, <2>3, <2>4 DEF RgType
  <2>6. CASE rg[r].reg /\ ntf' = [NtfIdle EXCEPT !.pc = "disable", !.r = r, !.rm = TRUE, !.todo = rg[r].list]
    <3>1. ntf' \in NtfType /\ ntf'.pc = "disable" /\ ntf'.r = r /\ ntf'.rm /\ ntf'.todo = rg[r].list
      BY <2>2, <2>6, EmptySeq DEF NtfType, NtfIdle, NoOverlay, OvType
    <3>2. BrHeld(ntf.r)' = Elems(rg[r].list)
      BY <2>5, <3>1, HeldIsNext
    <3>3. RegPhase' /\ RegTodo' /\ RegLoadIsolated'
      BY <1>0, <2>1, <2>5, <2>6, <3>1, <3>2 DEF RegPhase, RegTodo, RegLoadIsolated
    <3> QED BY <1>0, <1>1, <2>1, <2>5, <3>1, <3>3, RegMoves
  <2>7. CASE ntf' = ntf
    <3>1. RegPhase' /\ RegTodo' /\ RegLoadIsolated'
      BY <1>0, <2>1, <2>7 DEF RegPhase, RegTodo, RegLoadIsolated
    <3> QED BY <1>1, <2>1, <2>5, <2>7, <3>1, RegMoves
  <2> QED BY <1>3, <2>6, <2>7 DEF of_fpga_region_notify_post_remove
<1> QED BY <1>2, <1>3

LEMMA RegNextIInv == RegIInv /\ [RegNext]_reg_vars => RegIInv'
<1>1. CASE RegIInv /\ RegNext
  BY <1>1, BridgesComeAndGo, SetsLate, RegionsComeAndGo, Removes, PreApplies, GetsRegion, GetsParent, GetsBridges,
     SetsBridges, Programs DEF RegNext
<1>2. CASE RegIInv /\ UNCHANGED reg_vars
  BY <1>2 DEF reg_vars, RegIInv, RegTyped, RegGone, RegLate, RegPhase, RegHeldListed, RegTodo, RegLoadIsolated,
              RegAppliedUp, HpsShadow, BrHeld
<1> QED BY <1>1, <1>2

\* For any regions, bridges of any kind and overlays, and drivers that come and go at
\* any time: the bridges a region holds are those in its list; but for one that its own
\* probe set or left without a driver since the region took it (alt_fpga_bridge_probe of
\* altera-fpga2sdram.c), they are off while the region is loaded and on while its overlay
\* is applied; every way out gives back the manager and the bridges; and what the L3
\* masters see of the bridges is what was set last.
THEOREM RegionsAreIsolated == RegSpec => []RegionIsolation
<1>1. RegInit => RegIInv
  <2> SUFFICES ASSUME RegInit PROVE RegIInv
    OBVIOUS
  <2>1. /\ \A r \in Regions : rg[r] = [reg |-> FALSE, info |-> FALSE, list |-> <<>>, stack |-> <<>>]
        /\ \A b \in Bridges : br[b] = [reg |-> FALSE, lock |-> NoRegion, info |-> NoRegion, hw |-> "on", set |-> "none",
                                      probing |-> FALSE, late |-> FALSE]
        /\ ntf.pc = "idle" /\ ntf.r = NoRegion /\ ~ntf.rm /\ mgrlock = NoRegion
    BY DEF RegInit, NtfIdle
  <2>2. RegTyped
    <3>1. ntf \in NtfType
      BY EmptySeq DEF RegInit, NtfType, NtfIdle, NoOverlay, OvType
    <3>2. rg \in [Regions -> RgType] /\ br \in [Bridges -> BrType]
      BY <2>1, EmptySeq DEF RegInit, RgType, BrType, Hw
    <3>3. remap \in RemapType
      BY DEF RegInit, RemapType
    <3> QED BY <2>1, <3>1, <3>2, <3>3 DEF RegTyped
  <2>3. \A r \in Regions : BrHeld(r) = {}
    <3>1. \A r \in Regions : rg[r].list = <<>>
      BY DEF RegInit
    <3> QED BY <3>1, HeldIs, ElemsEmpty
  <2>4. RegLate
    BY <2>1, RegionAssumption DEF RegLate
  <2> QED BY <2>1, <2>2, <2>3, <2>4, RegionAssumption
          DEF RegIInv, RegGone, RegPhase, RegHeldListed, RegTodo, RegLoadIsolated, RegAppliedUp, HpsShadow
<1>2. RegIInv => RegionIsolation
  BY DEF RegIInv, RegionIsolation, RegManagerFree, RegPhase, HpsL3Exact, HpsShadow, HpsKinds
<1> QED BY <1>1, <1>2, RegNextIInv, PTL DEF RegSpec

-----------------------------------------------------------------------------
(* The DFL bus: what each feature and each feature device may look like.   *)

FeatType == [ioaddr : BOOLEAN, ops : BOOLEAN, ddev : BOOLEAN, drv : (DOMAIN DflDrvs) \cup {NoDrv}]
FdevPcs == {"off", "init", "add", "bound", "undev", "unops", "unpriv"}
FeatNos(d) == DOMAIN FFeats[d]
FdevType(d) == [pc : FdevPcs, at : Nat, priv : BOOLEAN, chr : BOOLEAN, f : [FeatNos(d) -> FeatType]]

\* The driver of the feature device has operations for the feature.
Served(d, k) == \E p \in DrvFeats(d) : p[2] = k

\* Mapped features are those the feature device's driver serves, the others may become
\* devices of the bus.
FeatOk(d, k, x) ==
  /\ x.ioaddr => FFeats[d][k].hdr \/ Served(d, k)
  /\ x.ops => x.ioaddr /\ Served(d, k)
  /\ x.ddev => ~x.ioaddr
  /\ x.drv # NoDrv => x.ddev

FdevOk(d, y) ==
  /\ y \in FdevType(d)
  /\ \A k \in FeatNos(d) : FeatOk(d, k, y.f[k])
  /\ y.priv <=> y.pc # "off"
  /\ y.chr => y.pc = "bound"
  /\ y.pc = "add" => y.at > 0
  /\ y.pc = "bound" => y.at > Len(FFeats[d])
  /\ y.pc \in {"add", "bound", "undev", "unops"} => \A k \in FeatNos(d) : Served(d, k) => y.f[k].ops
  /\ y.pc \in {"add", "bound"} => \A k \in FeatNos(d) : k < y.at => y.f[k].ioaddr \/ y.f[k].ddev
  /\ y.pc \in {"off", "init", "unops", "unpriv"} => \A k \in FeatNos(d) : ~y.f[k].ddev
  /\ y.pc \in {"off", "init", "unpriv"} => \A k \in FeatNos(d) : ~y.f[k].ops

\* Operations are listed while their module is there, and pinned only then.
PopsOk ==
  /\ pops \in [mod : {"gone", "coming", "live", "going"}, listed : BOOLEAN,
               users : SUBSET OpsUsers, stale : SUBSET OpsUsers]
  /\ pops.mod = "gone" => ~pops.listed
  /\ PortOpsAlive

BusIInv ==
  /\ fd = [d \in FDevs |-> fd[d]] /\ \A d \in FDevs : FdevOk(d, fd[d])
  /\ ddrvs \subseteq DOMAIN DflDrvs
  /\ PopsOk

-----------------------------------------------------------------------------
\* A step of one feature device.
LEMMA FdevStep ==
  ASSUME BusIInv, NEW d \in FDevs, NEW y, FdevOk(d, y), fd' = [fd EXCEPT ![d] = y], UNCHANGED <<ddrvs, pops>>
  PROVE  BusIInv'
<1>1. fd' = [e \in FDevs |-> IF e = d THEN y ELSE fd[e]]
  BY DEF BusIInv
<1>2. PopsOk'
  BY DEF BusIInv, PopsOk, PortOpsAlive
<1> QED BY <1>1, <1>2 DEF BusIInv

\* Undoing everything a bind did to the features.
LEMMA UinitIs ==
  ASSUME NEW d \in FDevs, NEW fs \in [FeatNos(d) -> FeatType]
  PROVE  /\ dfl_fpga_dev_feature_uinit(fs) \in [FeatNos(d) -> FeatType]
         /\ \A k \in FeatNos(d) : LET x == dfl_fpga_dev_feature_uinit(fs)[k] IN
              x.ioaddr = fs[k].ioaddr /\ ~x.ops /\ ~x.ddev /\ x.drv = NoDrv
<1>1. /\ dfl_devs_remove(fs) \in [FeatNos(d) -> FeatType]
      /\ \A k \in FeatNos(d) : LET x == dfl_devs_remove(fs)[k] IN x.ioaddr = fs[k].ioaddr /\ ~x.ddev /\ x.drv = NoDrv
  BY DEF dfl_devs_remove, FeatType
<1>2. ASSUME NEW gs \in [FeatNos(d) -> FeatType]
      PROVE  /\ feature_ops_uinit(gs) \in [FeatNos(d) -> FeatType]
             /\ \A k \in FeatNos(d) : LET x == feature_ops_uinit(gs)[k] IN
                  x.ioaddr = gs[k].ioaddr /\ ~x.ops /\ x.ddev = gs[k].ddev /\ x.drv = gs[k].drv
  BY DEF feature_ops_uinit, FeatType
<1> QED BY <1>1, <1>2 DEF dfl_fpga_dev_feature_uinit

\* A probe that fails leaves nothing but addresses of features that are served.
LEMMA FailsClean ==
  ASSUME BusIInv, NEW d \in FDevs, NEW fs \in [FeatNos(d) -> FeatType], fd[d].pc # "bound",
         \A k \in FeatNos(d) : fs[k].ioaddr => FFeats[d][k].hdr \/ Served(d, k),
         ProbeFails(d, dfl_fpga_dev_feature_uinit(fs)), UNCHANGED <<ddrvs, pops>>
  PROVE  BusIInv'
<1> DEFINE g == dfl_fpga_dev_feature_uinit(fs)
           y == [fd[d] EXCEPT !.pc = "off", !.priv = FALSE, !.f = g]
<1>1. FdevOk(d, fd[d])
  BY DEF BusIInv
<1>2. /\ g \in [FeatNos(d) -> FeatType]
      /\ \A k \in FeatNos(d) : g[k].ioaddr = fs[k].ioaddr /\ ~g[k].ops /\ ~g[k].ddev /\ g[k].drv = NoDrv
  BY UinitIs
<1>3. fd' = [fd EXCEPT ![d] = y]
  BY DEF ProbeFails
<1> HIDE DEF g
<1>4. /\ y \in FdevType(d) /\ y.pc = "off" /\ ~y.priv /\ y.chr = fd[d].chr /\ y.f = g
  BY <1>1, <1>2 DEF FdevOk, FdevType, FdevPcs
<1> HIDE DEF y
<1>5. FdevOk(d, y)
  BY <1>1, <1>2, <1>4 DEF FdevOk, FeatOk
<1> QED BY <1>3, <1>5, FdevStep

\* A step that leaves the features of the device as they are.
LEMMA FdevMoves ==
  ASSUME BusIInv, NEW d \in FDevs, NEW pc \in FdevPcs, NEW at \in Nat, NEW priv \in BOOLEAN, NEW chr \in BOOLEAN,
         fd' = [fd EXCEPT ![d] = [@ EXCEPT !.pc = pc, !.at = at, !.priv = priv, !.chr = chr]],
         UNCHANGED <<ddrvs, pops>>,
         priv <=> pc # "off", chr => pc = "bound", pc = "add" => at > 0, pc = "bound" => at > Len(FFeats[d]),
         pc \in {"add", "bound", "undev", "unops"} => fd[d].pc \in {"add", "bound", "undev", "unops"},
         pc \in {"add", "bound"} => fd[d].pc \in {"add", "bound"}
           /\ \A k \in FeatNos(d) : k < at => fd[d].f[k].ioaddr \/ fd[d].f[k].ddev,
         pc \in {"off", "init", "unops", "unpriv"} => fd[d].pc \in {"off", "init", "unops", "unpriv"},
         pc \in {"off", "init", "unpriv"} => fd[d].pc \in {"off", "init", "unpriv"}
  PROVE  BusIInv'
<1> DEFINE y == [fd[d] EXCEPT !.pc = pc, !.at = at, !.priv = priv, !.chr = chr]
<1>1. FdevOk(d, fd[d])
  BY DEF BusIInv
<1>2. y \in FdevType(d) /\ y.pc = pc /\ y.at = at /\ y.priv = priv /\ y.chr = chr /\ y.f = fd[d].f
  BY <1>1 DEF FdevOk, FdevType
<1>3. fd' = [fd EXCEPT ![d] = y]
  OBVIOUS
<1> HIDE DEF y
<1>4. FdevOk(d, y)
  BY <1>1, <1>2 DEF FdevOk
<1> QED BY <1>3, <1>4, FdevStep

LEMMA FdevInits ==
  ASSUME BusIInv, NEW d \in FDevs, fdev_init(d)
  PROVE  BusIInv'
<1>1. fd = [e \in FDevs |-> fd[e]] /\ FdevOk(d, fd[d]) /\ fd[d] \in FdevType(d)
  BY DEF BusIInv, FdevOk
<1>2. fd[d].pc = "off" /\ fd[d].at \in Nat /\ fd[d].chr \in BOOLEAN /\ ~fd[d].chr
  BY <1>1 DEF fdev_init, FdevOk, FdevType
<1>3. fd' = [fd EXCEPT ![d] = [@ EXCEPT !.pc = "init", !.at = fd[d].at, !.priv = TRUE, !.chr = fd[d].chr]]
  BY <1>1 DEF fdev_init, FdevType
<1> QED BY <1>2, <1>3, FdevMoves DEF FdevPcs, fdev_init

LEMMA FeaturesInit ==
  ASSUME BusIInv, NEW d \in FDevs, dfl_fpga_dev_feature_init(d)
  PROVE  BusIInv'
<1> DEFINE m == DrvFeats(d)
           done(S) == [k \in DOMAIN fd[d].f |->
                         IF \E p \in S : p[2] = k THEN [fd[d].f[k] EXCEPT !.ioaddr = TRUE, !.ops = TRUE] ELSE fd[d].f[k]]
<1>1. /\ fd = [e \in FDevs |-> fd[e]] /\ FdevOk(d, fd[d]) /\ fd[d] \in FdevType(d) /\ fd[d].pc = "init"
      /\ fd[d].f \in [FeatNos(d) -> FeatType] /\ UNCHANGED <<ddrvs, pops>>
  BY DEF BusIInv, FdevOk, FdevType, dfl_fpga_dev_feature_init
<1>2. \A p \in m : p[2] \in FeatNos(d) /\ Served(d, p[2])
  BY DEF DrvFeats, Served, FeatNos
<1>3. ASSUME NEW S \in SUBSET m
      PROVE  /\ done(S) \in [FeatNos(d) -> FeatType]
             /\ \A k \in FeatNos(d) :
                  /\ (\E p \in S : p[2] = k) => done(S)[k] = [fd[d].f[k] EXCEPT !.ioaddr = TRUE, !.ops = TRUE]
                  /\ ~(\E p \in S : p[2] = k) => done(S)[k] = fd[d].f[k]
  BY <1>1 DEF FeatType
<1>4. ASSUME NEW S \in SUBSET m, NEW k \in FeatNos(d)
      PROVE  LET x == done(S)[k] IN
             /\ x \in FeatType /\ FeatOk(d, k, x) /\ ~x.ddev /\ (x.ops <=> \E p \in S : p[2] = k)
  <2>1. fd[d].f[k] \in FeatType /\ FeatOk(d, k, fd[d].f[k]) /\ ~fd[d].f[k].ddev /\ ~fd[d].f[k].ops
    BY <1>1 DEF FdevOk
  <2>2. CASE \E p \in S : p[2] = k
    <3>1. Served(d, k)
      BY <2>2 DEF Served
    <3>2. done(S)[k] = [fd[d].f[k] EXCEPT !.ioaddr = TRUE, !.ops = TRUE]
      BY <1>3, <2>2
    <3> QED BY <2>1, <2>2, <3>1, <3>2 DEF FeatOk, FeatType
  <2>3. CASE ~\E p \in S : p[2] = k
    BY <1>3, <2>1, <2>3
  <2> QED BY <2>2, <2>3
<1>5. CASE fd' = [fd EXCEPT ![d].pc = "add", ![d].at = 1, ![d].f = done(m)]
  <2> DEFINE y == [fd[d] EXCEPT !.pc = "add", !.at = 1, !.f = done(m)]
  <2>1. fd' = [fd EXCEPT ![d] = y]
    BY <1>1, <1>5 DEF FdevType
  <2>2. m \in SUBSET m /\ done(m) \in [FeatNos(d) -> FeatType]
    BY <1>3
  <2>3. \A k \in FeatNos(d) : FeatOk(d, k, done(m)[k]) /\ (Served(d, k) => done(m)[k].ops)
    BY <1>4, <2>2 DEF Served
  <2> HIDE DEF done
  <2>4. /\ y \in FdevType(d) /\ y.pc = "add" /\ y.at = 1 /\ y.priv = fd[d].priv /\ y.chr = fd[d].chr
        /\ y.f = done(m)
    BY <1>1, <2>2 DEF FdevType, FdevPcs
  <2>5. \A k \in FeatNos(d) : ~(k < 1)
    <3>1. FFeats[d] \in Seq([id : Nat, guid : STRING, hdr : BOOLEAN])
      BY BusAssumption
    <3> QED BY <3>1 DEF FeatNos
  <2> HIDE DEF y
  <2>6. FdevOk(d, y)
    BY <1>1, <2>3, <2>4, <2>5 DEF FdevOk
  <2> QED BY <1>1, <2>1, <2>6, FdevStep
<1>6. ASSUME NEW p \in m, NEW mapped \in BOOLEAN,
             ProbeFails(d, dfl_fpga_dev_feature_uinit(
                             [done({q \in m : Before(q, p)}) EXCEPT ![p[2]].ioaddr = @ \/ mapped]))
      PROVE  BusIInv'
  <2> DEFINE S == {q \in m : Before(q, p)}
             fs == done(S)
             gs == [fs EXCEPT ![p[2]].ioaddr = @ \/ mapped]
  <2>1. S \in SUBSET m
    OBVIOUS
  <2> HIDE DEF S
  <2>2. fs \in [FeatNos(d) -> FeatType] /\ \A k \in FeatNos(d) : FeatOk(d, k, fs[k])
    BY <1>3, <1>4, <2>1
  <2> HIDE DEF fs
  <2>3. gs \in [FeatNos(d) -> FeatType] /\ \A k \in FeatNos(d) : gs[k].ioaddr => fs[k].ioaddr \/ k = p[2]
    BY <1>2, <2>2 DEF FeatType
  <2>4. \A k \in FeatNos(d) : gs[k].ioaddr => FFeats[d][k].hdr \/ Served(d, k)
    BY <1>2, <2>2, <2>3 DEF FeatOk
  <2>5. ProbeFails(d, dfl_fpga_dev_feature_uinit(gs))
    BY <1>6 DEF fs, S
  <2> HIDE DEF gs
  <2> QED BY <1>1, <2>3, <2>4, <2>5, FailsClean
<1> QED BY <1>5, <1>6 DEF dfl_fpga_dev_feature_init

LEMMA DevsAdd ==
  ASSUME BusIInv, NEW d \in FDevs, dfl_devs_add(d)
  PROVE  BusIInv'
<1>1. /\ fd = [e \in FDevs |-> fd[e]] /\ FdevOk(d, fd[d]) /\ fd[d] \in FdevType(d) /\ fd[d].pc = "add"
      /\ fd[d].f \in [FeatNos(d) -> FeatType] /\ UNCHANGED <<ddrvs, pops>> /\ fd[d].priv /\ ~fd[d].chr
      /\ ddrvs \subseteq DOMAIN DflDrvs /\ fd[d].at \in Nat /\ fd[d].at <= Len(FFeats[d])
  BY DEF BusIInv, FdevOk, FdevType, dfl_devs_add
<1>2. FFeats[d] \in Seq([id : Nat, guid : STRING, hdr : BOOLEAN])
  BY BusAssumption
<1>3. PICK k \in Nat : k = fd[d].at
  BY <1>1
<1>4. FeatNos(d) = 1..Len(FFeats[d]) /\ Len(FFeats[d]) \in Nat
  BY <1>2 DEF FeatNos
<1>5. \A j \in FeatNos(d) : j < k + 1 => j < k \/ j = k
  BY <1>4
<1>6. CASE fd[d].f[k].ioaddr /\ fd' = [fd EXCEPT ![d].at = @ + 1]
  <2>1. \A j \in FeatNos(d) : j < k + 1 => fd[d].f[j].ioaddr \/ fd[d].f[j].ddev
    BY <1>1, <1>3, <1>5, <1>6 DEF FdevOk
  <2>2. fd' = [fd EXCEPT ![d] = [@ EXCEPT !.pc = "add", !.at = k + 1, !.priv = fd[d].priv, !.chr = fd[d].chr]]
    BY <1>1, <1>3, <1>6 DEF FdevType
  <2>3. k + 1 \in Nat /\ k + 1 > 0 /\ "add" \in FdevPcs /\ fd[d].priv \in BOOLEAN /\ fd[d].chr \in BOOLEAN
    BY <1>1, <1>3 DEF FdevPcs, FdevType
  <2> QED BY <1>1, <2>1, <2>2, <2>3, FdevMoves
<1>7. ASSUME ~fd[d].f[k].ioaddr, k \in FeatNos(d), NEW x \in (DOMAIN DflDrvs) \cup {NoDrv},
             fd' = [fd EXCEPT ![d].at = @ + 1, ![d].f[k] = [@ EXCEPT !.ddev = TRUE, !.drv = x]]
      PROVE  BusIInv'
  <2> DEFINE z == [fd[d].f[k] EXCEPT !.ddev = TRUE, !.drv = x]
             g == [fd[d].f EXCEPT ![k] = z]
             y == [fd[d] EXCEPT !.at = k + 1, !.f = g]
  <2>1. fd' = [fd EXCEPT ![d] = y]
    BY <1>1, <1>3, <1>7 DEF FdevType
  <2>2. /\ z \in FeatType /\ z.ddev /\ z.ioaddr = fd[d].f[k].ioaddr /\ z.ops = fd[d].f[k].ops
        /\ fd[d].f[k] \in FeatType
    BY <1>1, <1>7 DEF FeatType
  <2> HIDE DEF z
  <2>3. g \in [FeatNos(d) -> FeatType] /\ g[k] = z /\ \A j \in FeatNos(d) : j # k => g[j] = fd[d].f[j]
    BY <1>1, <1>7, <2>2
  <2> HIDE DEF g
  <2>4. /\ y \in FdevType(d) /\ y.pc = "add" /\ y.at = k + 1 /\ y.priv = fd[d].priv /\ y.chr = fd[d].chr
        /\ y.f = g
    <3>1. k + 1 \in Nat
      BY <1>3
    <3> QED BY <1>1, <2>3, <3>1 DEF FdevType
  <2> HIDE DEF y
  <2>5. FeatOk(d, k, z)
    BY <1>1, <1>7, <2>2 DEF FdevOk, FeatOk
  <2>6. FdevOk(d, y)
    <3>1. \A j \in FeatNos(d) : FeatOk(d, j, g[j]) /\ (Served(d, j) => g[j].ops)
      BY <1>1, <2>2, <2>3, <2>5 DEF FdevOk
    <3>2. \A j \in FeatNos(d) : j < k + 1 => g[j].ioaddr \/ g[j].ddev
      BY <1>1, <1>3, <1>5, <2>2, <2>3 DEF FdevOk
    <3>3. k + 1 > 0
      BY <1>3
    <3> QED BY <1>1, <2>4, <3>1, <3>2, <3>3 DEF FdevOk
  <2> QED BY <1>1, <2>1, <2>6, FdevStep
<1>8. CASE ProbeFails(d, dfl_fpga_dev_feature_uinit(fd[d].f))
  <2>1. \A j \in FeatNos(d) : fd[d].f[j].ioaddr => FFeats[d][j].hdr \/ Served(d, j)
    BY <1>1 DEF FdevOk, FeatOk
  <2> QED BY <1>1, <1>8, <2>1, FailsClean
<1>9. k \in FeatNos(d)
  <2>1. k > 0 /\ k <= Len(FFeats[d])
    BY <1>1, <1>3 DEF FdevOk
  <2> QED BY <1>3, <1>4, <2>1
<1> QED BY <1>1, <1>3, <1>6, <1>7, <1>8, <1>9 DEF dfl_devs_add, dfl_bus_probe

LEMMA OpsRegister ==
  ASSUME BusIInv, NEW d \in FDevs, dfl_fpga_dev_ops_register(d)
  PROVE  BusIInv'
<1>1. /\ fd = [e \in FDevs |-> fd[e]] /\ FdevOk(d, fd[d]) /\ fd[d] \in FdevType(d) /\ fd[d].pc = "add"
      /\ fd[d].f \in [FeatNos(d) -> FeatType] /\ UNCHANGED <<ddrvs, pops>> /\ fd[d].priv
      /\ fd[d].at \in Nat /\ fd[d].at > Len(FFeats[d])
  BY DEF BusIInv, FdevOk, FdevType, dfl_fpga_dev_ops_register
<1>2. CASE fd' = [fd EXCEPT ![d].pc = "bound", ![d].chr = FKind[d] # "priv"]
  <2>1. PICK c \in BOOLEAN : c <=> FKind[d] # "priv"
    OBVIOUS
  <2> DEFINE y == [fd[d] EXCEPT !.pc = "bound", !.chr = c]
  <2>2. fd' = [fd EXCEPT ![d] = y]
    BY <1>1, <1>2, <2>1 DEF FdevType
  <2>3. /\ y \in FdevType(d) /\ y.pc = "bound" /\ y.at = fd[d].at /\ y.priv = fd[d].priv /\ y.f = fd[d].f
    BY <1>1, <2>1 DEF FdevType, FdevPcs
  <2> HIDE DEF y
  <2>4. FdevOk(d, y)
    BY <1>1, <2>3 DEF FdevOk
  <2> QED BY <1>1, <2>2, <2>4, FdevStep
<1>3. CASE ProbeFails(d, dfl_fpga_dev_feature_uinit(fd[d].f))
  <2>1. \A j \in FeatNos(d) : fd[d].f[j].ioaddr => FFeats[d][j].hdr \/ Served(d, j)
    BY <1>1 DEF FdevOk, FeatOk
  <2> QED BY <1>1, <1>3, <2>1, FailsClean
<1> QED BY <1>2, <1>3 DEF dfl_fpga_dev_ops_register

LEMMA FdevRemoves ==
  ASSUME BusIInv, NEW d \in FDevs,
         dfl_fpga_dev_ops_unregister(d) \/ fdev_devs_remove(d) \/ fdev_ops_uinit(d) \/ fdev_destroy(d)
  PROVE  BusIInv'
<1>1. /\ fd = [e \in FDevs |-> fd[e]] /\ FdevOk(d, fd[d]) /\ fd[d] \in FdevType(d)
      /\ fd[d].f \in [FeatNos(d) -> FeatType] /\ UNCHANGED <<ddrvs, pops>>
      /\ fd[d].at \in Nat /\ fd[d].chr \in BOOLEAN /\ fd[d].priv \in BOOLEAN
  BY DEF BusIInv, FdevOk, FdevType, dfl_fpga_dev_ops_unregister, fdev_devs_remove, fdev_ops_uinit, fdev_destroy
<1>2. CASE dfl_fpga_dev_ops_unregister(d)
  <2>1. fd[d].pc = "bound" /\ fd[d].priv
    BY <1>1, <1>2 DEF dfl_fpga_dev_ops_unregister, FdevOk
  <2>2. fd' = [fd EXCEPT ![d] = [@ EXCEPT !.pc = "undev", !.at = fd[d].at, !.priv = fd[d].priv, !.chr = FALSE]]
    BY <1>1, <1>2 DEF dfl_fpga_dev_ops_unregister, FdevType
  <2> QED BY <1>1, <2>1, <2>2, FdevMoves DEF FdevPcs
<1>3. CASE fdev_destroy(d)
  <2>1. fd[d].pc = "unpriv" /\ ~fd[d].chr
    BY <1>1, <1>3 DEF fdev_destroy, FdevOk
  <2>2. fd' = [fd EXCEPT ![d] = [@ EXCEPT !.pc = "off", !.at = fd[d].at, !.priv = FALSE, !.chr = fd[d].chr]]
    BY <1>1, <1>3 DEF fdev_destroy, FdevType
  <2> QED BY <1>1, <2>1, <2>2, FdevMoves DEF FdevPcs
<1>4. ASSUME NEW pc \in {"unops", "unpriv"}, NEW g \in [FeatNos(d) -> FeatType],
             fd' = [fd EXCEPT ![d].pc = pc, ![d].f = g], fd[d].pc \in {"undev", "unops"},
             \A k \in FeatNos(d) : g[k].ioaddr = fd[d].f[k].ioaddr /\ ~g[k].ddev /\ g[k].drv = NoDrv,
             \A k \in FeatNos(d) : g[k].ops = (fd[d].f[k].ops /\ pc = "unops")
      PROVE  BusIInv'
  <2> DEFINE y == [fd[d] EXCEPT !.pc = pc, !.f = g]
  <2>1. fd' = [fd EXCEPT ![d] = y]
    BY <1>1, <1>4 DEF FdevType
  <2>2. /\ y \in FdevType(d) /\ y.pc = pc /\ y.at = fd[d].at /\ y.priv = fd[d].priv /\ y.chr = fd[d].chr
        /\ y.f = g
    BY <1>1, <1>4 DEF FdevType, FdevPcs
  <2> HIDE DEF y
  <2>3. \A k \in FeatNos(d) : FeatOk(d, k, g[k])
    BY <1>1, <1>4 DEF FdevOk, FeatOk
  <2>4. FdevOk(d, y)
    BY <1>1, <1>4, <2>2, <2>3 DEF FdevOk
  <2> QED BY <1>1, <2>1, <2>4, FdevStep
<1>5. CASE fdev_devs_remove(d)
  <2> DEFINE g == dfl_devs_remove(fd[d].f)
  <2>1. /\ g \in [FeatNos(d) -> FeatType]
        /\ \A k \in FeatNos(d) : g[k].ioaddr = fd[d].f[k].ioaddr /\ ~g[k].ddev /\ g[k].drv = NoDrv
        /\ \A k \in FeatNos(d) : g[k].ops = fd[d].f[k].ops /\ fd[d].f[k].ops \in BOOLEAN
    BY <1>1 DEF dfl_devs_remove, FeatType
  <2>2. fd' = [fd EXCEPT ![d].pc = "unops", ![d].f = g] /\ fd[d].pc = "undev"
    BY <1>1, <1>5 DEF fdev_devs_remove
  <2> HIDE DEF g
  <2>3. \A k \in FeatNos(d) : g[k].ops = (fd[d].f[k].ops /\ "unops" = "unops")
    BY <2>1
  <2> QED BY <1>4, <2>1, <2>2, <2>3
<1>6. CASE fdev_ops_uinit(d)
  <2> DEFINE g == dfl_fpga_dev_feature_uinit(fd[d].f)
  <2>1. /\ g \in [FeatNos(d) -> FeatType]
        /\ \A k \in FeatNos(d) : g[k].ioaddr = fd[d].f[k].ioaddr /\ ~g[k].ops /\ ~g[k].ddev /\ g[k].drv = NoDrv
    BY <1>1, UinitIs
  <2>2. fd' = [fd EXCEPT ![d].pc = "unpriv", ![d].f = g] /\ fd[d].pc = "unops"
    BY <1>1, <1>6 DEF fdev_ops_uinit
  <2> HIDE DEF g
  <2>3. \A k \in FeatNos(d) : g[k].ops = (fd[d].f[k].ops /\ "unpriv" = "unops")
    BY <2>1 DEF FeatType
  <2> QED BY <1>4, <2>1, <2>2, <2>3
<1> QED BY <1>2, <1>3, <1>5, <1>6

\* Drivers of the bus come to devices that are there, and go.
LEMMA DriversStep ==
  ASSUME BusIInv, NEW g, \A d \in FDevs : g[d] \in [FeatNos(d) -> FeatType],
         \A d \in FDevs : \A k \in FeatNos(d) :
           /\ g[d][k].ioaddr = fd[d].f[k].ioaddr /\ g[d][k].ops = fd[d].f[k].ops
           /\ g[d][k].ddev = fd[d].f[k].ddev
           /\ g[d][k].drv # NoDrv => fd[d].f[k].ddev,
         fd' = [d \in FDevs |-> [fd[d] EXCEPT !.f = g[d]]], pops' = pops, ddrvs' \subseteq DOMAIN DflDrvs
  PROVE  BusIInv'
<1>1. ASSUME NEW d \in FDevs PROVE FdevOk(d, fd'[d])
  <2>1. FdevOk(d, fd[d]) /\ fd[d] \in FdevType(d)
    BY DEF BusIInv, FdevOk
  <2> DEFINE y == [fd[d] EXCEPT !.f = g[d]]
  <2>2. fd'[d] = y
    OBVIOUS
  <2>3. /\ y \in FdevType(d) /\ y.pc = fd[d].pc /\ y.at = fd[d].at /\ y.priv = fd[d].priv /\ y.chr = fd[d].chr
        /\ y.f = g[d]
    BY <2>1 DEF FdevType
  <2> HIDE DEF y
  <2>4. \A k \in FeatNos(d) : FeatOk(d, k, g[d][k])
    BY <2>1 DEF FdevOk, FeatOk
  <2>5. FdevOk(d, y)
    BY <2>1, <2>3, <2>4 DEF FdevOk
  <2> QED BY <2>2, <2>5
<1>2. PopsOk'
  BY DEF BusIInv, PopsOk, PortOpsAlive
<1>3. fd' = [d \in FDevs |-> fd'[d]]
  OBVIOUS
<1> QED BY <1>1, <1>2, <1>3 DEF BusIInv

LEMMA BusDrivers ==
  ASSUME BusIInv, NEW x \in DOMAIN DflDrvs, dfl_driver_register(x) \/ dfl_driver_unregister(x)
  PROVE  BusIInv'
<1>1. /\ \A d \in FDevs : FdevOk(d, fd[d]) /\ fd[d].f \in [FeatNos(d) -> FeatType]
      /\ pops' = pops /\ ddrvs' \subseteq DOMAIN DflDrvs
  BY DEF BusIInv, FdevOk, FdevType, dfl_driver_register, dfl_driver_unregister
<1>2. ASSUME NEW d \in FDevs, NEW k \in FeatNos(d), NEW y \in (DOMAIN DflDrvs) \cup {NoDrv}
      PROVE  LET z == [fd[d].f[k] EXCEPT !.drv = y] IN
             /\ z \in FeatType /\ fd[d].f[k] \in FeatType
             /\ z.ioaddr = fd[d].f[k].ioaddr /\ z.ops = fd[d].f[k].ops /\ z.ddev = fd[d].f[k].ddev /\ z.drv = y
  BY <1>1 DEF FeatType
<1>3. \A d \in FDevs : \A k \in FeatNos(d) : fd[d].f[k].drv # NoDrv => fd[d].f[k].ddev
  BY <1>1 DEF FdevOk, FeatOk
<1>4. CASE dfl_driver_register(x)
  <2> DEFINE free == UNION {{<<d, k>> : k \in {j \in DOMAIN FFeats[d] :
                       fd[d].f[j].ddev /\ fd[d].f[j].drv = NoDrv /\ dfl_bus_match(x, d, j)}} : d \in FDevs}
  <2>1. PICK got \in SUBSET free :
          fd' = [d \in FDevs |-> [fd[d] EXCEPT !.f =
                   [k \in DOMAIN @ |-> IF <<d, k>> \in got THEN [@[k] EXCEPT !.drv = x] ELSE @[k]]]]
    BY <1>4 DEF dfl_driver_register
  <2>2. \A d \in FDevs : \A k \in FeatNos(d) : <<d, k>> \in got => fd[d].f[k].ddev
    BY <2>1
  <2> HIDE DEF free
  <2> DEFINE g == [d \in FDevs |-> [k \in FeatNos(d) |->
                     IF <<d, k>> \in got THEN [fd[d].f[k] EXCEPT !.drv = x] ELSE fd[d].f[k]]]
  <2>3. \A d \in FDevs : g[d] \in [FeatNos(d) -> FeatType]
    BY <1>2
  <2>4. fd' = [d \in FDevs |-> [fd[d] EXCEPT !.f = g[d]]]
    <3>1. \A d \in FDevs : DOMAIN fd[d].f = FeatNos(d)
      BY <1>1
    <3> QED BY <2>1, <3>1
  <2>5. \A d \in FDevs : \A k \in FeatNos(d) :
          g[d][k] = IF <<d, k>> \in got THEN [fd[d].f[k] EXCEPT !.drv = x] ELSE fd[d].f[k]
    OBVIOUS
  <2> HIDE DEF g
  <2>6. \A d \in FDevs : \A k \in FeatNos(d) :
           /\ g[d][k].ioaddr = fd[d].f[k].ioaddr /\ g[d][k].ops = fd[d].f[k].ops
           /\ g[d][k].ddev = fd[d].f[k].ddev
           /\ g[d][k].drv # NoDrv => fd[d].f[k].ddev
    <3> SUFFICES ASSUME NEW d \in FDevs, NEW k \in FeatNos(d)
                 PROVE  /\ g[d][k].ioaddr = fd[d].f[k].ioaddr /\ g[d][k].ops = fd[d].f[k].ops
                        /\ g[d][k].ddev = fd[d].f[k].ddev /\ (g[d][k].drv # NoDrv => fd[d].f[k].ddev)
      OBVIOUS
    <3>1. CASE <<d, k>> \in got
      <4>1. g[d][k] = [fd[d].f[k] EXCEPT !.drv = x] /\ fd[d].f[k].ddev
        BY <2>2, <2>5, <3>1
      <4>2. fd[d].f[k] \in FeatType
        BY <1>1
      <4> QED BY <4>1, <4>2 DEF FeatType
    <3>2. CASE <<d, k>> \notin got
      <4>1. g[d][k] = fd[d].f[k]
        BY <2>5, <3>2
      <4> QED BY <1>3, <4>1
    <3> QED BY <3>1, <3>2
  <2> QED BY <1>1, <2>3, <2>4, <2>6, DriversStep
<1>5. CASE dfl_driver_unregister(x)
  <2> DEFINE g == [d \in FDevs |-> [k \in FeatNos(d) |->
                     IF fd[d].f[k].drv = x THEN [fd[d].f[k] EXCEPT !.drv = NoDrv] ELSE fd[d].f[k]]]
  <2>1. fd' = [d \in FDevs |-> [fd[d] EXCEPT !.f =
                   [k \in DOMAIN @ |-> IF @[k].drv = x THEN [@[k] EXCEPT !.drv = NoDrv] ELSE @[k]]]]
    BY <1>5 DEF dfl_driver_unregister
  <2>3. \A d \in FDevs : g[d] \in [FeatNos(d) -> FeatType]
    BY <1>2
  <2>4. \A d \in FDevs : \A k \in FeatNos(d) :
           /\ g[d][k].ioaddr = fd[d].f[k].ioaddr /\ g[d][k].ops = fd[d].f[k].ops
           /\ g[d][k].ddev = fd[d].f[k].ddev
           /\ g[d][k].drv # NoDrv => fd[d].f[k].ddev
    BY <1>2, <1>3
  <2>5. fd' = [d \in FDevs |-> [fd[d] EXCEPT !.f = g[d]]]
    <3>1. \A d \in FDevs : DOMAIN fd[d].f = FeatNos(d)
      BY <1>1
    <3> QED BY <2>1, <3>1
  <2> HIDE DEF g
  <2> QED BY <1>1, <2>3, <2>4, <2>5, DriversStep
<1> QED BY <1>4, <1>5

LEMMA PortOps ==
  ASSUME BusIInv,
         \/ \E u \in OpsUsers : dfl_fpga_port_ops_get(u) \/ dfl_fpga_port_ops_put(u)
         \/ afu_init \/ afu_init_registered \/ afu_exit \/ afu_exit_ops_del
  PROVE  BusIInv'
<1>1. UNCHANGED <<fd, ddrvs>> /\ PopsOk
  BY DEF BusIInv, dfl_fpga_port_ops_get, dfl_fpga_port_ops_put, afu_init, afu_init_registered, afu_exit,
         afu_exit_ops_del
<1>2. PopsOk'
  <2>1. ASSUME NEW u \in OpsUsers, dfl_fpga_port_ops_get(u) PROVE PopsOk'
    BY <1>1, <2>1 DEF PopsOk, PortOpsAlive, dfl_fpga_port_ops_get
  <2>2. ASSUME NEW u \in OpsUsers, dfl_fpga_port_ops_put(u) PROVE PopsOk'
    BY <1>1, <2>2 DEF PopsOk, PortOpsAlive, dfl_fpga_port_ops_put
  <2>3. CASE afu_init
    BY <1>1, <2>3 DEF PopsOk, PortOpsAlive, afu_init
  <2>4. CASE afu_init_registered
    BY <1>1, <2>4 DEF PopsOk, PortOpsAlive, afu_init_registered
  <2>5. CASE afu_exit
    BY <1>1, <2>5 DEF PopsOk, PortOpsAlive, afu_exit
  <2>6. CASE afu_exit_ops_del
    BY <1>1, <2>6 DEF PopsOk, PortOpsAlive, afu_exit_ops_del
  <2> QED BY <2>1, <2>2, <2>3, <2>4, <2>5, <2>6
<1> QED BY <1>1, <1>2 DEF BusIInv

LEMMA BusNextIInv == BusIInv /\ [BusNext]_bus_vars => BusIInv'
<1>1. CASE BusIInv /\ BusNext
  BY <1>1, FdevInits, FeaturesInit, DevsAdd, OpsRegister, FdevRemoves, BusDrivers, PortOps DEF BusNext
<1>2. CASE BusIInv /\ UNCHANGED bus_vars
  BY <1>2 DEF bus_vars, BusIInv, PopsOk, PortOpsAlive
<1> QED BY <1>1, <1>2

\* For any feature devices, features, tables of feature drivers and drivers of the bus,
\* which come and go at any time, whichever steps of a bind fail: a bound device has
\* every feature served by exactly one side, an unbound one has nothing left, drivers of
\* the bus work only on top of what they need, and the port operations in use are there.
THEOREM BusIsSound == BusSpec => []BusSound
<1>1. BusInit => BusIInv
  <2> SUFFICES ASSUME BusInit PROVE BusIInv
    OBVIOUS
  <2>1. PopsOk
    BY DEF BusInit, PopsOk, PortOpsAlive
  <2>2. ASSUME NEW d \in FDevs PROVE FdevOk(d, fd[d])
    <3> DEFINE g == [k \in DOMAIN FFeats[d] |-> [FeatOff EXCEPT !.ioaddr = FFeats[d][k].hdr]]
    <3>1. fd[d] = [pc |-> "off", at |-> 0, priv |-> FALSE, chr |-> FALSE, f |-> g]
      BY DEF BusInit
    <3>2. FFeats[d] \in Seq([id : Nat, guid : STRING, hdr : BOOLEAN])
      BY BusAssumption
    <3>3. \A k \in FeatNos(d) : FFeats[d][k].hdr \in BOOLEAN
      <4>1. \A k \in FeatNos(d) : FFeats[d][k] \in [id : Nat, guid : STRING, hdr : BOOLEAN]
        BY <3>2, ElementOfSeq, DOMAIN FFeats[d] = 1..Len(FFeats[d]) DEF FeatNos
      <4> QED BY <4>1
    <3>4. /\ g \in [FeatNos(d) -> FeatType]
          /\ \A k \in FeatNos(d) : g[k].ioaddr = FFeats[d][k].hdr /\ ~g[k].ops /\ ~g[k].ddev /\ g[k].drv = NoDrv
      BY <3>3 DEF FeatNos, FeatOff, FeatType
    <3> HIDE DEF g
    <3> QED BY <3>1, <3>4 DEF FdevOk, FeatOk, FdevType, FdevPcs
  <2>3. fd = [d \in FDevs |-> fd[d]] /\ ddrvs \subseteq DOMAIN DflDrvs
    BY DEF BusInit
  <2> QED BY <2>1, <2>2, <2>3 DEF BusIInv
<1>2. BusIInv => BusSound
  <2> SUFFICES ASSUME BusIInv PROVE BusSound
    OBVIOUS
  <2>1. \A d \in FDevs : FdevOk(d, fd[d])
    BY DEF BusIInv
  <2>2. DflServed
    <3> SUFFICES ASSUME NEW d \in FDevs, fd[d].pc = "bound", NEW k \in DOMAIN FFeats[d], ~FFeats[d][k].hdr
                 PROVE  fd[d].f[k].ops # fd[d].f[k].ddev
      BY DEF DflServed
    <3>1. /\ FdevOk(d, fd[d]) /\ k \in FeatNos(d) /\ fd[d].f[k] \in FeatType /\ FeatOk(d, k, fd[d].f[k])
          /\ fd[d].at \in Nat
      BY <2>1 DEF FdevOk, FdevType, FeatNos
    <3>2. FFeats[d] \in Seq([id : Nat, guid : STRING, hdr : BOOLEAN])
      BY BusAssumption
    <3>3. k < fd[d].at
      BY <3>1, <3>2 DEF FdevOk
    <3> QED BY <3>1, <3>3 DEF FdevOk, FeatOk, FeatType
  <2>3. DflUnwound
    BY <2>1 DEF DflUnwound, FdevOk, FeatOk, FeatNos
  <2>4. DflDriversOnTop
    <3> SUFFICES ASSUME NEW d \in FDevs, NEW k \in DOMAIN FFeats[d], fd[d].f[k].drv # NoDrv
                 PROVE  fd[d].priv /\ \A p \in DrvFeats(d) : fd[d].f[p[2]].ops
      BY DEF DflDriversOnTop
    <3>1. FdevOk(d, fd[d]) /\ k \in FeatNos(d) /\ fd[d].f[k].ddev /\ fd[d].pc \in FdevPcs
      BY <2>1 DEF FdevOk, FeatOk, FdevType, FeatNos
    <3>2. fd[d].pc \in {"add", "bound", "undev"}
      BY <3>1 DEF FdevOk, FdevPcs
    <3>3. \A p \in DrvFeats(d) : p[2] \in FeatNos(d) /\ Served(d, p[2])
      BY DEF DrvFeats, Served, FeatNos
    <3> QED BY <3>1, <3>2, <3>3 DEF FdevOk
  <2> QED BY <2>2, <2>3, <2>4 DEF BusSound, BusIInv, PopsOk
<1> QED BY <1>1, <1>2, BusNextIInv, PTL DEF BusSpec

-----------------------------------------------------------------------------
(* Enumeration of the device feature lists.                                *)

\* A set of numbers has a smallest.
LEMMA LeastNumber ==
  ASSUME NEW T \in SUBSET Nat, T # {}
  PROVE  \E n \in T : \A m \in T : n <= m
<1> DEFINE R == OpToRel(<, Nat)
<1>1. R = {ss \in Nat \X Nat : ss[1] < ss[2]}
  BY Zenon DEF OpToRel
<1>2. IsWellFoundedOn(R, Nat)
  BY NatLessThanWellFounded, Zenon
<1> HIDE DEF R
<1>3. PICK n \in T : \A m \in T : ~(<<m, n>> \in R)
  BY <1>2, WFMin
<1>4. \A m \in T : n <= m
  <2> TAKE m \in T
  <2>1. <<m, n>> \in Nat \X Nat /\ <<m, n>>[1] = m /\ <<m, n>>[2] = n
    OBVIOUS
  <2>2. ~(m < n)
    BY <1>1, <1>3, <2>1, Zenon
  <2> QED BY <2>2
<1> QED BY <1>4

ListT == [bar : Nat, len : Nat]
DevKinds == {"fme", "port", "priv"}
FeatT == [hdr : Nat, kind : {"fiu", "private", "afu"}, start : Int, size : Int, abs : BOOLEAN]
DevT == [type : DevKinds, bar : Nat, base : Nat, num : Nat, feats : Seq(FeatT)]
EnT ==
  [pc : {"none", "list", "walk", "window", "fiu", "commit", "end", "done"}, board : Boards \cup {NoBoard}, lists : Seq(ListT),
   bar : Nat, len : Nat, i : Nat, base : Nat, win : BOOLEAN, type : DevKinds \cup {NoDev}, feats : Seq(FeatT), num : Nat,
   after : {"list", "window"}]

\* The device of header k starts with header base.
Lead(h, base, k) == base \in 1..k /\ (base = 1 \/ h[base].type = "fiu") /\ \A j \in (base + 1)..k : h[j].type # "fiu"

\* A feature inside of its list, of a header of its device.
FeatIn(h, len, base, f) ==
  /\ f.start >= 0 /\ (f.start + f.size <= len \/ (f.kind = "afu" /\ f.start > len))
  /\ f.kind # "afu" =>
       /\ f.hdr \in 1..Len(h) /\ h[f.hdr].type = f.kind /\ Lead(h, base, f.hdr)
       /\ f.start = Ofst(h, f.hdr) /\ f.size = feature_size(h, f.hdr) /\ f.abs = (h[f.hdr].ver = 1)
FeatsIn(h, len, base, fs) == \A f \in Elems(fs) : FeatIn(h, len, base, f)
Has(fs, h, k) == \E f \in Elems(fs) : f.hdr = k /\ f.kind = h[k].type
Due(h, len, k) == Walked(h, len, k) /\ h[k].type \in {"fiu", "private"} /\ ~(h[k].ver = 1 /\ h[k].csr = "out")

\* The lists of the board of e, the headers of list n and of the one that is walked, and
\* how many were begun.
Lists(e) == find_dfls(e.board)
HdrsOf(e, n) == e.board.bars[Lists(e)[n].bar].hdrs
MemOf(e) == e.board.bars[e.bar].hdrs
Begun(e) == Len(Lists(e)) - Len(e.lists)
Walking == {"walk", "window", "fiu", "commit", "end"}

EnLists(e) ==
  /\ e.board \in Boards /\ Lists(e) # Bad /\ Len(e.lists) <= Len(Lists(e))
  /\ \A j \in 1..Len(e.lists) : e.lists[j] = Lists(e)[Begun(e) + j]
  /\ e.pc \in {"list", "window", "fiu"} => e.type = NoDev
  /\ e.pc = "done" => e.lists = <<>>

\* Where the walk is: at a header it reaches, with its window at the device it belongs to.
EnHere(e, m) ==
  /\ Begun(e) >= 1 /\ Lists(e)[Begun(e)] = [bar |-> e.bar, len |-> e.len]
  /\ e.i \in 1..Len(m) /\ Walked(m, e.len, e.i)
  /\ e.base \in 1..e.i /\ (e.base = 1 \/ m[e.base].type = "fiu")
  /\ e.pc = "walk" => \A j \in (e.base + 1)..(e.i - 1) : m[j].type # "fiu"
  /\ e.pc = "walk" /\ e.type = NoDev => e.base = 1 /\ \A j \in 1..(e.i - 1) : m[j].type \in {"interface", "other"}
  /\ e.pc = "window" \/ (e.pc = "commit" /\ e.after = "window") => m[e.i].type = "fiu"
  /\ e.pc = "fiu" => e.base = e.i /\ m[e.i].type = "fiu"
  /\ e.pc = "commit" => ~e.win /\ e.type # NoDev
  /\ (e.pc = "walk" /\ e.type # NoDev) \/ (e.pc = "commit" /\ e.after = "window") => e.base < e.i
  /\ e.pc = "walk" /\ e.type = "port" => m[e.base].type = "fiu" /\ m[e.base].id = "port"

\* Features belong to a list that was begun and to the device they are kept with.
EnDevs(e, ds) ==
  \A d \in 1..Len(ds) : \E n \in 1..Begun(e) :
    ds[d].bar = Lists(e)[n].bar /\ FeatsIn(HdrsOf(e, n), Lists(e)[n].len, ds[d].base, ds[d].feats)
EnPending(e, m) ==
  /\ e.type = NoDev => e.feats = <<>>
  /\ e.pc \in {"walk", "commit", "end"} => FeatsIn(m, e.len, e.base, e.feats)

\* A device is told by its list and its first header; devices come in order.
EnApart(ds) == \A c, d \in 1..Len(ds) : c # d => ds[c].bar # ds[d].bar \/ ds[c].base # ds[d].base
EnOrder(e, ds) ==
  \A d \in 1..Len(ds) : ds[d].bar = e.bar =>
    /\ e.pc \in {"walk", "fiu", "commit", "end"} => ds[d].base < e.base
    /\ e.pc = "window" => ds[d].base < e.i

\* What the walk passed is kept, by a device or by the one that is built.
InDevs(ds, bar, h, k) == \E d \in 1..Len(ds) : ds[d].bar = bar /\ Has(ds[d].feats, h, k)
Passed(e, k) == k < e.i \/ e.pc = "end" \/ (e.pc = "commit" /\ e.after = "list")
EnCovered(e, ds) ==
  \A n \in 1..Begun(e) : n < Begun(e) \/ e.pc \notin Walking =>
    \A k \in 1..Len(HdrsOf(e, n)) : Due(HdrsOf(e, n), Lists(e)[n].len, k) => InDevs(ds, Lists(e)[n].bar, HdrsOf(e, n), k)
EnKept(e, m, ds) ==
  \A k \in 1..Len(m) : Due(m, e.len, k) /\ Passed(e, k) => InDevs(ds, e.bar, m, k) \/ Has(e.feats, m, k)

EnInv(e, ds) ==
  /\ e \in EnT /\ ds \in Seq(DevT) /\ (e.pc = "none" => ds = <<>>)
  /\ e.pc # "none" => EnLists(e) /\ EnDevs(e, ds) /\ EnPending(e, MemOf(e)) /\ EnApart(ds) /\ EnOrder(e, ds) /\ EnCovered(e, ds)
  /\ e.pc \in Walking => EnHere(e, MemOf(e)) /\ EnKept(e, MemOf(e), ds)

EnIInv ==
  /\ EnInv(en, devs) /\ EnumFailedClean /\ EnumGoodAccepted
  /\ cdev \in [region : BOOLEAN, irqs : BOOLEAN, fme : BOOLEAN, refused : BOOLEAN]

-----------------------------------------------------------------------------
(* Offsets.                                                                *)

OfstTo(at, h, m) == at = [j \in 1..m |-> IF j = 1 THEN 0 ELSE at[j - 1] + h[j - 1].next]

\* The offsets of any number of headers can be computed.
LEMMA OfstExists ==
  ASSUME NEW h, NEW m \in Nat
  PROVE  \E at : OfstTo(at, h, m)
<1> DEFINE T == {n \in Nat : ~\E at : OfstTo(at, h, n)}
<1> SUFFICES ASSUME T # {} PROVE FALSE
  OBVIOUS
<1>1. PICK n \in T : \A k \in T : n <= k
  BY LeastNumber
<1>2. n \in Nat /\ (n = 0 \/ (n - 1 \in Nat /\ n - 1 \notin T))
  BY <1>1
<1>3. CASE n = 0
  <2>1. OfstTo(<<>>, h, 0)
    BY DEF OfstTo
  <2> QED BY <1>1, <1>3, <2>1
<1>4. CASE n - 1 \in Nat /\ n - 1 \notin T
  <2>1. PICK at : OfstTo(at, h, n - 1)
    BY <1>4
  <2> DEFINE bt == [j \in 1..n |-> IF j = 1 THEN 0 ELSE at[j - 1] + h[j - 1].next]
  <2>2. \A j \in 1..(n - 1) : at[j] = IF j = 1 THEN 0 ELSE at[j - 1] + h[j - 1].next
    BY <2>1 DEF OfstTo
  <2>3. \A j \in 1..(n - 1) : bt[j] = at[j]
    BY <1>2, <2>2
  <2>4. \A j \in 1..n : j # 1 => bt[j - 1] = at[j - 1]
    <3> SUFFICES ASSUME NEW j \in 1..n, j # 1 PROVE bt[j - 1] = at[j - 1]
      OBVIOUS
    <3>1. j - 1 \in 1..(n - 1)
      BY <1>2
    <3> HIDE DEF bt
    <3> QED BY <2>3, <3>1
  <2>5. \A j \in 1..n : bt[j] = IF j = 1 THEN 0 ELSE bt[j - 1] + h[j - 1].next
    BY <2>4
  <2>6. bt = [j \in 1..n |-> IF j = 1 THEN 0 ELSE bt[j - 1] + h[j - 1].next]
    BY <2>5
  <2>7. OfstTo(bt, h, n)
    BY <2>6, Zenon DEF OfstTo
  <2> QED BY <1>1, <2>7
<1> QED BY <1>2, <1>3, <1>4

\* Every header starts where the one before it says.
LEMMA OfstIs ==
  ASSUME NEW h \in Seq(Headers)
  PROVE  /\ Ofst(h, 1) = 0
         /\ \A k \in 1..Len(h) : Ofst(h, k + 1) = Ofst(h, k) + h[k].next
         /\ \A k \in 1..(Len(h) + 1) : Ofst(h, k) \in Nat
<1>0. PICK m \in Nat : m = Len(h) + 1 /\ m >= 1
  OBVIOUS
<1>1. PICK at : at = CHOOSE x : OfstTo(x, h, m)
  OBVIOUS
<1>2. OfstTo(at, h, m)
  BY <1>1, OfstExists, Zenon
<1>3. \A k : Ofst(h, k) = at[k]
  BY <1>0, <1>1 DEF Ofst, OfstTo
<1>4. \A j \in 1..m : at[j] = IF j = 1 THEN 0 ELSE at[j - 1] + h[j - 1].next
  BY <1>2 DEF OfstTo
<1>5. at[1] = 0
  BY <1>0, <1>4
<1>6. \A k \in 1..Len(h) : at[k + 1] = at[k] + h[k].next
  BY <1>0, <1>4
<1>7. \A k \in 1..Len(h) : h[k].next \in Nat
  <2>1. \A k \in 1..Len(h) : h[k] \in Headers
    OBVIOUS
  <2> QED BY <2>1 DEF Headers
<1>8. \A k \in 1..m : at[k] \in Nat
  <2> DEFINE T == {k \in 1..m : at[k] \notin Nat}
  <2> SUFFICES ASSUME T # {} PROVE FALSE
    OBVIOUS
  <2>1. T \in SUBSET Nat
    BY <1>0
  <2>2. PICK n \in T : \A k \in T : n <= k
    BY <2>1, LeastNumber
  <2>3. n \in 1..m /\ at[n] \notin Nat
    BY <2>2
  <2>4. n # 1
    BY <1>5, <2>3
  <2>5. n - 1 \in 1..Len(h) /\ n - 1 \in 1..m /\ n - 1 \notin T /\ (n - 1) + 1 = n
    BY <1>0, <2>2, <2>3, <2>4
  <2>6. at[n - 1] \in Nat /\ h[n - 1].next \in Nat /\ at[n] = at[n - 1] + h[n - 1].next
    BY <1>6, <1>7, <2>5
  <2> QED BY <2>3, <2>6
<1> QED BY <1>0, <1>3, <1>5, <1>6, <1>8

-----------------------------------------------------------------------------
(* The lists of a board.                                                   *)

\* Lists in different memories of the board.
ListsApart(b, l) ==
  /\ l \in Seq(ListT)
  /\ \A n \in 1..Len(l) : l[n].bar \in 0..(NumBars - 1)
  /\ \A m, n \in 1..Len(l) : m # n => l[m].bar # l[n].bar

PortStep(b, l, p) ==
  IF l = Bad \/ ~p.imp \/ p.skip THEN l
  ELSE IF p.bar >= NumBars THEN Bad
  ELSE IF p.bar \in {l[j].bar : j \in DOMAIN l} \/ p.off >= BarLen(b, p.bar) THEN l
  ELSE Append(l, [bar |-> p.bar, len |-> BarLen(b, p.bar) - p.off])
PortsTo(f, b, m) ==
  f = [k \in 0..m |-> IF k = 0 THEN <<[bar |-> 0, len |-> BarLen(b, 0)]>> ELSE PortStep(b, f[k - 1], b.entries[k])]

\* The ports of an FME can be gone through.
LEMMA PortsExist ==
  ASSUME NEW b, NEW m \in Nat
  PROVE  \E f : PortsTo(f, b, m)
<1> DEFINE T == {n \in Nat : ~\E f : PortsTo(f, b, n)}
<1> SUFFICES ASSUME T # {} PROVE FALSE
  OBVIOUS
<1>1. PICK n \in T : \A k \in T : n <= k
  BY LeastNumber
<1>2. n \in Nat /\ (n = 0 \/ (n - 1 \in Nat /\ n - 1 \notin T))
  BY <1>1
<1> DEFINE one == <<[bar |-> 0, len |-> BarLen(b, 0)]>>
<1> HIDE DEF one
<1>3. CASE n = 0
  <2> DEFINE f == [k \in 0..0 |-> one]
  <2>1. f = [k \in 0..0 |-> IF k = 0 THEN one ELSE PortStep(b, f[k - 1], b.entries[k])]
    <3>1. \A k \in 0..0 : k = 0
      OBVIOUS
    <3> QED BY <3>1
  <2>2. PortsTo(f, b, 0)
    BY <2>1 DEF PortsTo, one
  <2> QED BY <1>1, <1>3, <2>2
<1>4. CASE n - 1 \in Nat /\ n - 1 \notin T
  <2>1. PICK f : PortsTo(f, b, n - 1)
    BY <1>4
  <2> DEFINE g == [k \in 0..n |-> IF k = 0 THEN one ELSE PortStep(b, f[k - 1], b.entries[k])]
  <2>2. \A k \in 0..(n - 1) : f[k] = IF k = 0 THEN one ELSE PortStep(b, f[k - 1], b.entries[k])
    BY <2>1 DEF PortsTo, one
  <2>3. \A k \in 0..(n - 1) : g[k] = f[k]
    <3> TAKE k \in 0..(n - 1)
    <3>1. k \in 0..n
      BY <1>2
    <3>2. g[k] = IF k = 0 THEN one ELSE PortStep(b, f[k - 1], b.entries[k])
      BY <3>1
    <3> HIDE DEF g
    <3> QED BY <2>2, <3>2, Zenon
  <2>4. \A k \in 0..n : k # 0 => g[k - 1] = f[k - 1]
    <3> SUFFICES ASSUME NEW k \in 0..n, k # 0 PROVE g[k - 1] = f[k - 1]
      OBVIOUS
    <3>1. k - 1 \in 0..(n - 1)
      BY <1>2
    <3> HIDE DEF g
    <3> QED BY <2>3, <3>1
  <2>5. \A k \in 0..n : g[k] = IF k = 0 THEN one ELSE PortStep(b, g[k - 1], b.entries[k])
    BY <2>4
  <2>6. g = [k \in 0..n |-> IF k = 0 THEN one ELSE PortStep(b, g[k - 1], b.entries[k])]
    BY <2>5
  <2>7. PortsTo(g, b, n)
    BY <2>6, Zenon DEF PortsTo, one
  <2> QED BY <1>1, <2>7
<1> QED BY <1>2, <1>3, <1>4

IsBoard(b) ==
  /\ DOMAIN b = {"how", "entries", "bars"} /\ b.how \in {"vsec", "default", "of"} /\ b.entries \in Seq(Entries(b.how))
  /\ b.bars \in [0..(NumBars - 1) -> [len : Nat, hdrs : Seq(Headers)]]

\* One port more keeps the lists apart.
LEMMA PortStepApart ==
  ASSUME NEW b, IsBoard(b), b.how = "default", NEW l, l = Bad \/ ListsApart(b, l),
         NEW p \in [imp : BOOLEAN, skip : BOOLEAN, bar : Nat, off : Nat]
  PROVE  PortStep(b, l, p) = Bad \/ ListsApart(b, PortStep(b, l, p))
<1>1. CASE PortStep(b, l, p) = l \/ PortStep(b, l, p) = Bad
  BY <1>1
<1>2. CASE ~(PortStep(b, l, p) = l \/ PortStep(b, l, p) = Bad)
  <2>1. l # Bad /\ ~(p.bar >= NumBars) /\ ~(p.bar \in {l[j].bar : j \in DOMAIN l}) /\ ~(p.off >= BarLen(b, p.bar))
        /\ PortStep(b, l, p) = Append(l, [bar |-> p.bar, len |-> BarLen(b, p.bar) - p.off])
    BY <1>2 DEF PortStep
  <2>2. NumBars \in Nat /\ p.bar \in Nat /\ p.off \in Nat
    BY EnumAssumption
  <2>3. p.bar \in 0..(NumBars - 1)
    BY <2>1, <2>2
  <2>4. BarLen(b, p.bar) \in Nat
    BY <2>3 DEF BarLen, IsBoard
  <2>5. PICK e \in ListT : e = [bar |-> p.bar, len |-> BarLen(b, p.bar) - p.off]
    BY <2>1, <2>2, <2>4 DEF ListT
  <2>6. l \in Seq(ListT) /\ DOMAIN l = 1..Len(l) /\ Len(l) \in Nat
        /\ (\A n \in 1..Len(l) : l[n].bar \in 0..(NumBars - 1)) /\ (\A m, n \in 1..Len(l) : m # n => l[m].bar # l[n].bar)
    BY <2>1 DEF ListsApart
  <2>7. PICK a : a = Append(l, e)
    OBVIOUS
  <2>8. a \in Seq(ListT) /\ Len(a) = Len(l) + 1 /\ (\A n \in 1..Len(l) : a[n] = l[n]) /\ a[Len(l) + 1] = e
    BY <2>6, <2>7
  <2>9. e.bar = p.bar /\ \A n \in 1..Len(l) : l[n].bar # p.bar
    BY <2>1, <2>5, <2>6
  <2>10. \A n \in 1..(Len(l) + 1) : n \in 1..Len(l) \/ n = Len(l) + 1
    BY <2>6
  <2>11. \A n \in 1..Len(a) : a[n].bar \in 0..(NumBars - 1)
    BY <2>3, <2>6, <2>8, <2>9, <2>10
  <2>12. \A m, n \in 1..Len(a) : m # n => a[m].bar # a[n].bar
    BY <2>6, <2>8, <2>9, <2>10
  <2> QED BY <2>1, <2>5, <2>7, <2>8, <2>11, <2>12 DEF ListsApart
<1> QED BY <1>1, <1>2

\* The lists an FME's ports name are in different memories.
LEMMA PortListsApart ==
  ASSUME NEW b, IsBoard(b), b.how = "default"
  PROVE  PortLists(b) = Bad \/ ListsApart(b, PortLists(b))
<1>0. b.entries \in Seq([imp : BOOLEAN, skip : BOOLEAN, bar : Nat, off : Nat])
  BY DEF IsBoard, Entries
<1>1. PICK m \in Nat : m = Len(b.entries)
  BY <1>0
<1>2. PICK f : f = CHOOSE x : PortsTo(x, b, m)
  OBVIOUS
<1>3. PortsTo(f, b, m)
  BY <1>2, PortsExist, Zenon
<1>4. PortLists(b) = f[m]
  BY <1>1, <1>2 DEF PortLists, PortsTo, PortStep
<1> DEFINE T == {k \in 0..m : ~(f[k] = Bad \/ ListsApart(b, f[k]))}
<1>5. SUFFICES ASSUME T # {} PROVE FALSE
  BY <1>4
<1>6. PICK n \in T : \A k \in T : n <= k
  <2>1. T \in SUBSET Nat
    OBVIOUS
  <2> QED BY <1>5, <2>1, LeastNumber
<1>7. n \in 0..m /\ ~(f[n] = Bad \/ ListsApart(b, f[n]))
  BY <1>6
<1>8. \A k \in 0..m : f[k] = IF k = 0 THEN <<[bar |-> 0, len |-> BarLen(b, 0)]>> ELSE PortStep(b, f[k - 1], b.entries[k])
  BY <1>3 DEF PortsTo
<1>9. CASE n = 0
  <2>1. f[0] = <<[bar |-> 0, len |-> BarLen(b, 0)]>>
    BY <1>7, <1>8, <1>9
  <2>2. BarLen(b, 0) \in Nat /\ 0 \in 0..(NumBars - 1)
    BY EnumAssumption DEF BarLen, IsBoard
  <2>3. ListsApart(b, f[0])
    BY <2>1, <2>2 DEF ListsApart, ListT
  <2> QED BY <1>7, <1>9, <2>3
<1>10. CASE n # 0
  <2>1. n - 1 \in 0..m /\ n \in 1..m /\ n - 1 \notin T
    BY <1>6, <1>7, <1>10
  <2>2. f[n - 1] = Bad \/ ListsApart(b, f[n - 1])
    BY <2>1
  <2>3. b.entries[n] \in [imp : BOOLEAN, skip : BOOLEAN, bar : Nat, off : Nat]
    <3>1. n \in 1..Len(b.entries)
      BY <1>1, <2>1
    <3> QED BY <1>0, <3>1, ElementOfSeq, Zenon
  <2>4. f[n] = PortStep(b, f[n - 1], b.entries[n])
    BY <1>7, <1>8, <1>10
  <2> QED BY <1>7, <2>2, <2>3, <2>4, PortStepApart
<1> QED BY <1>9, <1>10

\* The lists found on a board are apart, and all of their headers are known.
LEMMA ListsOk ==
  ASSUME NEW b \in Boards, find_dfls(b) # Bad
  PROVE  /\ IsBoard(b) /\ ListsApart(b, find_dfls(b))
         /\ \A n \in 1..Len(find_dfls(b)) :
              /\ b.bars[find_dfls(b)[n].bar].hdrs \in Seq(Headers)
              /\ Complete(b.bars[find_dfls(b)[n].bar].hdrs, find_dfls(b)[n].len)
<1>1. IsBoard(b) /\ \A l \in {find_dfls(b)[n] : n \in DOMAIN find_dfls(b)} : Complete(b.bars[l.bar].hdrs, l.len)
  BY EnumAssumption DEF IsBoard
<1>2. BarLen(b, 0) \in Nat /\ 0 \in 0..(NumBars - 1) /\ NumBars \in Nat
  BY <1>1, EnumAssumption DEF BarLen, IsBoard
<1>3. ListsApart(b, <<[bar |-> 0, len |-> BarLen(b, 0)]>>) /\ ListsApart(b, <<>>)
  BY <1>2 DEF ListsApart, ListT
<1>4. ASSUME b.how = "vsec" PROVE ListsApart(b, find_dfls(b))
  <2>1. b.entries \in Seq([bar : Nat, off : Nat])
    BY <1>1, <1>4 DEF IsBoard, Entries
  <2>2. PICK e : e = b.entries
    OBVIOUS
  <2>3. e \in Seq([bar : Nat, off : Nat]) /\ DOMAIN e = 1..Len(e) /\ Len(e) \in Nat
    BY <2>1, <2>2
  <2>4. find_dfls(b) = find_dfls_by_vsec(b)
    BY <1>4 DEF find_dfls
  <2>5. /\ \A k \in DOMAIN e : ~(e[k].bar >= NumBars \/ e[k].off >= BarLen(b, e[k].bar))
        /\ \A k, m \in DOMAIN e : k # m => e[k].bar # e[m].bar
        /\ find_dfls(b) = [k \in DOMAIN e |-> [bar |-> e[k].bar, len |-> BarLen(b, e[k].bar) - e[k].off]]
    BY <2>2, <2>4 DEF find_dfls_by_vsec
  <2>6. \A k \in 1..Len(e) : e[k].bar \in 0..(NumBars - 1) /\ BarLen(b, e[k].bar) - e[k].off \in Nat
    <3> TAKE k \in 1..Len(e)
    <3>0. e[k] \in [bar : Nat, off : Nat]
      BY <2>3, ElementOfSeq, Zenon
    <3>1. e[k] \in [bar : Nat, off : Nat] /\ ~(e[k].bar >= NumBars) /\ ~(e[k].off >= BarLen(b, e[k].bar))
      BY <2>3, <2>5, <3>0, Zenon
    <3>2. e[k].bar \in 0..(NumBars - 1) /\ e[k].off \in Nat
      BY <1>2, <3>1
    <3>3. BarLen(b, e[k].bar) \in Nat
      BY <1>1, <3>2 DEF BarLen, IsBoard
    <3> QED BY <3>1, <3>2, <3>3
  <2>7. PICK l : l = find_dfls(b)
    OBVIOUS
  <2>8. l = [k \in 1..Len(e) |-> [bar |-> e[k].bar, len |-> BarLen(b, e[k].bar) - e[k].off]]
    BY <2>3, <2>5, <2>7
  <2>9. \A k \in 1..Len(e) : l[k] \in ListT /\ l[k].bar = e[k].bar
    BY <1>2, <2>6, <2>8 DEF ListT
  <2>10. l \in Seq(ListT) /\ Len(l) = Len(e)
    BY <2>3, <2>8, <2>9
  <2> QED BY <1>1, <2>3, <2>5, <2>6, <2>7, <2>9, <2>10 DEF ListsApart
<1>5. ASSUME b.how = "default" PROVE ListsApart(b, find_dfls(b))
  <2>1. find_dfls(b) = find_dfls_by_default(b)
    BY <1>5 DEF find_dfls
  <2>2. find_dfls(b) \in {PortLists(b), <<[bar |-> 0, len |-> BarLen(b, 0)]>>, <<>>, Bad}
    BY <2>1 DEF find_dfls_by_default
  <2> QED BY <1>1, <1>3, <1>5, <2>2, PortListsApart
<1>6. ASSUME b.how = "of" PROVE ListsApart(b, find_dfls(b))
  <2>1. find_dfls(b) = <<[bar |-> 0, len |-> BarLen(b, 0)]>>
    BY <1>6 DEF find_dfls, dfl_platform_process_dfl_node
  <2> QED BY <1>1, <1>3, <2>1
<1>7. ListsApart(b, find_dfls(b))
  BY <1>1, <1>4, <1>5, <1>6 DEF IsBoard
<1>8. PICK l : l = find_dfls(b)
  OBVIOUS
<1>9. l \in Seq(ListT) /\ DOMAIN l = 1..Len(l) /\ \A n \in 1..Len(l) : l[n].bar \in 0..(NumBars - 1)
  BY <1>7, <1>8 DEF ListsApart
<1>10. \A n \in 1..Len(l) : b.bars[l[n].bar].hdrs \in Seq(Headers) /\ Complete(b.bars[l[n].bar].hdrs, l[n].len)
  BY <1>1, <1>8, <1>9 DEF IsBoard
<1> QED BY <1>1, <1>7, <1>8, <1>10

-----------------------------------------------------------------------------
(* Sizes, devices and elements.                                            *)

\* The size of a feature is a difference of offsets.
LEMMA SizeIs ==
  ASSUME NEW h \in Seq(Headers), NEW k \in 1..Len(h)
  PROVE  feature_size(h, k) \in Int
<1>1. CASE h[k].next = 0
  BY <1>1, EnumAssumption DEF feature_size
<1>2. CASE h[k].next # 0
  <2>1. PICK ends : ends = {j \in (k + 1)..(Len(h) + 1) : h[j - 1].eol \/ j > Len(h) \/ (h[j].type # "interface")}
    OBVIOUS
  <2>2. Len(h) \in Nat /\ k \in Nat /\ k + 1 <= Len(h) + 1
    OBVIOUS
  <2>3. Len(h) + 1 \in ends
    BY <2>1, <2>2
  <2>4. ends \in SUBSET Nat /\ ends \subseteq 1..(Len(h) + 1)
    BY <2>1, <2>2
  <2>5. PICK last : last = CHOOSE j \in ends : \A m \in ends : j <= m
    OBVIOUS
  <2>6. last \in ends
    BY <2>3, <2>4, <2>5, LeastNumber, Zenon
  <2>7. Ofst(h, last) \in Nat /\ Ofst(h, k) \in Nat
    BY <2>2, <2>4, <2>6, OfstIs
  <2>8. feature_size(h, k) = IF last > Len(h) /\ last > k + 1 /\ ~h[last - 1].eol THEN 0 ELSE Ofst(h, last) - Ofst(h, k)
    BY <1>2, <2>1, <2>5 DEF feature_size
  <2> QED BY <2>7, <2>8
<1> QED BY <1>1, <1>2

\* The last FIU is the one the device starts with.
LEMMA LeadIsLast ==
  ASSUME NEW h, NEW k \in Nat, NEW base, Lead(h, base, k)
  PROVE  LastFiu(h, k) = base
<1>1. base \in 1..k /\ base \in Nat /\ (base = 1 \/ h[base].type = "fiu") /\ \A j \in (base + 1)..k : h[j].type # "fiu"
  BY DEF Lead
<1>2. PICK fius : fius = {j \in 1..k : h[j].type = "fiu"}
  OBVIOUS
<1>3. \A j \in fius : j \in Nat /\ j <= base
  <2> TAKE j \in fius
  <2>1. j \in 1..k /\ h[j].type = "fiu"
    BY <1>2
  <2>2. j \notin (base + 1)..k
    BY <1>1, <2>1
  <2> QED BY <1>1, <2>1, <2>2
<1>4. CASE fius = {}
  BY <1>1, <1>2, <1>4 DEF LastFiu
<1>5. CASE fius # {}
  <2>1. base \in fius
    <3>1. PICK j \in fius : TRUE
      BY <1>5
    <3>2. j \in 1..k /\ h[j].type = "fiu" /\ j <= base
      BY <1>2, <1>3, <3>1
    <3>3. base = 1 => j = base
      BY <3>2
    <3> QED BY <1>1, <1>2, <3>2, <3>3
  <2>2. \A j \in fius : (\A m \in fius : m <= j) => j = base
    BY <1>1, <1>3, <2>1
  <2>3. (CHOOSE j \in fius : \A m \in fius : m <= j) = base
    BY <1>3, <2>1, <2>2
  <2> QED BY <1>2, <1>5, <2>3 DEF LastFiu
<1> QED BY <1>4, <1>5

\* Of two sequences one after the other.
LEMMA ElemsConcat ==
  ASSUME NEW S, NEW s \in Seq(S), NEW t \in Seq(S)
  PROVE  s \o t \in Seq(S) /\ Elems(s \o t) = Elems(s) \cup Elems(t)
<1>1. PICK c : c = s \o t
  OBVIOUS
<1>2. PICK a \in Nat, b \in Nat : a = Len(s) /\ b = Len(t)
  OBVIOUS
<1>3. c \in Seq(S) /\ Len(c) = a + b /\ \A i \in 1..(a + b) : c[i] = IF i <= a THEN s[i] ELSE t[i - a]
  BY <1>1, <1>2
<1>4. DOMAIN c = 1..(a + b) /\ DOMAIN s = 1..a /\ DOMAIN t = 1..b
  BY <1>2, <1>3
<1>5. ASSUME NEW x \in Elems(c) PROVE x \in Elems(s) \cup Elems(t)
  <2>1. PICK i \in 1..(a + b) : x = c[i]
    BY <1>4 DEF Elems
  <2>2. i <= a => i \in 1..a
    BY <2>1
  <2>3. ~(i <= a) => i - a \in 1..b
    BY <2>1
  <2> QED BY <1>3, <1>4, <2>1, <2>2, <2>3 DEF Elems
<1>6. ASSUME NEW x \in Elems(s) PROVE x \in Elems(c)
  <2>1. PICK i \in 1..a : x = s[i]
    BY <1>4 DEF Elems
  <2>2. i \in 1..(a + b) /\ i <= a
    BY <2>1
  <2>3. c[i] = s[i]
    BY <1>3, <2>2
  <2> QED BY <1>4, <2>1, <2>2, <2>3 DEF Elems
<1>7. ASSUME NEW x \in Elems(t) PROVE x \in Elems(c)
  <2>1. PICK i \in 1..b : x = t[i]
    BY <1>4 DEF Elems
  <2>2. a + i \in 1..(a + b) /\ ~(a + i <= a) /\ (a + i) - a = i
    BY <2>1
  <2>3. c[a + i] = t[i]
    BY <1>3, <2>2
  <2> QED BY <1>4, <2>1, <2>2, <2>3 DEF Elems
<1> QED BY <1>1, <1>3, <1>5, <1>6, <1>7

\* A sequence of one.
LEMMA ElemsOne == ASSUME NEW S, NEW x \in S PROVE <<x>> \in Seq(S) /\ Elems(<<x>>) = {x}
  BY DEF Elems

-----------------------------------------------------------------------------
(* The steps of the walk.                                                  *)

\* The memory that is walked.
LEMMA EnKnown ==
  ASSUME NEW e, NEW ds, EnInv(e, ds), e.pc \in Walking
  PROVE  /\ e.board \in Boards /\ MemOf(e) \in Seq(Headers) /\ Complete(MemOf(e), e.len) /\ HdrsOf(e, Begun(e)) = MemOf(e)
         /\ Begun(e) \in 1..Len(Lists(e)) /\ Lists(e)[Begun(e)].bar = e.bar /\ Lists(e)[Begun(e)].len = e.len
         /\ e.pc # "none" /\ e.len \in Nat /\ e.i \in Nat /\ e.base \in Nat /\ e.i \in 1..Len(MemOf(e)) /\ e.base \in 1..e.i
         /\ e.base \in 1..Len(MemOf(e)) /\ e.bar \in Nat
<1>1. e \in EnT /\ EnLists(e) /\ EnHere(e, MemOf(e)) /\ e.pc # "none"
  BY DEF EnInv, Walking
<1>2. e.board \in Boards /\ Lists(e) # Bad /\ Lists(e)[Begun(e)] = [bar |-> e.bar, len |-> e.len] /\ Begun(e) >= 1
  BY <1>1 DEF EnLists, EnHere
<1>3. Lists(e) \in Seq(ListT)
  BY <1>2, ListsOk DEF Lists, ListsApart
<1>4. e.lists \in Seq(ListT) /\ e.len \in Nat /\ e.i \in Nat /\ e.base \in Nat /\ e.bar \in Nat
  BY <1>1 DEF EnT
<1>5. Begun(e) \in 1..Len(Lists(e))
  <2>1. Len(Lists(e)) \in Nat /\ Len(e.lists) \in Nat
    BY <1>3, <1>4
  <2> QED BY <1>2, <2>1 DEF Begun
<1>6. Lists(e)[Begun(e)].bar = e.bar /\ Lists(e)[Begun(e)].len = e.len
  BY <1>2
<1>7. HdrsOf(e, Begun(e)) = MemOf(e)
  BY <1>6 DEF HdrsOf, MemOf
<1>8. HdrsOf(e, Begun(e)) \in Seq(Headers) /\ Complete(HdrsOf(e, Begun(e)), e.len)
  BY <1>2, <1>5, <1>6, ListsOk DEF Lists, HdrsOf
<1>9. e.i \in 1..Len(MemOf(e)) /\ e.base \in 1..e.i
  BY <1>1 DEF EnHere
<1>10. Len(MemOf(e)) \in Nat
  BY <1>7, <1>8
<1>11. e.base \in 1..Len(MemOf(e))
  BY <1>4, <1>9, <1>10
<1> QED BY <1>1, <1>2, <1>4, <1>5, <1>6, <1>7, <1>8, <1>9, <1>11

\* Everything about the devices is kept by a step that stays in the list.
SameList(e, x) ==
  /\ x.board = e.board /\ x.lists = e.lists /\ x.bar = e.bar /\ x.len = e.len
  /\ e.pc \in Walking /\ x.pc \in Walking /\ (x.pc \in {"window", "fiu"} => x.type = NoDev)
StaysOk(e, x, ds) ==
  /\ MemOf(x) = MemOf(e) /\ EnDevs(x, ds) /\ EnApart(ds) /\ EnCovered(x, ds) /\ EnLists(x)
  /\ Begun(x) >= 1 /\ Lists(x)[Begun(x)] = [bar |-> x.bar, len |-> x.len]
LEMMA EnStays ==
  ASSUME NEW e, NEW ds, EnInv(e, ds), NEW x, SameList(e, x)
  PROVE  StaysOk(e, x, ds)
<1>0. /\ x.board = e.board /\ x.lists = e.lists /\ x.bar = e.bar /\ x.len = e.len
      /\ e.pc \in Walking /\ x.pc \in Walking /\ (x.pc \in {"window", "fiu"} => x.type = NoDev)
  BY DEF SameList
<1>1. Lists(x) = Lists(e) /\ Begun(x) = Begun(e) /\ MemOf(x) = MemOf(e) /\ \A n : HdrsOf(x, n) = HdrsOf(e, n)
  BY <1>0 DEF Lists, Begun, MemOf, HdrsOf
<1>2. EnLists(e) /\ EnDevs(e, ds) /\ EnApart(ds) /\ EnCovered(e, ds) /\ EnHere(e, MemOf(e))
  BY <1>0 DEF EnInv, Walking
<1>3. EnDevs(x, ds)
  BY <1>1, <1>2 DEF EnDevs
<1>4. EnCovered(x, ds)
  BY <1>0, <1>1, <1>2 DEF EnCovered
<1>5. EnLists(x)
  BY <1>0, <1>1, <1>2 DEF EnLists, Walking
<1> QED BY <1>0, <1>1, <1>2, <1>3, <1>4, <1>5 DEF EnHere, StaysOk

\* A header was dealt with: what the device that is built has then, ...
TakenOk(e, ds, m, fs, ty) ==
  /\ e.pc \in {"walk", "fiu"} /\ fs \in Seq(FeatT) /\ ty \in DevKinds \cup {NoDev}
  /\ FeatsIn(m, e.len, e.base, fs) /\ (ty = NoDev => fs = <<>>)
  /\ \A k \in 1..Len(m) : k <= e.i /\ Due(m, e.len, k) => InDevs(ds, e.bar, m, k) \/ Has(fs, m, k)
  /\ \A j \in (e.base + 1)..e.i : m[j].type # "fiu"
  /\ ty = NoDev => e.base = 1 /\ \A j \in 1..e.i : m[j].type \in {"interface", "other"}
  /\ ty = "port" => m[e.base].type = "fiu" /\ m[e.base].id = "port"
\* ... and the walk goes on behind the header, or the list ends.
Onward(e, m, y) ==
  IF m[e.i].eol \/ m[e.i].next = 0 \/ Ofst(m, e.i) + m[e.i].next >= e.len
  THEN [y EXCEPT !.pc = "end"] ELSE [y EXCEPT !.i = e.i + 1, !.pc = "walk"]
LEMMA Advances ==
  ASSUME NEW e, NEW ds, EnInv(e, ds), NEW m, m = MemOf(e), NEW fs, NEW ty, NEW nm \in Nat, TakenOk(e, ds, m, fs, ty),
         NEW y, y = [e EXCEPT !.type = ty, !.feats = fs, !.num = nm]
  PROVE  EnInv(Onward(e, m, y), ds)
<1> DEFINE x == Onward(e, m, y)
<1> HIDE DEF x
<1>17. SUFFICES EnInv(x, ds)
  BY DEF x
<1>18. /\ e.pc \in {"walk", "fiu"} /\ fs \in Seq(FeatT) /\ ty \in DevKinds \cup {NoDev}
       /\ FeatsIn(m, e.len, e.base, fs) /\ (ty = NoDev => fs = <<>>)
  BY DEF TakenOk
<1>19. \A k \in 1..Len(m) : k <= e.i /\ Due(m, e.len, k) => InDevs(ds, e.bar, m, k) \/ Has(fs, m, k)
  BY DEF TakenOk
<1>20. /\ \A j \in (e.base + 1)..e.i : m[j].type # "fiu"
       /\ ty = NoDev => e.base = 1 /\ \A j \in 1..e.i : m[j].type \in {"interface", "other"}
       /\ ty = "port" => m[e.base].type = "fiu" /\ m[e.base].id = "port"
  BY DEF TakenOk
<1>0. e.pc \in Walking
  BY <1>18 DEF Walking
<1>1. m = MemOf(e)
  OBVIOUS
<1>2. /\ m \in Seq(Headers) /\ Complete(m, e.len) /\ e.len \in Nat /\ e.i \in Nat /\ e.base \in Nat /\ e.i \in 1..Len(m)
      /\ e.base \in 1..e.i /\ e.pc # "none"
  BY <1>0, <1>1, EnKnown
<1>3. e \in EnT /\ ds \in Seq(DevT) /\ EnHere(e, m) /\ EnOrder(e, ds)
  BY <1>0, <1>1, <1>2 DEF EnInv
<1>4. y \in EnT
  BY <1>18, <1>3 DEF EnT
<1>5. y.board = e.board /\ y.lists = e.lists /\ y.bar = e.bar /\ y.len = e.len /\ y.i = e.i /\ y.base = e.base
      /\ y.win = e.win /\ y.type = ty /\ y.feats = fs
  BY <1>3 DEF EnT
<1> DEFINE stop == m[e.i].eol \/ m[e.i].next = 0 \/ Ofst(m, e.i) + m[e.i].next >= e.len
<1> HIDE DEF stop
<1>6. x = IF stop THEN [y EXCEPT !.pc = "end"] ELSE [y EXCEPT !.i = e.i + 1, !.pc = "walk"]
  BY DEF stop, x, Onward
<1>7. x \in EnT
  <2>1. CASE stop
    <3>1. x = [y EXCEPT !.pc = "end"]
      BY <1>6, <2>1
    <3> QED BY <1>4, <3>1 DEF EnT
  <2>2. CASE ~stop
    <3>1. x = [y EXCEPT !.i = e.i + 1, !.pc = "walk"] /\ e.i + 1 \in Nat
      BY <1>2, <1>6, <2>2
    <3> QED BY <1>4, <3>1 DEF EnT
  <2> QED BY <2>1, <2>2
<1>8. /\ x.board = e.board /\ x.lists = e.lists /\ x.bar = e.bar /\ x.len = e.len /\ x.base = e.base /\ x.type = ty /\ x.feats = fs
      /\ x.pc = (IF stop THEN "end" ELSE "walk") /\ x.i = (IF stop THEN e.i ELSE e.i + 1)
  <2>1. CASE stop
    <3>1. x = [y EXCEPT !.pc = "end"]
      BY <1>6, <2>1
    <3>2. /\ x.board = y.board /\ x.lists = y.lists /\ x.bar = y.bar /\ x.len = y.len /\ x.base = y.base /\ x.type = y.type
          /\ x.feats = y.feats /\ x.pc = "end" /\ x.i = y.i
      BY <1>4, <3>1 DEF EnT
    <3> QED BY <1>5, <2>1, <3>2
  <2>2. CASE ~stop
    <3>1. x = [y EXCEPT !.i = e.i + 1, !.pc = "walk"]
      BY <1>6, <2>2
    <3>2. /\ x.board = y.board /\ x.lists = y.lists /\ x.bar = y.bar /\ x.len = y.len /\ x.base = y.base /\ x.type = y.type
          /\ x.feats = y.feats /\ x.pc = "walk" /\ x.i = e.i + 1
      BY <1>4, <3>1 DEF EnT
    <3> QED BY <1>5, <2>2, <3>2
  <2> QED BY <2>1, <2>2
<1>9. x.pc \in Walking /\ x.pc \notin {"window", "fiu", "none", "commit"} /\ x.pc \in {"walk", "end"}
  BY <1>8 DEF Walking
<1>10. MemOf(x) = m /\ EnDevs(x, ds) /\ EnApart(ds) /\ EnCovered(x, ds)
       /\ Begun(x) >= 1 /\ Lists(x)[Begun(x)] = [bar |-> x.bar, len |-> x.len] /\ EnLists(x)
  <2>1. SameList(e, x)
    BY <1>0, <1>8, <1>9 DEF SameList
  <2>2. StaysOk(e, x, ds)
    BY <2>1, EnStays
  <2> QED BY <1>1, <2>2 DEF StaysOk
<1>11. Walked(m, e.len, e.i) /\ (e.base = 1 \/ m[e.base].type = "fiu")
  BY <1>3 DEF EnHere
<1>12. Ofst(m, e.i + 1) = Ofst(m, e.i) + m[e.i].next /\ Ofst(m, e.i) \in Nat /\ m[e.i].next \in Nat
  <2>1. m[e.i] \in Headers
    BY <1>2, ElementOfSeq, Zenon
  <2>2. m[e.i].next \in Nat
    BY <2>1 DEF Headers
  <2>3. e.i \in 1..(Len(m) + 1)
    BY <1>2
  <2> QED BY <1>2, <2>2, <2>3, OfstIs
<1>13. EnOrder(x, ds)
  BY <1>18, <1>3, <1>8, <1>9 DEF EnOrder
<1>14. EnPending(x, m)
  BY <1>18, <1>8 DEF EnPending
<1>15. CASE stop
  <2>1. x.pc = "end" /\ x.i = e.i
    BY <1>8, <1>15
  <2>2. EnHere(x, m)
    BY <1>2, <1>8, <1>10, <1>11, <2>1 DEF EnHere
  <2>3. ASSUME NEW k \in 1..Len(m), Due(m, e.len, k) PROVE k <= e.i
    <3>1. SUFFICES ASSUME ~(k <= e.i) PROVE FALSE
      OBVIOUS
    <3>2. e.i \in 1..(k - 1)
      BY <1>2, <3>1
    <3>3. ~m[e.i].eol /\ m[e.i].next # 0 /\ Ofst(m, e.i + 1) < e.len
      BY <2>3, <3>2 DEF Due, Walked
    <3> QED BY <1>2, <1>12, <1>15, <3>3 DEF stop
  <2>4. EnKept(x, m, ds)
    BY <1>19, <1>8, <2>3 DEF EnKept
  <2> QED BY <1>3, <1>7, <1>9, <1>10, <1>13, <1>14, <2>2, <2>4 DEF EnInv
<1>16. CASE ~stop
  <2>1. x.pc = "walk" /\ x.i = e.i + 1
    BY <1>8, <1>16
  <2>2. ~m[e.i].eol /\ m[e.i].next # 0 /\ Ofst(m, e.i + 1) < e.len
    BY <1>2, <1>12, <1>16 DEF stop
  <2>3. e.i # Len(m)
    BY <1>2, <1>12, <2>2 DEF Complete
  <2>4. x.i \in 1..Len(m) /\ x.i - 1 = e.i /\ e.base \in 1..x.i /\ e.base < x.i
    BY <1>2, <2>1, <2>3
  <2>5. Walked(m, e.len, x.i)
    <3>1. \A j \in 1..(x.i - 1) : j \in 1..(e.i - 1) \/ j = e.i
      BY <1>2, <2>4
    <3> QED BY <1>11, <2>2, <3>1 DEF Walked
  <2>6. EnHere(x, m)
    BY <1>20, <1>8, <1>10, <1>11, <2>1, <2>4, <2>5 DEF EnHere
  <2>7. \A k \in 1..Len(m) : k < x.i => k <= e.i
    BY <1>2, <2>1
  <2>8. EnKept(x, m, ds)
    BY <1>19, <1>8, <2>1, <2>7 DEF EnKept, Passed
  <2> QED BY <1>3, <1>7, <1>9, <1>10, <1>13, <1>14, <2>6, <2>8 DEF EnInv
<1> QED BY <1>15, <1>16

\* A list is begun: no device has its memory yet.
LEMMA BeginsList ==
  ASSUME NEW e, NEW ds, EnInv(e, ds), e.pc = "list", e.lists # <<>>, NEW x,
         x = [e EXCEPT !.pc = "walk", !.lists = Tail(e.lists), !.bar = Head(e.lists).bar, !.len = Head(e.lists).len, !.i = 1,
                       !.win = TRUE, !.base = 1]
  PROVE  EnInv(x, ds)
<1>1. e \in EnT /\ ds \in Seq(DevT) /\ EnLists(e) /\ EnDevs(e, ds) /\ EnPending(e, MemOf(e)) /\ EnApart(ds) /\ EnCovered(e, ds)
      /\ e.pc \notin Walking
  BY DEF EnInv, Walking
<1>2. e.lists \in Seq(ListT)
  BY <1>1 DEF EnT
<1>3. PICK ls : ls = e.lists
  OBVIOUS
<1>4. /\ ls \in Seq(ListT) /\ Len(ls) \in Nat /\ Len(ls) >= 1 /\ Head(ls) = ls[1] /\ Tail(ls) \in Seq(ListT)
      /\ Len(Tail(ls)) = Len(ls) - 1 /\ \A j \in 1..(Len(ls) - 1) : Tail(ls)[j] = ls[j + 1]
  BY <1>2, <1>3
<1>5. ls[1] \in ListT
  BY <1>4, ElementOfSeq
<1>6. PICK l : l = Lists(e)
  OBVIOUS
<1>7. /\ e.board \in Boards /\ l # Bad /\ Len(ls) <= Len(l) /\ Begun(e) = Len(l) - Len(ls) /\ e.type = NoDev
      /\ \A j \in 1..Len(ls) : ls[j] = l[Begun(e) + j]
  BY <1>1, <1>3, <1>6 DEF EnLists, Begun
<1>8. l \in Seq(ListT) /\ (\A a, n \in 1..Len(l) : a # n => l[a].bar # l[n].bar)
      /\ \A n \in 1..Len(l) : HdrsOf(e, n) \in Seq(Headers) /\ Complete(HdrsOf(e, n), l[n].len)
  BY <1>6, <1>7, ListsOk DEF Lists, ListsApart, HdrsOf
<1>9. PICK g \in Nat : g = Begun(e) /\ g + 1 \in 1..Len(l) /\ Len(l) \in Nat
  BY <1>4, <1>7, <1>8
<1>10. ls[1] = l[g + 1]
  BY <1>4, <1>7, <1>9
<1>11. x \in EnT
  BY <1>1, <1>3, <1>4, <1>5 DEF EnT, ListT
<1>12. /\ x.board = e.board /\ x.lists = Tail(ls) /\ x.bar = l[g + 1].bar /\ x.len = l[g + 1].len /\ x.i = 1 /\ x.base = 1
       /\ x.pc = "walk" /\ x.type = NoDev /\ x.feats = e.feats
  BY <1>1, <1>3, <1>4, <1>7, <1>10 DEF EnT
<1>13. Lists(x) = l /\ Begun(x) = g + 1 /\ \A n : HdrsOf(x, n) = HdrsOf(e, n)
  <2>1. Lists(x) = l /\ \A n : HdrsOf(x, n) = HdrsOf(e, n)
    BY <1>6, <1>12 DEF Lists, HdrsOf
  <2>2. Begun(x) = Len(l) - (Len(ls) - 1)
    BY <1>4, <1>12, <2>1 DEF Begun
  <2> QED BY <1>4, <1>7, <1>9, <2>1, <2>2
<1>14. PICK m : m = MemOf(x)
  OBVIOUS
<1>15. m = HdrsOf(e, g + 1) /\ m \in Seq(Headers) /\ m # <<>> /\ Len(m) \in Nat
  <2>1. m = HdrsOf(e, g + 1)
    BY <1>6, <1>12, <1>14 DEF MemOf, HdrsOf
  <2>2. m \in Seq(Headers) /\ Complete(m, l[g + 1].len)
    BY <1>8, <1>9, <2>1
  <2> QED BY <2>1, <2>2 DEF Complete
<1>16. 1 \in 1..Len(m)
  BY <1>15, EmptySeq
<1>17. EnLists(x)
  <2>1. \A j \in 1..(Len(ls) - 1) : Tail(ls)[j] = l[g + 1 + j]
    <3> TAKE j \in 1..(Len(ls) - 1)
    <3>1. j + 1 \in 1..Len(ls) /\ g + (j + 1) = g + 1 + j
      BY <1>4, <1>9
    <3>2. ls[j + 1] = l[g + (j + 1)]
      BY <1>7, <1>9, <3>1
    <3> QED BY <1>4, <3>1, <3>2
  <2> QED BY <1>4, <1>7, <1>12, <1>13, <2>1 DEF EnLists
<1>18. EnHere(x, m)
  <2>1. l[g + 1] \in ListT
    BY <1>5, <1>10
  <2>2. l[g + 1] = [bar |-> x.bar, len |-> x.len]
    BY <1>12, <2>1 DEF ListT
  <2>3. Walked(m, x.len, 1)
    BY DEF Walked
  <2>4. /\ Begun(x) >= 1 /\ Lists(x)[Begun(x)] = [bar |-> x.bar, len |-> x.len] /\ x.i \in 1..Len(m)
        /\ Walked(m, x.len, x.i) /\ x.base \in 1..x.i /\ x.base = 1
    BY <1>9, <1>12, <1>13, <1>16, <2>2, <2>3
  <2>5. (x.base + 1)..(x.i - 1) = {} /\ 1..(x.i - 1) = {}
    BY <1>12
  <2> QED BY <1>12, <2>4, <2>5 DEF EnHere, NoDev
<1>19. EnDevs(x, ds)
  <2>1. \A n \in 1..g : n \in 1..(g + 1)
    OBVIOUS
  <2> QED BY <1>1, <1>6, <1>9, <1>13, <2>1 DEF EnDevs
<1>20. EnOrder(x, ds)
  <2>1. ASSUME NEW d \in 1..Len(ds) PROVE ds[d].bar # x.bar
    <3>1. PICK n \in 1..g : ds[d].bar = l[n].bar
      BY <1>1, <1>6, <1>9 DEF EnDevs
    <3>2. n \in 1..Len(l) /\ n # g + 1
      BY <1>9, <3>1
    <3> QED BY <1>8, <1>9, <1>12, <3>1, <3>2
  <2> QED BY <2>1 DEF EnOrder
<1>21. EnCovered(x, ds)
  <2>1. \A n \in 1..(g + 1) : n < g + 1 => n \in 1..g
    OBVIOUS
  <2>2. x.pc \in Walking
    BY <1>12 DEF Walking
  <2> QED BY <1>1, <1>6, <1>9, <1>13, <2>1, <2>2 DEF EnCovered
<1>22. EnPending(x, m)
  <2>1. x.feats = <<>>
    BY <1>1, <1>7, <1>12 DEF EnPending
  <2> QED BY <2>1, ElemsEmpty DEF EnPending, FeatsIn
<1>23. EnKept(x, m, ds)
  <2>1. \A k \in 1..Len(m) : ~Passed(x, k)
    BY <1>12, <1>15 DEF Passed
  <2> QED BY <2>1 DEF EnKept
<1> QED BY <1>1, <1>11, <1>12, <1>14, <1>17, <1>18, <1>19, <1>20, <1>21, <1>22, <1>23 DEF EnInv

\* The device before an FIU is complete.
LEMMA FiuCommits ==
  ASSUME NEW e, NEW ds, EnInv(e, ds), e.pc = "walk", MemOf(e)[e.i].type = "fiu", e.type # NoDev, NEW x,
         x = [e EXCEPT !.win = FALSE, !.pc = "commit", !.after = "window"]
  PROVE  EnInv(x, ds)
<1>0. PICK m : m = MemOf(e)
  OBVIOUS
<1>1. e \in EnT /\ ds \in Seq(DevT) /\ EnPending(e, m) /\ EnOrder(e, ds) /\ EnHere(e, m) /\ EnKept(e, m, ds)
  BY <1>0 DEF EnInv, Walking
<1>2. x \in EnT
  BY <1>1 DEF EnT
<1>3. /\ x.board = e.board /\ x.lists = e.lists /\ x.bar = e.bar /\ x.len = e.len /\ x.i = e.i /\ x.base = e.base
      /\ x.pc = "commit" /\ x.type = e.type /\ x.feats = e.feats /\ x.win = FALSE /\ x.after = "window"
  BY <1>1 DEF EnT
<1>4. SameList(e, x)
  BY <1>3 DEF SameList, Walking
<1>5. StaysOk(e, x, ds)
  BY <1>4, EnStays
<1>6. MemOf(x) = m /\ EnDevs(x, ds) /\ EnApart(ds) /\ EnCovered(x, ds) /\ EnLists(x)
      /\ Begun(x) >= 1 /\ Lists(x)[Begun(x)] = [bar |-> x.bar, len |-> x.len]
  BY <1>0, <1>5 DEF StaysOk
<1>7. EnHere(x, m)
  BY <1>0, <1>1, <1>3, <1>6 DEF EnHere
<1>8. EnPending(x, m) /\ EnOrder(x, ds)
  BY <1>1, <1>3 DEF EnPending, EnOrder
<1>9. EnKept(x, m, ds)
  BY <1>1, <1>3 DEF EnKept, Passed
<1> QED BY <1>1, <1>2, <1>3, <1>6, <1>7, <1>8, <1>9 DEF EnInv

\* The window is moved to the FIU.
LEMMA WindowOpens ==
  ASSUME NEW e, NEW ds, EnInv(e, ds), e.pc = "window", NEW x, x = [e EXCEPT !.pc = "fiu", !.win = TRUE, !.base = e.i]
  PROVE  EnInv(x, ds)
<1>0. PICK m : m = MemOf(e)
  OBVIOUS
<1>1. e \in EnT /\ ds \in Seq(DevT) /\ EnPending(e, m) /\ EnOrder(e, ds) /\ EnHere(e, m) /\ EnKept(e, m, ds) /\ e.type = NoDev
      /\ e.i \in Nat
  BY <1>0 DEF EnInv, Walking, EnLists, EnT
<1>2. x \in EnT
  BY <1>1 DEF EnT
<1>3. /\ x.board = e.board /\ x.lists = e.lists /\ x.bar = e.bar /\ x.len = e.len /\ x.i = e.i /\ x.base = e.i
      /\ x.pc = "fiu" /\ x.type = e.type /\ x.feats = e.feats
  BY <1>1 DEF EnT
<1>4. SameList(e, x)
  BY <1>1, <1>3 DEF SameList, Walking
<1>5. StaysOk(e, x, ds)
  BY <1>4, EnStays
<1>6. MemOf(x) = m /\ EnDevs(x, ds) /\ EnApart(ds) /\ EnCovered(x, ds) /\ EnLists(x)
      /\ Begun(x) >= 1 /\ Lists(x)[Begun(x)] = [bar |-> x.bar, len |-> x.len]
  BY <1>0, <1>5 DEF StaysOk
<1>7. EnHere(x, m)
  BY <1>0, <1>1, <1>3, <1>6 DEF EnHere
<1>8. EnPending(x, m) /\ EnOrder(x, ds)
  BY <1>1, <1>3 DEF EnPending, EnOrder
<1>9. EnKept(x, m, ds)
  BY <1>1, <1>3 DEF EnKept, Passed
<1> QED BY <1>1, <1>2, <1>3, <1>6, <1>7, <1>8, <1>9 DEF EnInv

\* What devices have they keep when one is added.
Keeps(ds, nd, dt) ==
  \A bar, h, k : InDevs(ds, bar, h, k) \/ (bar = nd.bar /\ Has(nd.feats, h, k)) => InDevs(dt, bar, h, k)
LEMMA DevAdded ==
  ASSUME NEW ds \in Seq(DevT), NEW nd \in DevT, NEW dt, dt = Append(ds, nd)
  PROVE  /\ dt \in Seq(DevT) /\ Len(dt) = Len(ds) + 1 /\ Len(ds) \in Nat
         /\ (\A d \in 1..Len(ds) : dt[d] = ds[d]) /\ dt[Len(ds) + 1] = nd
         /\ \A d \in 1..Len(dt) : d \in 1..Len(ds) \/ d = Len(ds) + 1
         /\ Keeps(ds, nd, dt)
<1>1. /\ dt \in Seq(DevT) /\ Len(dt) = Len(ds) + 1 /\ Len(ds) \in Nat
      /\ (\A d \in 1..Len(ds) : dt[d] = ds[d]) /\ dt[Len(ds) + 1] = nd
  OBVIOUS
<1>2. \A d \in 1..Len(dt) : d \in 1..Len(ds) \/ d = Len(ds) + 1
  BY <1>1
<1>3. \A d \in 1..Len(ds) : d \in 1..Len(dt)
  BY <1>1
<1>4. Len(ds) + 1 \in 1..Len(dt)
  BY <1>1
<1>5. ASSUME NEW bar, NEW h, NEW k, InDevs(ds, bar, h, k) \/ (bar = nd.bar /\ Has(nd.feats, h, k))
      PROVE  InDevs(dt, bar, h, k)
  <2>1. CASE InDevs(ds, bar, h, k)
    <3>1. PICK d \in 1..Len(ds) : ds[d].bar = bar /\ Has(ds[d].feats, h, k)
      BY <2>1 DEF InDevs
    <3>2. d \in 1..Len(dt) /\ dt[d] = ds[d]
      BY <1>1, <1>3
    <3> QED BY <3>1, <3>2 DEF InDevs
  <2>2. CASE bar = nd.bar /\ Has(nd.feats, h, k)
    BY <1>1, <1>4, <2>2 DEF InDevs
  <2> QED BY <1>5, <2>1, <2>2
<1> QED BY <1>1, <1>2, <1>5 DEF Keeps

\* The device is registered with the features that were found for it.
LEMMA Commits ==
  ASSUME NEW e, NEW ds, EnInv(e, ds), e.pc = "commit",
         NEW nd, nd = [type |-> e.type, bar |-> e.bar, base |-> e.base, num |-> e.num, feats |-> e.feats],
         NEW dt, dt = Append(ds, nd),
         NEW x, x = [e EXCEPT !.pc = e.after, !.type = NoDev, !.feats = <<>>]
  PROVE  EnInv(x, dt)
<1>0. e.pc \in Walking
  BY DEF Walking
<1>1. PICK m : m = MemOf(e)
  OBVIOUS
<1>2. PICK g : g = Begun(e)
  OBVIOUS
<1>3. /\ e \in EnT /\ ds \in Seq(DevT) /\ EnPending(e, m) /\ EnOrder(e, ds) /\ EnHere(e, m) /\ EnKept(e, m, ds) /\ EnLists(e)
      /\ EnDevs(e, ds) /\ EnApart(ds) /\ EnCovered(e, ds)
  BY <1>0, <1>1 DEF EnInv
<1>4. /\ HdrsOf(e, g) = m /\ g \in 1..Len(Lists(e)) /\ Lists(e)[g].bar = e.bar /\ Lists(e)[g].len = e.len /\ g >= 1
      /\ e.i \in Nat /\ e.base \in Nat /\ g \in Nat
  BY <1>0, <1>1, <1>2, EnKnown
<1>5. e.type # NoDev /\ e.after \in {"list", "window"} /\ e.feats \in Seq(FeatT) /\ e.type \in DevKinds /\ e.bar \in Nat /\ e.num \in Nat
  BY <1>3 DEF EnHere, EnT
<1>6. nd \in DevT /\ nd.bar = e.bar /\ nd.base = e.base /\ nd.feats = e.feats
  BY <1>4, <1>5 DEF DevT
<1>7. /\ dt \in Seq(DevT) /\ Len(dt) = Len(ds) + 1 /\ Len(ds) \in Nat
      /\ (\A d \in 1..Len(ds) : dt[d] = ds[d]) /\ dt[Len(ds) + 1] = nd
      /\ \A d \in 1..Len(dt) : d \in 1..Len(ds) \/ d = Len(ds) + 1
  BY <1>3, <1>6, DevAdded
<1>8. \A bar, h, k : InDevs(ds, bar, h, k) \/ (bar = e.bar /\ Has(e.feats, h, k)) => InDevs(dt, bar, h, k)
  <2>1. \A bar, h, k : InDevs(ds, bar, h, k) \/ (bar = nd.bar /\ Has(nd.feats, h, k)) => InDevs(dt, bar, h, k)
    <3>1. Keeps(ds, nd, dt)
      BY <1>3, <1>6, DevAdded
    <3> QED BY <3>1, Zenon DEF Keeps
  <2>2. nd.bar = e.bar /\ nd.feats = e.feats
    BY <1>6
  <2> QED BY <2>1, <2>2, Zenon
<1>9. x \in EnT
  <2>1. <<>> \in Seq(FeatT)
    OBVIOUS
  <2> QED BY <1>3, <1>5, <2>1 DEF EnT
<1>10. /\ x.board = e.board /\ x.lists = e.lists /\ x.bar = e.bar /\ x.len = e.len /\ x.i = e.i /\ x.base = e.base
       /\ x.pc = e.after /\ x.type = NoDev /\ x.feats = <<>> /\ x.pc # "none"
  BY <1>3, <1>5 DEF EnT
<1>11. Lists(x) = Lists(e) /\ Begun(x) = g /\ MemOf(x) = m /\ \A n : HdrsOf(x, n) = HdrsOf(e, n)
  BY <1>1, <1>2, <1>10 DEF Lists, Begun, MemOf, HdrsOf
<1>12. EnLists(x)
  BY <1>2, <1>3, <1>5, <1>10, <1>11 DEF EnLists
<1>13. EnDevs(x, dt)
  <2>1. ASSUME NEW d \in 1..Len(dt)
        PROVE  \E n \in 1..g : dt[d].bar = Lists(e)[n].bar /\ FeatsIn(HdrsOf(e, n), Lists(e)[n].len, dt[d].base, dt[d].feats)
    <3>1. CASE d \in 1..Len(ds)
      BY <1>2, <1>3, <1>7, <3>1 DEF EnDevs
    <3>2. CASE d = Len(ds) + 1
      <4>1. FeatsIn(m, e.len, e.base, e.feats)
        BY <1>3 DEF EnPending
      <4>2. dt[d] = nd /\ g \in 1..g
        BY <1>4, <1>7, <3>2
      <4> QED BY <1>4, <1>6, <4>1, <4>2
    <3> QED BY <1>7, <3>1, <3>2
  <2> QED BY <1>11, <2>1 DEF EnDevs
<1>14. \A d \in 1..Len(ds) : ds[d].bar = e.bar => ds[d].base < e.base /\ ds[d].base \in Nat
  <2>1. \A d \in 1..Len(ds) : ds[d] \in DevT
    BY <1>3, ElementOfSeq
  <2>2. \A d \in 1..Len(ds) : ds[d].base \in Nat
    BY <2>1 DEF DevT
  <2> QED BY <1>3, <2>2 DEF EnOrder
<1>15. EnApart(dt)
  <2>1. \A d \in 1..Len(ds) : ds[d].bar # nd.bar \/ ds[d].base # nd.base
    BY <1>4, <1>6, <1>14
  <2>2. \A c, d \in 1..Len(ds) : c # d => ds[c].bar # ds[d].bar \/ ds[c].base # ds[d].base
    BY <1>3 DEF EnApart
  <2>3. ASSUME NEW c \in 1..Len(dt), NEW d \in 1..Len(dt), c # d PROVE dt[c].bar # dt[d].bar \/ dt[c].base # dt[d].base
    <3>1. CASE c \in 1..Len(ds) /\ d \in 1..Len(ds)
      BY <1>7, <2>2, <2>3, <3>1
    <3>2. CASE c \in 1..Len(ds) /\ d = Len(ds) + 1
      BY <1>7, <2>1, <3>2
    <3>3. CASE d \in 1..Len(ds) /\ c = Len(ds) + 1
      BY <1>7, <2>1, <3>3
    <3> QED BY <1>7, <2>3, <3>1, <3>2, <3>3
  <2> QED BY <2>3 DEF EnApart
<1>16. EnPending(x, m)
  BY <1>10, <1>5 DEF EnPending
<1>17. \A n \in 1..g : n < g => \A k \in 1..Len(HdrsOf(e, n)) : Due(HdrsOf(e, n), Lists(e)[n].len, k) =>
         InDevs(dt, Lists(e)[n].bar, HdrsOf(e, n), k)
  BY <1>2, <1>3, <1>8 DEF EnCovered
<1>18. \A k \in 1..Len(m) : Due(m, e.len, k) /\ Passed(e, k) => InDevs(dt, e.bar, m, k)
  BY <1>3, <1>8 DEF EnKept
<1>19. CASE e.after = "window"
  <2>1. x.pc = "window" /\ x.pc \in Walking
    BY <1>10, <1>19 DEF Walking
  <2>2. EnHere(x, m)
    BY <1>2, <1>3, <1>10, <1>11, <1>19, <2>1 DEF EnHere
  <2>3. EnOrder(x, dt)
    <3>1. e.base < e.i
      BY <1>3, <1>19 DEF EnHere
    <3>2. ASSUME NEW d \in 1..Len(dt), dt[d].bar = e.bar PROVE dt[d].base < e.i
      <4>1. CASE d \in 1..Len(ds)
        <5>1. ds[d].base < e.base /\ ds[d].base \in Nat /\ dt[d] = ds[d]
          BY <1>7, <1>14, <3>2, <4>1
        <5> QED BY <1>4, <3>1, <5>1
      <4>2. CASE d = Len(ds) + 1
        BY <1>6, <1>7, <3>1, <4>2
      <4> QED BY <1>7, <3>2, <4>1, <4>2
    <3> QED BY <1>10, <2>1, <3>2 DEF EnOrder
  <2>4. EnCovered(x, dt)
    BY <1>11, <1>17, <2>1 DEF EnCovered
  <2>5. EnKept(x, m, dt)
    <3>1. \A k : Passed(x, k) => Passed(e, k)
      BY <1>10, <2>1 DEF Passed
    <3> QED BY <1>10, <1>18, <3>1 DEF EnKept
  <2> QED BY <1>7, <1>9, <1>10, <1>11, <1>12, <1>13, <1>15, <1>16, <2>2, <2>3, <2>4, <2>5 DEF EnInv
<1>20. CASE e.after = "list"
  <2>1. x.pc = "list" /\ x.pc \notin Walking
    BY <1>10, <1>20 DEF Walking
  <2>2. EnOrder(x, dt)
    BY <2>1 DEF EnOrder
  <2>3. \A k \in 1..Len(m) : Due(m, e.len, k) => InDevs(dt, e.bar, m, k)
    BY <1>18, <1>20 DEF Passed
  <2>4. \A n \in 1..g : n < g \/ n = g
    BY <1>4
  <2>5. EnCovered(x, dt)
    BY <1>4, <1>11, <1>17, <2>3, <2>4 DEF EnCovered
  <2> QED BY <1>7, <1>9, <1>10, <1>11, <1>12, <1>13, <1>15, <1>16, <2>1, <2>2, <2>5 DEF EnInv
<1> QED BY <1>5, <1>19, <1>20

\* A list ends, with a device to register or without one.
LEMMA ListEnds ==
  ASSUME NEW e, NEW ds, EnInv(e, ds), e.pc = "end", NEW x,
         x = [e EXCEPT !.win = FALSE, !.pc = IF e.type = NoDev THEN "list" ELSE "commit", !.after = "list"]
  PROVE  EnInv(x, ds)
<1>0. e.pc \in Walking
  BY DEF Walking
<1>1. PICK m : m = MemOf(e)
  OBVIOUS
<1>2. PICK g : g = Begun(e)
  OBVIOUS
<1>3. /\ e \in EnT /\ ds \in Seq(DevT) /\ EnPending(e, m) /\ EnOrder(e, ds) /\ EnHere(e, m) /\ EnKept(e, m, ds) /\ EnLists(e)
      /\ EnDevs(e, ds) /\ EnApart(ds) /\ EnCovered(e, ds)
  BY <1>0, <1>1 DEF EnInv
<1>4. HdrsOf(e, g) = m /\ Lists(e)[g].bar = e.bar /\ Lists(e)[g].len = e.len /\ g \in Nat
  BY <1>0, <1>1, <1>2, EnKnown
<1>5. PICK p \in {"list", "commit"} : p = IF e.type = NoDev THEN "list" ELSE "commit"
  OBVIOUS
<1>6. x = [e EXCEPT !.win = FALSE, !.pc = p, !.after = "list"]
  BY <1>5
<1>7. x \in EnT
  BY <1>3, <1>6 DEF EnT
<1>8. /\ x.board = e.board /\ x.lists = e.lists /\ x.bar = e.bar /\ x.len = e.len /\ x.i = e.i /\ x.base = e.base
      /\ x.pc = p /\ x.type = e.type /\ x.feats = e.feats /\ x.win = FALSE /\ x.after = "list"
  BY <1>3, <1>6 DEF EnT
<1>9. Lists(x) = Lists(e) /\ Begun(x) = g /\ MemOf(x) = m /\ \A n : HdrsOf(x, n) = HdrsOf(e, n)
  BY <1>1, <1>2, <1>8 DEF Lists, Begun, MemOf, HdrsOf
<1>10. EnLists(x) /\ EnDevs(x, ds)
  BY <1>2, <1>3, <1>5, <1>8, <1>9 DEF EnLists, EnDevs
<1>11. EnPending(x, m) /\ EnOrder(x, ds)
  BY <1>3, <1>5, <1>8 DEF EnPending, EnOrder
<1>12. CASE e.type = NoDev
  <2>1. x.pc = "list" /\ x.pc \notin Walking
    BY <1>5, <1>8, <1>12 DEF Walking
  <2>2. e.feats = <<>>
    BY <1>3, <1>12 DEF EnPending
  <2>3. \A k \in 1..Len(m) : Due(m, e.len, k) => InDevs(ds, e.bar, m, k)
    BY <1>3, <2>2, ElemsEmpty DEF EnKept, Passed, Has
  <2>4. \A n \in 1..g : n < g \/ n = g
    BY <1>4
  <2>5. EnCovered(x, ds)
    BY <1>2, <1>3, <1>4, <1>9, <2>3, <2>4 DEF EnCovered
  <2> QED BY <1>3, <1>7, <1>9, <1>10, <1>11, <2>1, <2>5 DEF EnInv
<1>13. CASE e.type # NoDev
  <2>1. x.pc = "commit" /\ x.pc \in Walking
    BY <1>5, <1>8, <1>13 DEF Walking
  <2>2. EnHere(x, m)
    BY <1>2, <1>3, <1>8, <1>9, <1>13, <2>1 DEF EnHere
  <2>3. EnCovered(x, ds) /\ EnKept(x, m, ds)
    BY <1>0, <1>2, <1>3, <1>8, <1>9, <2>1 DEF EnCovered, EnKept, Passed
  <2> QED BY <1>3, <1>7, <1>9, <1>10, <1>11, <2>1, <2>2, <2>3 DEF EnInv
<1> QED BY <1>12, <1>13

\* All lists were walked.
LEMMA AllWalked ==
  ASSUME NEW e, NEW ds, EnInv(e, ds), e.pc = "list", e.lists = <<>>, NEW x, x = [e EXCEPT !.pc = "done"]
  PROVE  EnInv(x, ds)
<1>1. /\ e \in EnT /\ ds \in Seq(DevT) /\ EnPending(e, MemOf(e)) /\ EnLists(e) /\ EnDevs(e, ds) /\ EnApart(ds) /\ EnCovered(e, ds)
      /\ e.pc \notin Walking
  BY DEF EnInv, Walking
<1>2. x \in EnT
  BY <1>1 DEF EnT
<1>3. x.board = e.board /\ x.lists = e.lists /\ x.bar = e.bar /\ x.pc = "done" /\ x.type = e.type /\ x.feats = e.feats
      /\ x.pc \notin Walking
  BY <1>1 DEF EnT, Walking
<1>4. Lists(x) = Lists(e) /\ Begun(x) = Begun(e) /\ MemOf(x) = MemOf(e) /\ \A n : HdrsOf(x, n) = HdrsOf(e, n)
  BY <1>3 DEF Lists, Begun, MemOf, HdrsOf
<1>5. EnLists(x) /\ EnDevs(x, ds) /\ EnCovered(x, ds)
  <2>1. EnLists(x)
    BY <1>1, <1>3, <1>4 DEF EnLists
  <2>2. EnDevs(x, ds)
    BY <1>1, <1>4 DEF EnDevs
  <2>3. EnCovered(x, ds)
    BY <1>1, <1>3, <1>4 DEF EnCovered
  <2> QED BY <2>1, <2>2, <2>3
<1>6. EnPending(x, MemOf(x)) /\ EnOrder(x, ds)
  BY <1>1, <1>3 DEF EnPending, EnOrder
<1> QED BY <1>1, <1>2, <1>3, <1>5, <1>6 DEF EnInv

-----------------------------------------------------------------------------
(* The actions.                                                            *)

CdevT == [region : BOOLEAN, irqs : BOOLEAN, fme : BOOLEAN, refused : BOOLEAN]

\* Nothing is enumerated.
LEMMA EnOffInv == EnInv(EnOff, <<>>) /\ EnOff.pc = "none"
<1>1. EnOff \in EnT
  BY DEF EnOff, EnT
<1>2. EnOff.pc = "none" /\ "none" \notin Walking
  BY DEF EnOff, Walking
<1>3. <<>> \in Seq(DevT)
  OBVIOUS
<1> QED BY <1>1, <1>2, <1>3 DEF EnInv

\* An error undoes everything; only memory may be missing for a board that follows the format.
LEMMA EnFails ==
  ASSUME EnIInv, NEW why, enumerate_fails(why), why = "rejected" => en.board \notin GoodBoards
  PROVE  EnIInv'
<1>1. en' = EnOff /\ devs' = <<>>
  BY DEF enumerate_fails
<1>2. cdev \in CdevT
  BY DEF EnIInv, CdevT
<1>3. cdev' = [cdev EXCEPT !.region = FALSE, !.irqs = FALSE, !.refused = FALSE]
  BY DEF enumerate_fails
<1>4. cdev' \in CdevT /\ ~cdev'.region /\ ~cdev'.irqs /\ ~cdev'.refused
  BY <1>2, <1>3 DEF CdevT
<1> QED BY <1>1, <1>4, EnOffInv DEF EnIInv, EnumFailedClean, EnumGoodAccepted, CdevT

\* Any other step while lists are walked.
LEMMA EnGoesOn ==
  ASSUME EnIInv, EnInv(en', devs'), en'.pc # "none", cdev' = cdev
  PROVE  EnIInv'
  BY DEF EnIInv, EnumFailedClean, EnumGoodAccepted

\* A header that is reached is inside of the list.
LEMMA ReachedInside ==
  ASSUME NEW m \in Seq(Headers), NEW len \in Nat, len > 0, NEW k \in 1..Len(m), Walked(m, len, k)
  PROVE  Ofst(m, k) \in Nat /\ Ofst(m, k) < len
<1>1. Ofst(m, k) \in Nat /\ Ofst(m, 1) = 0
  <2>1. k \in 1..(Len(m) + 1)
    OBVIOUS
  <2> QED BY <2>1, OfstIs
<1>2. CASE k = 1
  BY <1>1, <1>2
<1>3. CASE k # 1
  <2>1. k - 1 \in 1..(k - 1) /\ (k - 1) + 1 = k
    BY <1>3
  <2>2. Ofst(m, (k - 1) + 1) < len
    BY <2>1 DEF Walked
  <2> QED BY <1>1, <2>1, <2>2
<1> QED BY <1>2, <1>3

\* What the format says of the header the walk is at.
LEMMA GoodFits ==
  ASSUME NEW e, NEW ds, EnInv(e, ds), e.pc \in Walking, e.board \in GoodBoards, NEW m, m = MemOf(e)
  PROVE  /\ m[1].type = "fiu" \/ (m[1].type = "private" /\ m[1].ver = 1)
         /\ Fits(e.board, m, e.len, e.i)
<1>1. /\ m \in Seq(Headers) /\ HdrsOf(e, Begun(e)) = m /\ Begun(e) \in 1..Len(Lists(e)) /\ Lists(e)[Begun(e)].bar = e.bar
      /\ Lists(e)[Begun(e)].len = e.len /\ e.i \in 1..Len(m) /\ e.board \in Boards
  BY EnKnown
<1>2. Walked(m, e.len, e.i) /\ Lists(e) # Bad
  BY DEF EnInv, EnHere, EnLists, Walking
<1>3. FollowsFormat(e.board)
  BY DEF GoodBoards
<1>4. DOMAIN Lists(e) = 1..Len(Lists(e))
  BY <1>1, <1>2, ListsOk DEF Lists, ListsApart
<1>5. PICK l : l = Lists(e)[Begun(e)]
  OBVIOUS
<1>6. l \in {find_dfls(e.board)[n] : n \in DOMAIN find_dfls(e.board)}
  BY <1>1, <1>4, <1>5 DEF Lists
<1>7. e.board.bars[l.bar].hdrs = m /\ l.len = e.len
  BY <1>1, <1>5 DEF MemOf
<1>8. /\ m[1].type = "fiu" \/ (m[1].type = "private" /\ m[1].ver = 1)
      /\ \A k \in DOMAIN m : Walked(m, e.len, k) => Fits(e.board, m, e.len, k)
  BY <1>3, <1>6, <1>7 DEF FollowsFormat
<1>9. e.i \in DOMAIN m
  BY <1>1
<1> QED BY <1>2, <1>8, <1>9

\* The walk takes what was found.
LEMMA Took ==
  ASSUME EnIInv, NEW fs, NEW ty, NEW nm \in Nat, TakenOk(en, devs, Mem, fs, ty),
         en' = Advance([en EXCEPT !.type = ty, !.feats = fs, !.num = nm]), UNCHANGED <<devs, cdev>>
  PROVE  EnIInv'
<1>1. EnInv(en, devs) /\ en \in EnT
  BY DEF EnIInv, EnInv
<1>2. Mem = MemOf(en)
  BY DEF Mem, MemOf
<1>3. PICK y : y = [en EXCEPT !.type = ty, !.feats = fs, !.num = nm]
  OBVIOUS
<1>4. y.i = en.i /\ y.len = en.len
  BY <1>1, <1>3 DEF EnT
<1>5. en' = Onward(en, Mem, y)
  BY <1>3, <1>4 DEF Advance, Onward, Hdr
<1>6. EnInv(Onward(en, Mem, y), devs)
  <2>1. PICK e, ds, m : e = en /\ ds = devs /\ m = Mem
    OBVIOUS
  <2>2. EnInv(e, ds) /\ m = MemOf(e) /\ TakenOk(e, ds, m, fs, ty) /\ y = [e EXCEPT !.type = ty, !.feats = fs, !.num = nm]
    BY <1>1, <1>2, <1>3, <2>1
  <2>3. EnInv(Onward(e, m, y), ds)
    BY <2>2, Advances
  <2> QED BY <2>1, <2>3
<1>7. EnInv(en', devs')
  BY <1>5, <1>6
<1>8. en'.pc # "none"
  <2>1. y \in EnT \/ DOMAIN y = DOMAIN en
    BY <1>3
  <2>2. "pc" \in DOMAIN y
    BY <1>1, <1>3 DEF EnT
  <2> QED BY <1>5, <2>2 DEF Onward
<1> QED BY <1>7, <1>8, EnGoesOn

\* What was found is taken, or the enumeration fails: of a good board only for memory.
LEMMA TakesIt ==
  ASSUME EnIInv, NEW c, NEW e, Take(c, e), NEW fs, NEW ty, NEW nm,
         c.ok => TakenOk(en, devs, Mem, fs, ty) /\ nm \in Nat
                 /\ [e EXCEPT !.feats = @ \o c.feats, !.num = @ + Len(c.feats)] = [en EXCEPT !.type = ty, !.feats = fs, !.num = nm],
         ~c.ok => en.board \notin GoodBoards
  PROVE  EnIInv'
<1>1. CASE c.ok /\ en' = Advance([e EXCEPT !.feats = @ \o c.feats, !.num = @ + Len(c.feats)]) /\ UNCHANGED <<devs, cdev>>
  <2>1. en' = Advance([en EXCEPT !.type = ty, !.feats = fs, !.num = nm])
    BY <1>1
  <2> QED BY <1>1, <2>1, Took
<1>2. CASE ~c.ok /\ enumerate_fails("rejected")
  BY <1>2, EnFails
<1>3. CASE enumerate_fails("nomem")
  BY <1>3, EnFails
<1> QED BY <1>1, <1>2, <1>3 DEF Take

\* The walk is at a header of the device that is built, or at the FIU that starts one.
AtHeader(e, m) ==
  e.pc = "fiu" \/ (e.pc = "walk" /\ (m[e.i].type # "fiu" \/ (e.type = NoDev /\ e.base = e.i)))
Known(e, ds, m) ==
  /\ m \in Seq(Headers) /\ e.len \in Nat /\ e.len > 0 /\ e.i \in 1..Len(m) /\ e.base \in 1..e.i /\ e.i \in Nat /\ e.base \in Nat
  /\ Walked(m, e.len, e.i) /\ Lead(m, e.base, e.i)
  /\ e.feats \in Seq(FeatT) /\ FeatsIn(m, e.len, e.base, e.feats)
  /\ \A k \in 1..Len(m) : k < e.i /\ Due(m, e.len, k) => InDevs(ds, e.bar, m, k) \/ Has(e.feats, m, k)
LEMMA AtHeaderKnown ==
  ASSUME NEW e, NEW ds, EnInv(e, ds), NEW m, m = MemOf(e), AtHeader(e, m)
  PROVE  Known(e, ds, m)
<1>0. e.pc \in {"walk", "fiu"} /\ e.pc \in Walking
  BY DEF AtHeader, Walking
<1>1. /\ m \in Seq(Headers) /\ Complete(m, e.len) /\ e.len \in Nat /\ e.i \in Nat /\ e.base \in Nat /\ e.i \in 1..Len(m)
      /\ e.base \in 1..e.i /\ e.pc # "none"
  BY <1>0, EnKnown
<1>2. e \in EnT /\ EnHere(e, m) /\ EnPending(e, m) /\ EnKept(e, m, ds) /\ EnLists(e)
  BY <1>0, <1>1 DEF EnInv
<1>3. e.len > 0 /\ e.feats \in Seq(FeatT)
  BY <1>1, <1>2 DEF Complete, EnT
<1>4. Lead(m, e.base, e.i)
  <2>1. CASE e.base = e.i
    <3>1. (e.base + 1)..e.i = {}
      BY <1>1, <2>1
    <3>2. e.base = 1 \/ m[e.base].type = "fiu"
      BY <1>2 DEF EnHere
    <3> QED BY <1>1, <3>1, <3>2 DEF Lead
  <2>2. CASE e.base # e.i
    <3>1. e.pc = "walk" /\ m[e.i].type # "fiu"
      BY <1>2, <2>2 DEF AtHeader, EnHere
    <3>2. \A j \in (e.base + 1)..e.i : j \in (e.base + 1)..(e.i - 1) \/ j = e.i
      BY <1>1
    <3>3. \A j \in (e.base + 1)..e.i : m[j].type # "fiu"
      BY <1>2, <3>1, <3>2 DEF EnHere
    <3>4. e.base = 1 \/ m[e.base].type = "fiu"
      BY <1>2 DEF EnHere
    <3> QED BY <1>1, <3>3, <3>4 DEF Lead
  <2> QED BY <2>1, <2>2
<1>5. FeatsIn(m, e.len, e.base, e.feats)
  <2>1. CASE e.pc = "walk"
    BY <1>2, <2>1 DEF EnPending
  <2>2. CASE e.pc = "fiu"
    <3>1. e.feats = <<>>
      BY <1>2, <2>2 DEF EnPending, EnLists
    <3> QED BY <3>1, ElemsEmpty DEF FeatsIn
  <2> QED BY <1>0, <2>1, <2>2
<1>6. Walked(m, e.len, e.i)
  BY <1>2 DEF EnHere
<1>7. \A k \in 1..Len(m) : k < e.i /\ Due(m, e.len, k) => InDevs(ds, e.bar, m, k) \/ Has(e.feats, m, k)
  BY <1>2 DEF EnKept, Passed
<1> QED BY <1>1, <1>3, <1>4, <1>5, <1>6, <1>7 DEF Known

\* What a header adds to the device.
LEMMA Adds ==
  ASSUME NEW e, NEW ds, NEW m, AtHeader(e, m), Known(e, ds, m),
         NEW gs \in Seq(FeatT), FeatsIn(m, e.len, e.base, gs), Due(m, e.len, e.i) => Has(gs, m, e.i),
         NEW ty \in DevKinds \cup {NoDev},
         ty = NoDev => e.feats \o gs = <<>> /\ e.base = 1 /\ \A j \in 1..e.i : m[j].type \in {"interface", "other"},
         ty = "port" => m[e.base].type = "fiu" /\ m[e.base].id = "port"
  PROVE  TakenOk(e, ds, m, e.feats \o gs, ty)
<1>1. PICK fs : fs = e.feats \o gs
  OBVIOUS
<1>2. fs \in Seq(FeatT) /\ Elems(fs) = Elems(e.feats) \cup Elems(gs)
  BY <1>1, ElemsConcat DEF Known
<1>3. FeatsIn(m, e.len, e.base, fs)
  BY <1>2 DEF FeatsIn, Known
<1>4. ASSUME NEW k \in 1..Len(m), k <= e.i, Due(m, e.len, k) PROVE InDevs(ds, e.bar, m, k) \/ Has(fs, m, k)
  <2>1. e.i \in Nat /\ Len(m) \in Nat
    BY DEF Known
  <2>2. k < e.i \/ k = e.i
    BY <1>4, <2>1
  <2>3. Has(e.feats, m, k) \/ Has(gs, m, k) => Has(fs, m, k)
    BY <1>2 DEF Has
  <2> QED BY <1>4, <2>2, <2>3 DEF Known
<1>5. \A j \in (e.base + 1)..e.i : m[j].type # "fiu"
  BY DEF Known, Lead
<1>6. e.pc \in {"walk", "fiu"}
  BY DEF AtHeader
<1> QED BY <1>1, <1>2, <1>3, <1>4, <1>5, <1>6 DEF TakenOk

\* A feature in the window is one in the list.
InLen(len, o, size) == o > len \/ size <= len - o
LEMMA FeatFits ==
  ASSUME NEW e, NEW ds, NEW m, Known(e, ds, m), m[e.i].type \in {"fiu", "private"},
         NEW o, o = Ofst(m, e.i) - Ofst(m, e.base), InLen(e.len - Ofst(m, e.base), o, feature_size(m, e.i)),
         NEW f, f = [hdr |-> e.i, kind |-> m[e.i].type, start |-> Ofst(m, e.base) + o, size |-> feature_size(m, e.i), abs |-> m[e.i].ver = 1]
  PROVE  f \in FeatT /\ FeatIn(m, e.len, e.base, f)
<1>1. /\ m \in Seq(Headers) /\ e.len \in Nat /\ e.len > 0 /\ e.i \in 1..Len(m) /\ e.base \in 1..e.i /\ e.i \in Nat /\ e.base \in Nat
      /\ Walked(m, e.len, e.i) /\ Lead(m, e.base, e.i)
  BY DEF Known
<1>2. PICK oi \in Nat, ob \in Nat : oi = Ofst(m, e.i) /\ ob = Ofst(m, e.base) /\ oi < e.len
  <2>1. e.i \in 1..(Len(m) + 1) /\ e.base \in 1..(Len(m) + 1)
    BY <1>1
  <2>2. Ofst(m, e.i) \in Nat /\ Ofst(m, e.base) \in Nat
    BY <1>1, <2>1, OfstIs
  <2> QED BY <1>1, <2>2, ReachedInside
<1>3. PICK s \in Int : s = feature_size(m, e.i)
  BY <1>1, SizeIs
<1>4. oi + s <= e.len
  <2>1. PICK len \in Nat : len = e.len
    BY <1>1
  <2>2. PICK p \in Int : p = o /\ p = oi - ob
    BY <1>2
  <2>3. p > len - ob \/ s <= len - ob - p
    BY <1>2, <1>3, <2>1, <2>2 DEF InLen
  <2>4. oi < len
    BY <1>2, <2>1
  <2>5. oi + s <= len
    BY <2>2, <2>3, <2>4
  <2> QED BY <2>1, <2>5
<1>5. f = [hdr |-> e.i, kind |-> m[e.i].type, start |-> oi, size |-> s, abs |-> m[e.i].ver = 1]
  BY <1>2, <1>3
<1>6. f \in FeatT
  BY <1>1, <1>2, <1>3, <1>5 DEF FeatT
<1> QED BY <1>1, <1>2, <1>3, <1>4, <1>5, <1>6 DEF FeatIn

\* The AFU of a port in the window is in the list, or behind it.
LEMMA AfuFits ==
  ASSUME NEW e, NEW ds, NEW m, Known(e, ds, m), NEW o \in Int, o + Ofst(m, e.base) >= 0,
         NEW size \in Nat, InLen(e.len - Ofst(m, e.base), o, size),
         NEW k \in Nat, NEW f, f = [hdr |-> k, kind |-> "afu", start |-> Ofst(m, e.base) + o, size |-> size, abs |-> FALSE]
  PROVE  f \in FeatT /\ FeatIn(m, e.len, e.base, f)
<1>1. m \in Seq(Headers) /\ e.len \in Nat /\ e.base \in 1..e.i /\ e.i \in 1..Len(m)
  BY DEF Known
<1>2. PICK ob \in Nat : ob = Ofst(m, e.base)
  <2>1. e.base \in 1..(Len(m) + 1)
    BY <1>1
  <2> QED BY <1>1, <2>1, OfstIs
<1>3. f = [hdr |-> k, kind |-> "afu", start |-> ob + o, size |-> size, abs |-> FALSE] /\ ob + o >= 0
  BY <1>2
<1>4. o > e.len - ob \/ size <= e.len - ob - o
  BY <1>2 DEF InLen
<1>5. PICK st \in Int : st = ob + o
  OBVIOUS
<1>6. st + size <= e.len \/ st > e.len
  BY <1>1, <1>2, <1>4, <1>5
<1> QED BY <1>3, <1>5, <1>6 DEF FeatT, FeatIn

\* The offset of the header in the window.
LEMMA InTheWindow ==
  ASSUME NEW e, NEW ds, NEW m, Known(e, ds, m)
  PROVE  /\ Ofst(m, e.base) \in Nat /\ Ofst(m, e.i) \in Nat /\ Ofst(m, e.i) < e.len /\ feature_size(m, e.i) \in Int
         /\ e.base \in 1..Len(m)
<1>1. /\ m \in Seq(Headers) /\ e.len \in Nat /\ e.len > 0 /\ e.i \in 1..Len(m) /\ e.base \in 1..e.i /\ e.i \in Nat /\ e.base \in Nat
      /\ Walked(m, e.len, e.i)
  BY DEF Known
<1>2. e.base \in 1..Len(m) /\ e.base \in 1..(Len(m) + 1)
  BY <1>1
<1>3. Ofst(m, e.base) \in Nat
  BY <1>1, <1>2, OfstIs
<1> QED BY <1>1, <1>2, <1>3, ReachedInside, SizeIs

\* create_feature_instance gives a feature of the list, for every header of a good one.
LEMMA Creates ==
  ASSUME NEW ds, Known(en, ds, Mem), Mem[en.i].type \in {"fiu", "private"},
         NEW o, o = Ofst(Mem, en.i) - Ofst(Mem, en.base), NEW c, c = create_feature_instance(en.base, en.i, o)
  PROVE  /\ c.ok => /\ c.feats \in Seq(FeatT) /\ FeatsIn(Mem, en.len, en.base, c.feats)
                    /\ (Due(Mem, en.len, en.i) => Has(c.feats, Mem, en.i))
         /\ Fits(en.board, Mem, en.len, en.i) => c.ok
         /\ c.ok \in BOOLEAN
<1>0. PICK m, e, len : m = Mem /\ e = en /\ len = en.len
  OBVIOUS
<1>1. Known(e, ds, m) /\ len = e.len
  BY <1>0
<1>2. PICK f : f = [hdr |-> e.i, kind |-> m[e.i].type, start |-> Ofst(m, e.base) + o, size |-> feature_size(m, e.i),
                    abs |-> m[e.i].ver = 1]
  OBVIOUS
<1>3. c.feats = (IF m[e.i].ver = 1 /\ m[e.i].csr = "out" THEN <<>> ELSE <<f>>)
  BY <1>0, <1>2, Zenon DEF create_feature_instance
<1>4. c.ok = (/\ feature_size(m, e.i) # 0 /\ dfh_get_param_size(m[e.i], feature_size(m, e.i))
              /\ InWindow(e.base, o, feature_size(m, e.i))
              /\ (parse_feature_irqs(m[e.i]) \/ (m[e.i].ver = 1 /\ m[e.i].csr = "out")))
  BY <1>0, Zenon DEF create_feature_instance
<1>5. InWindow(e.base, o, feature_size(m, e.i)) = InLen(len - Ofst(m, e.base), o, feature_size(m, e.i))
  BY <1>0 DEF InWindow, InLen
<1>6. ASSUME c.ok
      PROVE  c.feats \in Seq(FeatT) /\ FeatsIn(m, len, e.base, c.feats) /\ (Due(m, len, e.i) => Has(c.feats, m, e.i))
  <2>1. InLen(e.len - Ofst(m, e.base), o, feature_size(m, e.i))
    BY <1>1, <1>4, <1>5, <1>6
  <2>2. m[e.i].type \in {"fiu", "private"} /\ o = Ofst(m, e.i) - Ofst(m, e.base)
    BY <1>0
  <2>3. f \in FeatT /\ FeatIn(m, len, e.base, f)
    BY <1>1, <1>2, <2>1, <2>2, FeatFits
  <2>4. f.hdr = e.i /\ f.kind = m[e.i].type
    BY <1>2
  <2>5. CASE m[e.i].ver = 1 /\ m[e.i].csr = "out"
    <3>1. c.feats = <<>>
      BY <1>3, <2>5, Zenon
    <3>2. <<>> \in Seq(FeatT) /\ FeatsIn(m, len, e.base, <<>>)
      BY ElemsEmpty DEF FeatsIn
    <3>3. ~Due(m, len, e.i)
      BY <2>5 DEF Due
    <3> QED BY <3>1, <3>2, <3>3, Zenon
  <2>6. CASE ~(m[e.i].ver = 1 /\ m[e.i].csr = "out")
    <3>1. c.feats = <<f>>
      BY <1>3, <2>6, Zenon
    <3>2. <<f>> \in Seq(FeatT) /\ Elems(<<f>>) = {f}
      BY <2>3, ElemsOne, Zenon
    <3>3. FeatsIn(m, len, e.base, <<f>>) /\ Has(<<f>>, m, e.i)
      BY <2>3, <2>4, <3>2, Zenon DEF FeatsIn, Has
    <3> QED BY <3>1, <3>2, <3>3, Zenon
  <2> QED BY <2>5, <2>6
<1>7. ASSUME Fits(en.board, m, len, e.i) PROVE c.ok
  <2>1. /\ Ofst(m, e.i) + feature_size(m, e.i) <= len /\ feature_size(m, e.i) # 0 /\ dfh_get_param_size(m[e.i], feature_size(m, e.i))
        /\ m[e.i].irqs.n = 0 \/ m[e.i].irqs.base + m[e.i].irqs.n <= cci_pci_alloc_irq(en.board)
    BY <1>0, <1>7 DEF Fits
  <2>2. PICK oi \in Nat, ob \in Nat, s \in Int : oi = Ofst(m, e.i) /\ ob = Ofst(m, e.base) /\ s = feature_size(m, e.i)
    BY <1>1, InTheWindow
  <2>3. len \in Nat /\ o = oi - ob
    BY <1>0, <1>1, <2>2 DEF Known
  <2>4. s <= len - ob - o
    <3>1. PICK n \in Nat, p \in Int : n = len /\ p = o /\ p = oi - ob
      BY <2>3
    <3>2. oi + s <= n
      BY <2>1, <2>2, <3>1
    <3>3. s <= n - ob - p
      BY <3>1, <3>2
    <3> QED BY <3>1, <3>3
  <2>5. InWindow(e.base, o, feature_size(m, e.i))
    BY <1>5, <2>2, <2>4 DEF InLen
  <2>6. parse_feature_irqs(m[e.i])
    BY <2>1 DEF parse_feature_irqs, dfl_fpga_enum_info
  <2> QED BY <1>4, <2>1, <2>5, <2>6
<1>8. c.ok \in BOOLEAN
  BY <1>4
<1> QED BY <1>0, <1>6, <1>7, <1>8

\* Nothing is known yet of a header that is passed over.
LEMMA PassesOver ==
  ASSUME EnIInv, en.pc = "walk", Hdr.type \in {"afu", "interface", "other"}, Hdr.type = "afu" => en.type # NoDev,
         en' = Advance(en), UNCHANGED <<devs, cdev>>
  PROVE  EnIInv'
<1>0. PICK m, e, ds : m = Mem /\ e = en /\ ds = devs
  OBVIOUS
<1>1. EnInv(e, ds) /\ m = MemOf(e) /\ e.pc = "walk" /\ m[e.i].type \in {"afu", "interface", "other"}
      /\ (m[e.i].type = "afu" => e.type # NoDev)
  BY <1>0 DEF EnIInv, Mem, MemOf, Hdr
<1>2. AtHeader(e, m)
  BY <1>1 DEF AtHeader
<1>3. Known(e, ds, m)
  BY <1>1, <1>2, AtHeaderKnown
<1>4. e \in EnT /\ EnHere(e, m) /\ EnPending(e, m)
  BY <1>1 DEF EnInv, Walking
<1>5. e.type \in DevKinds \cup {NoDev} /\ e.feats \in Seq(FeatT) /\ e.num \in Nat
  BY <1>4 DEF EnT
<1>6. e.feats \o <<>> = e.feats /\ <<>> \in Seq(FeatT)
  BY <1>5
<1>7. FeatsIn(m, e.len, e.base, <<>>)
  BY ElemsEmpty DEF FeatsIn
<1>8. ~Due(m, e.len, e.i)
  BY <1>1 DEF Due
<1>9. e.type = NoDev => e.feats = <<>> /\ e.base = 1 /\ \A j \in 1..e.i : m[j].type \in {"interface", "other"}
  <2>1. SUFFICES ASSUME e.type = NoDev PROVE e.feats = <<>> /\ e.base = 1 /\ \A j \in 1..e.i : m[j].type \in {"interface", "other"}
    OBVIOUS
  <2>2. e.feats = <<>> /\ e.base = 1 /\ \A j \in 1..(e.i - 1) : m[j].type \in {"interface", "other"}
    BY <1>1, <1>4, <2>1 DEF EnHere, EnPending
  <2>3. \A j \in 1..e.i : j \in 1..(e.i - 1) \/ j = e.i
    BY <1>3 DEF Known
  <2> QED BY <1>1, <2>1, <2>2, <2>3
<1>10. e.type = "port" => m[e.base].type = "fiu" /\ m[e.base].id = "port"
  BY <1>1, <1>4 DEF EnHere
<1>11. TakenOk(e, ds, m, e.feats \o <<>>, e.type)
  BY <1>2, <1>3, <1>5, <1>6, <1>7, <1>8, <1>9, <1>10, Adds
<1>12. [e EXCEPT !.type = e.type, !.feats = e.feats, !.num = e.num] = e
  BY <1>4 DEF EnT
<1>13. TakenOk(en, devs, Mem, en.feats, en.type) /\ en.num \in Nat
       /\ en' = Advance([en EXCEPT !.type = en.type, !.feats = en.feats, !.num = en.num])
  BY <1>0, <1>5, <1>6, <1>11, <1>12
<1>14. PICK nm \in Nat : nm = en.num
  BY <1>13
<1>16. PICK fs, ty : fs = en.feats /\ ty = en.type
  OBVIOUS
<1>15. TakenOk(en, devs, Mem, fs, ty) /\ en' = Advance([en EXCEPT !.type = ty, !.feats = fs, !.num = nm])
  BY <1>13, <1>14, <1>16
<1> QED BY <1>15, Took

\* A header of the device that is built, in the state.
LEMMA Here ==
  ASSUME EnIInv, AtHeader(en, Mem)
  PROVE  /\ Known(en, devs, Mem) /\ en \in EnT /\ en.feats \in Seq(FeatT) /\ en.num \in Nat /\ en.type \in DevKinds \cup {NoDev}
         /\ EnHere(en, Mem) /\ EnPending(en, Mem) /\ EnLists(en)
         /\ en.board \in GoodBoards =>
              /\ Mem[1].type = "fiu" \/ (Mem[1].type = "private" /\ Mem[1].ver = 1)
              /\ Fits(en.board, Mem, en.len, en.i)
<1>0. PICK m, e, ds : m = Mem /\ e = en /\ ds = devs
  OBVIOUS
<1>1. EnInv(e, ds) /\ m = MemOf(e) /\ AtHeader(e, m)
  BY <1>0 DEF EnIInv, Mem, MemOf
<1>2. Known(e, ds, m)
  BY <1>1, AtHeaderKnown
<1>3. e.pc \in Walking /\ e.pc # "none"
  BY <1>1 DEF AtHeader, Walking
<1>4. e \in EnT /\ EnHere(e, m) /\ EnPending(e, m) /\ EnLists(e)
  BY <1>1, <1>3 DEF EnInv
<1>5. e.feats \in Seq(FeatT) /\ e.num \in Nat /\ e.type \in DevKinds \cup {NoDev}
  BY <1>4 DEF EnT
<1>6. e.board \in GoodBoards =>
        /\ m[1].type = "fiu" \/ (m[1].type = "private" /\ m[1].ver = 1)
        /\ Fits(e.board, m, e.len, e.i)
  BY <1>1, <1>3, GoodFits
<1> QED BY <1>0, <1>2, <1>4, <1>5, <1>6

\* A private header is a feature of the device the window starts with.
LEMMA PrivateStep == ASSUME EnIInv, parse_feature_private PROVE EnIInv'
<1>1. PICK o, c : /\ o = Ofst(Mem, en.i) - Ofst(Mem, en.base) /\ c = create_feature_instance(en.base, en.i, o)
  OBVIOUS
<1>2. PICK ty : ty = IF Mem[en.base].ver = 1 THEN "priv" ELSE en.type
  OBVIOUS
<1>3. /\ en.pc = "walk" /\ Mem[en.i].type = "private" /\ (Mem[en.base].ver = 1 \/ en.type # NoDev)
      /\ Take(c, [en EXCEPT !.type = IF Mem[en.base].ver = 1 THEN "priv" ELSE @])
  BY <1>1 DEF parse_feature_private, Hdr
<1>4. AtHeader(en, Mem)
  BY <1>3 DEF AtHeader
<1>5. /\ Known(en, devs, Mem) /\ en \in EnT /\ en.feats \in Seq(FeatT) /\ en.num \in Nat /\ en.type \in DevKinds \cup {NoDev}
      /\ EnHere(en, Mem)
      /\ en.board \in GoodBoards => Fits(en.board, Mem, en.len, en.i)
  BY <1>4, Here
<1>6. ty \in DevKinds /\ ty # NoDev
  BY <1>2, <1>3, <1>5 DEF DevKinds, NoDev
<1>7. [en EXCEPT !.type = IF Mem[en.base].ver = 1 THEN "priv" ELSE @] = [en EXCEPT !.type = ty]
  BY <1>2
<1>8. PICK e : e = [en EXCEPT !.type = ty]
  OBVIOUS
<1>9. Take(c, e)
  BY <1>3, <1>7, <1>8
<1>10. e.feats = en.feats /\ e.num = en.num
  BY <1>5, <1>8 DEF EnT
<1>11. /\ c.ok => /\ c.feats \in Seq(FeatT) /\ FeatsIn(Mem, en.len, en.base, c.feats)
                  /\ (Due(Mem, en.len, en.i) => Has(c.feats, Mem, en.i))
       /\ Fits(en.board, Mem, en.len, en.i) => c.ok
  BY <1>1, <1>3, <1>5, Creates
<1>12. PICK fs, nm : fs = en.feats \o c.feats /\ nm = en.num + Len(c.feats)
  OBVIOUS
<1>13. ASSUME c.ok
       PROVE  /\ TakenOk(en, devs, Mem, fs, ty) /\ nm \in Nat
              /\ [e EXCEPT !.feats = @ \o c.feats, !.num = @ + Len(c.feats)] = [en EXCEPT !.type = ty, !.feats = fs, !.num = nm]
  <2>1. ty = "port" => Mem[en.base].type = "fiu" /\ Mem[en.base].id = "port"
    BY <1>2, <1>3, <1>5 DEF EnHere
  <2>2. TakenOk(en, devs, Mem, en.feats \o c.feats, ty)
    BY <1>4, <1>5, <1>6, <1>11, <1>13, <2>1, Adds
  <2>3. nm \in Nat
    BY <1>5, <1>11, <1>12, <1>13
  <2>4. [e EXCEPT !.feats = @ \o c.feats, !.num = @ + Len(c.feats)] = [e EXCEPT !.feats = fs, !.num = nm]
    BY <1>10, <1>12
  <2>5. [e EXCEPT !.feats = fs, !.num = nm] = [en EXCEPT !.type = ty, !.feats = fs, !.num = nm]
    BY <1>8
  <2> QED BY <1>12, <2>2, <2>3, <2>4, <2>5
<1>14. ~c.ok => en.board \notin GoodBoards
  BY <1>5, <1>11
<1> QED BY <1>9, <1>13, <1>14, TakesIt

\* An AFU in the list goes to the port its window starts with.
LEMMA AfuStep == ASSUME EnIInv, parse_feature_afu PROVE EnIInv'
<1>1. en.pc = "walk" /\ Mem[en.i].type = "afu" /\ en.type # NoDev
  BY DEF parse_feature_afu, Hdr
<1>2. CASE en.type # "port"
  <2>1. en' = Advance(en) /\ UNCHANGED <<devs, cdev>>
    BY <1>2 DEF parse_feature_afu
  <2> QED BY <1>1, <2>1, PassesOver DEF Hdr
<1>3. CASE en.type = "port"
  <2>1. PICK o, c : o = Ofst(Mem, en.i) - Ofst(Mem, en.base) /\ c = parse_feature_port_afu(en.base, en.i, o)
    OBVIOUS
  <2>2. Take(c, en)
    BY <1>3, <2>1 DEF parse_feature_afu
  <2>3. AtHeader(en, Mem)
    BY <1>1 DEF AtHeader
  <2>4. /\ Known(en, devs, Mem) /\ en \in EnT /\ en.feats \in Seq(FeatT) /\ en.num \in Nat /\ EnHere(en, Mem)
        /\ en.board \in GoodBoards => Fits(en.board, Mem, en.len, en.i)
    BY <2>3, Here
  <2>5. Mem[en.base].type = "fiu" /\ Mem[en.base].id = "port"
    BY <1>1, <1>3, <2>4 DEF EnHere
  <2>6. PICK m, e, ds, len : m = Mem /\ e = en /\ ds = devs /\ len = en.len
    OBVIOUS
  <2>7. Known(e, ds, m) /\ m \in Seq(Headers) /\ len \in Nat /\ e.i \in Nat /\ len = e.len
    BY <2>4, <2>6 DEF Known
  <2>8. PICK oi \in Nat, ob \in Nat : oi = Ofst(m, e.i) /\ ob = Ofst(m, e.base)
    BY <2>7, InTheWindow
  <2>9. PICK size \in Nat : size = m[e.base].afu.size
    <3>1. m[e.base] \in Headers
      BY <2>7, InTheWindow, ElementOfSeq, Zenon
    <3> QED BY <3>1 DEF Headers
  <2>10. o = oi - ob /\ o \in Int /\ o + ob >= 0
    BY <2>1, <2>6, <2>8
  <2>11. PICK g : g = [hdr |-> e.i, kind |-> "afu", start |-> Ofst(m, e.base) + o, size |-> size, abs |-> FALSE]
    OBVIOUS
  <2>12. c.ok = InLen(len - Ofst(m, e.base), o, size) /\ c.feats = <<g>>
    BY <2>1, <2>6, <2>9, <2>11 DEF parse_feature_port_afu, InWindow, InLen
  <2>13. c.ok => g \in FeatT /\ FeatIn(m, len, e.base, g)
    BY <2>7, <2>8, <2>10, <2>11, <2>12, AfuFits
  <2>14. ~Due(m, len, e.i)
    BY <1>1, <2>6 DEF Due
  <2>15. PICK fs, nm : fs = en.feats \o c.feats /\ nm = en.num + Len(c.feats)
    OBVIOUS
  <2>16. ASSUME c.ok
         PROVE  /\ TakenOk(en, devs, Mem, fs, "port") /\ nm \in Nat
                /\ [en EXCEPT !.feats = @ \o c.feats, !.num = @ + Len(c.feats)] = [en EXCEPT !.type = "port", !.feats = fs, !.num = nm]
    <3>1. <<g>> \in Seq(FeatT) /\ Elems(<<g>>) = {g}
      BY <2>13, <2>16, ElemsOne, Zenon
    <3>2. FeatsIn(m, len, e.base, <<g>>)
      BY <2>13, <2>16, <3>1 DEF FeatsIn
    <3>3. c.feats \in Seq(FeatT) /\ FeatsIn(Mem, en.len, en.base, c.feats)
      BY <2>6, <2>12, <3>1, <3>2
    <3>4. "port" \in DevKinds /\ "port" # NoDev
      BY DEF DevKinds, NoDev
    <3>5. TakenOk(en, devs, Mem, en.feats \o c.feats, "port")
      BY <2>3, <2>4, <2>5, <2>6, <2>14, <3>3, <3>4, Adds
    <3>6. nm \in Nat
      BY <2>4, <2>15, <3>3
    <3>7. [en EXCEPT !.feats = @ \o c.feats, !.num = @ + Len(c.feats)] = [en EXCEPT !.feats = fs, !.num = nm]
      BY <2>15
    <3>8. [en EXCEPT !.feats = fs, !.num = nm] = [en EXCEPT !.type = "port", !.feats = fs, !.num = nm]
      BY <1>3, <2>4 DEF EnT
    <3> QED BY <2>15, <3>5, <3>6, <3>7, <3>8
  <2>17. ASSUME en.board \in GoodBoards PROVE c.ok
    <3>1. Fits(en.board, m, len, e.i)
      BY <2>4, <2>6, <2>17
    <3>2. LastFiu(m, e.i) = e.base
      BY <2>7, LeadIsLast DEF Known
    <3>3. oi + size <= len
      BY <1>1, <2>5, <2>6, <2>8, <2>9, <3>1, <3>2 DEF Fits
    <3>4. size <= len - ob - o
      <4>1. PICK n \in Nat, p \in Int : n = len /\ p = o /\ p = oi - ob
        BY <2>7, <2>10
      <4>2. oi + size <= n
        BY <3>3, <4>1
      <4>3. size <= n - ob - p
        BY <4>1, <4>2
      <4> QED BY <4>1, <4>3
    <3> QED BY <2>8, <2>12, <3>4 DEF InLen
  <2> QED BY <2>2, <2>16, <2>17, TakesIt
<1> QED BY <1>2, <1>3

\* An FIU starts a device, of which it is the first feature.
LEMMA FiuStep == ASSUME ListsLead, EnIInv, fiu_start PROVE EnIInv'
<1>0. PICK m, e, ds, b : m = Mem /\ e = en /\ ds = devs /\ b = Mem[en.base]
  OBVIOUS
<1>1. /\ EnInv(e, ds) /\ m = MemOf(e) /\ (e.pc = "fiu" \/ (e.pc = "walk" /\ m[e.i].type = "fiu" /\ e.type = NoDev))
      /\ e.pc \in Walking /\ e.pc # "none"
  BY <1>0 DEF EnIInv, Mem, MemOf, Hdr, fiu_start, Walking
<1>2. e \in EnT /\ EnHere(e, m) /\ EnLists(e) /\ EnPending(e, m)
  BY <1>1 DEF EnInv
<1>3. e.type = NoDev /\ e.feats = <<>> /\ m[e.i].type = "fiu"
  BY <1>1, <1>2 DEF EnLists, EnPending, EnHere
<1>4. PICK cc, aa, c, x :
        /\ cc = create_feature_instance(en.base, en.base, 0)
        /\ aa = (IF b.id = "port" /\ b.afu.ofst # 0 THEN parse_feature_port_afu(en.base, en.base, b.afu.ofst)
                 ELSE [ok |-> TRUE, feats |-> <<>>])
        /\ c = [ok |-> b.id # "unknown" /\ cc.ok /\ aa.ok, feats |-> cc.feats \o aa.feats]
        /\ x = [en EXCEPT !.type = b.id, !.feats = <<>>, !.num = 0]
  OBVIOUS
<1>5. Take(c, x)
  BY <1>0, <1>4, Zenon DEF fiu_start
<1>6. e.board \in GoodBoards =>
        /\ m[1].type = "fiu" \/ (m[1].type = "private" /\ m[1].ver = 1)
        /\ Fits(e.board, m, e.len, e.i)
  BY <1>1, GoodFits
<1>7. CASE e.base # e.i
  <2>1. e.pc = "walk" /\ e.base = 1 /\ \A j \in 1..(e.i - 1) : m[j].type \in {"interface", "other"}
    BY <1>1, <1>2, <1>3, <1>7 DEF EnHere
  <2>2. 1 \in 1..(e.i - 1)
    BY <1>1, <1>7, <2>1, EnKnown
  <2>3. m[1].type \in {"interface", "other"}
    BY <2>1, <2>2
  <2>4. b.id = "unknown"
    <3>1. /\ e.board \in Boards /\ Begun(e) \in 1..Len(Lists(e)) /\ Lists(e)[Begun(e)].bar = e.bar /\ HdrsOf(e, Begun(e)) = m
      BY <1>1, EnKnown
    <3>2. Lists(e) # Bad
      BY <1>2 DEF EnLists
    <3>3. DOMAIN Lists(e) = 1..Len(Lists(e))
      BY <3>1, <3>2, ListsOk DEF Lists, ListsApart
    <3>4. PICK l : l = Lists(e)[Begun(e)]
      OBVIOUS
    <3>5. l \in {find_dfls(e.board)[n] : n \in DOMAIN find_dfls(e.board)}
      BY <3>1, <3>3, <3>4 DEF Lists
    <3>6. e.board.bars[l.bar].hdrs = m
      BY <3>1, <3>4 DEF HdrsOf
    <3>7. m[1].id = "unknown"
      BY <2>3, <3>1, <3>2, <3>5, <3>6 DEF ListsLead, Lists
    <3> QED BY <1>0, <2>1, <3>7
  <2>5. c.ok = FALSE
    BY <1>4, <2>4
  <2>6. e.board \notin GoodBoards
    BY <1>6, <2>3
  <2>7. enumerate_fails("rejected") \/ enumerate_fails("nomem")
    BY <1>5, <2>5 DEF Take
  <2> QED BY <1>0, <2>6, <2>7, EnFails
<1>8. CASE e.base = e.i
  <2>1. AtHeader(e, m)
    BY <1>1, <1>3, <1>8 DEF AtHeader
  <2>2. Known(e, ds, m)
    BY <1>1, <2>1, AtHeaderKnown
  <2>3. b = m[e.i] /\ b.type = "fiu" /\ b \in Headers
    <3>1. e.i \in 1..Len(m) /\ m \in Seq(Headers)
      BY <2>2 DEF Known
    <3>2. m[e.i] \in Headers
      BY <3>1, ElementOfSeq, Zenon
    <3> QED BY <1>0, <1>3, <1>8, <3>2
  <2>4. b.id \in {"fme", "port", "unknown"} /\ b.afu.ofst \in Nat /\ b.afu.size \in Nat
    BY <2>3 DEF Headers
  <2>5. PICK oi \in Nat, len \in Nat : oi = Ofst(m, e.i) /\ len = e.len /\ oi < len
    BY <2>2, InTheWindow DEF Known
  <2>6. PICK o \in Int : o = 0 /\ o = Ofst(m, e.i) - Ofst(m, e.base)
    BY <1>8, <2>5
  <2>7. cc = create_feature_instance(en.base, en.i, o)
    BY <1>0, <1>4, <1>8, <2>6
  <2>8. Known(en, devs, Mem) /\ Mem[en.i].type \in {"fiu", "private"} /\ o = Ofst(Mem, en.i) - Ofst(Mem, en.base)
    BY <1>0, <1>3, <2>2, <2>6
  <2>9. /\ cc.ok => /\ cc.feats \in Seq(FeatT) /\ FeatsIn(m, len, e.base, cc.feats)
                    /\ (Due(m, len, e.i) => Has(cc.feats, m, e.i))
        /\ Fits(e.board, m, len, e.i) => cc.ok
    <3>1. /\ cc.ok => /\ cc.feats \in Seq(FeatT) /\ FeatsIn(Mem, en.len, en.base, cc.feats)
                      /\ (Due(Mem, en.len, en.i) => Has(cc.feats, Mem, en.i))
          /\ Fits(en.board, Mem, en.len, en.i) => cc.ok
      BY <2>7, <2>8, Creates
    <3> QED BY <1>0, <2>5, <3>1
  <2>10. PICK g : g = [hdr |-> e.base, kind |-> "afu", start |-> Ofst(m, e.base) + b.afu.ofst, size |-> b.afu.size, abs |-> FALSE]
    OBVIOUS
  <2>11. ASSUME b.id = "port", b.afu.ofst # 0
         PROVE  aa.ok = InLen(len - Ofst(m, e.base), b.afu.ofst, b.afu.size) /\ aa.feats = <<g>>
    <3>1. aa = parse_feature_port_afu(en.base, en.base, b.afu.ofst)
      BY <1>4, <2>11
    <3> QED BY <1>0, <2>5, <2>10, <3>1 DEF parse_feature_port_afu, InWindow, InLen
  <2>12. ASSUME ~(b.id = "port" /\ b.afu.ofst # 0) PROVE aa.ok = TRUE /\ aa.feats = <<>>
    BY <1>4, <2>12
  <2>13. ASSUME aa.ok PROVE aa.feats \in Seq(FeatT) /\ FeatsIn(m, len, e.base, aa.feats)
    <3>1. CASE b.id = "port" /\ b.afu.ofst # 0
      <4>1. InLen(e.len - Ofst(m, e.base), b.afu.ofst, b.afu.size) /\ aa.feats = <<g>>
        BY <2>5, <2>11, <2>13, <3>1
      <4>2. b.afu.ofst \in Int /\ b.afu.ofst + Ofst(m, e.base) >= 0 /\ e.base \in Nat
        BY <1>8, <2>2, <2>4, <2>5 DEF Known
      <4>3. g \in FeatT /\ FeatIn(m, e.len, e.base, g)
        BY <2>2, <2>4, <2>10, <4>1, <4>2, AfuFits
      <4>4. <<g>> \in Seq(FeatT) /\ Elems(<<g>>) = {g}
        BY <4>3, ElemsOne, Zenon
      <4>5. FeatsIn(m, len, e.base, <<g>>)
        BY <2>5, <4>3, <4>4 DEF FeatsIn
      <4> QED BY <4>1, <4>4, <4>5
    <3>2. CASE ~(b.id = "port" /\ b.afu.ofst # 0)
      <4>1. aa.feats = <<>>
        BY <2>12, <3>2
      <4>2. <<>> \in Seq(FeatT) /\ FeatsIn(m, len, e.base, <<>>)
        BY ElemsEmpty DEF FeatsIn
      <4> QED BY <4>1, <4>2
    <3> QED BY <3>1, <3>2
  <2>14. PICK gs : gs = cc.feats \o aa.feats
    OBVIOUS
  <2>15. PICK fs, nm : fs = <<>> \o gs /\ nm = 0 + Len(gs)
    OBVIOUS
  <2>16. c.feats = gs /\ c.ok = (b.id # "unknown" /\ cc.ok /\ aa.ok)
    BY <1>4, <2>14
  <2>17. ASSUME c.ok
         PROVE  /\ TakenOk(en, devs, Mem, fs, b.id) /\ nm \in Nat
                /\ [x EXCEPT !.feats = @ \o c.feats, !.num = @ + Len(c.feats)] = [en EXCEPT !.type = b.id, !.feats = fs, !.num = nm]
    <3>1. b.id # "unknown" /\ cc.ok /\ aa.ok
      BY <2>16, <2>17
    <3>2. gs \in Seq(FeatT) /\ Elems(gs) = Elems(cc.feats) \cup Elems(aa.feats)
      BY <2>9, <2>13, <2>14, <3>1, ElemsConcat
    <3>3. FeatsIn(m, e.len, e.base, gs)
      BY <2>5, <2>9, <2>13, <3>1, <3>2 DEF FeatsIn
    <3>4. Due(m, e.len, e.i) => Has(gs, m, e.i)
      BY <2>5, <2>9, <3>1, <3>2 DEF Has
    <3>5. b.id \in DevKinds /\ b.id # NoDev
      BY <2>4, <3>1 DEF DevKinds, NoDev
    <3>6. b.id = "port" => m[e.base].type = "fiu" /\ m[e.base].id = "port"
      BY <1>8, <2>3
    <3>7. TakenOk(e, ds, m, e.feats \o gs, b.id)
      BY <2>1, <2>2, <3>2, <3>3, <3>4, <3>5, <3>6, Adds
    <3>8. fs = e.feats \o gs /\ nm \in Nat
      BY <1>3, <2>15, <3>2
    <3>9. x.feats = <<>> /\ x.num = 0
      BY <1>0, <1>2, <1>4 DEF EnT
    <3>10. [x EXCEPT !.feats = @ \o c.feats, !.num = @ + Len(c.feats)] = [x EXCEPT !.feats = fs, !.num = nm]
      BY <2>15, <2>16, <3>9
    <3>11. [x EXCEPT !.feats = fs, !.num = nm] = [en EXCEPT !.type = b.id, !.feats = fs, !.num = nm]
      BY <1>4
    <3>12. TakenOk(en, devs, Mem, fs, b.id)
      BY <1>0, <3>7, <3>8
    <3> QED BY <3>8, <3>10, <3>11, <3>12
  <2>18. ASSUME en.board \in GoodBoards PROVE c.ok
    <3>1. Fits(e.board, m, len, e.i)
      BY <1>0, <1>6, <2>5, <2>18
    <3>2. b.id # "unknown" /\ (b.id = "port" => oi + b.afu.ofst + b.afu.size <= len)
      BY <2>3, <2>5, <3>1 DEF Fits
    <3>3. aa.ok
      <4>1. CASE b.id = "port" /\ b.afu.ofst # 0
        <5>1. PICK ao \in Nat, sz \in Nat : ao = b.afu.ofst /\ sz = b.afu.size
          BY <2>4
        <5>2. oi + ao + sz <= len
          BY <3>2, <4>1, <5>1
        <5>3. sz <= len - oi - ao
          <6>1. \A p, q, r, n \in Int : p + q + r <= n => r <= n - p - q
            OBVIOUS
          <6> QED BY <5>2, <6>1
        <5>4. InLen(len - Ofst(m, e.base), b.afu.ofst, b.afu.size)
          BY <1>8, <2>5, <5>1, <5>3 DEF InLen
        <5> QED BY <2>11, <4>1, <5>4
      <4>2. CASE ~(b.id = "port" /\ b.afu.ofst # 0)
        BY <2>12, <4>2
      <4> QED BY <4>1, <4>2
    <3> QED BY <2>9, <2>16, <3>1, <3>2, <3>3
  <2> QED BY <1>5, <2>17, <2>18, TakesIt
<1> QED BY <1>7, <1>8

\* No header of a good list fails.
LEMMA FailStep == ASSUME EnIInv, parse_feature_fails PROVE EnIInv'
<1>1. /\ en.pc = "walk" /\ enumerate_fails("rejected")
      /\ \/ TooSmall
         \/ Mem[en.i].type = "afu" /\ en.type = NoDev
         \/ Mem[en.i].type = "private" /\ Mem[en.base].ver = 0 /\ en.type = NoDev
  BY DEF parse_feature_fails, Hdr
<1>2. PICK m, e, ds : m = Mem /\ e = en /\ ds = devs
  OBVIOUS
<1>3. EnInv(e, ds) /\ m = MemOf(e) /\ e.pc = "walk" /\ e.pc \in Walking /\ e.pc # "none"
  BY <1>1, <1>2 DEF EnIInv, Mem, MemOf, Walking
<1>4. EnHere(e, m)
  BY <1>3 DEF EnInv
<1>5. m \in Seq(Headers) /\ e.i \in 1..Len(m) /\ e.i \in Nat /\ e.len \in Nat
  BY <1>3, EnKnown
<1>6. ASSUME e.board \in GoodBoards PROVE FALSE
  <2>1. (m[1].type = "fiu" \/ (m[1].type = "private" /\ m[1].ver = 1)) /\ Fits(e.board, m, e.len, e.i)
    BY <1>3, <1>6, GoodFits
  <2>2. CASE TooSmall
    <3>1. PICK o \in Nat, len \in Nat, s \in Nat : o = Ofst(m, e.i) /\ len = e.len /\ s = DfhSize
      <4>1. e.i \in 1..(Len(m) + 1)
        BY <1>5
      <4>2. Ofst(m, e.i) \in Nat
        BY <1>5, <4>1, OfstIs
      <4> QED BY <1>5, <4>2, EnumAssumption
    <3>2. o + s <= len
      BY <2>1, <3>1 DEF Fits
    <3>3. len - o < s
      BY <1>2, <2>2, <3>1 DEF TooSmall
    <3> QED BY <3>2, <3>3
  <2>3. CASE ~TooSmall
    <3>1. e.type = NoDev /\ (m[e.i].type = "afu" \/ (m[e.i].type = "private" /\ m[e.base].ver = 0))
      BY <1>1, <1>2, <2>3
    <3>2. e.base = 1 /\ \A j \in 1..(e.i - 1) : m[j].type \in {"interface", "other"}
      BY <1>3, <1>4, <3>1 DEF EnHere
    <3>3. e.i = 1
      <4>1. SUFFICES ASSUME e.i # 1 PROVE FALSE
        OBVIOUS
      <4>2. 1 \in 1..(e.i - 1)
        BY <1>5, <4>1
      <4> QED BY <2>1, <3>2, <4>2
    <3> QED BY <2>1, <3>1, <3>2, <3>3
  <2> QED BY <2>2, <2>3
<1> QED BY <1>1, <1>2, <1>6, EnFails

\* Interfaces are parts of the feature before them.
LEMMA OtherStep == ASSUME EnIInv, parse_feature_other PROVE EnIInv'
<1>1. en.pc = "walk" /\ Hdr.type \in {"interface", "other"} /\ en' = Advance(en) /\ UNCHANGED <<devs, cdev>>
  BY DEF parse_feature_other
<1> QED BY <1>1, PassesOver

\* The next list.
LEMMA ListStep == ASSUME EnIInv, parse_feature_list PROVE EnIInv'
<1>1. PICK e, ds : e = en /\ ds = devs
  OBVIOUS
<1>2. PICK x : x = [e EXCEPT !.pc = "walk", !.lists = Tail(e.lists), !.bar = Head(e.lists).bar, !.len = Head(e.lists).len,
                             !.i = 1, !.win = TRUE, !.base = 1]
  OBVIOUS
<1>3. e.pc = "list" /\ e.lists # <<>> /\ EnInv(e, ds)
  BY <1>1 DEF parse_feature_list, EnIInv
<1>4. (en' = x /\ UNCHANGED <<devs, cdev>>) \/ enumerate_fails("nomem")
  BY <1>1, <1>2 DEF parse_feature_list, build_info_prepare
<1>5. CASE en' = x /\ UNCHANGED <<devs, cdev>>
  <2>1. EnInv(x, ds)
    BY <1>2, <1>3, BeginsList
  <2>2. x.pc # "none"
    <3>1. e \in EnT
      BY <1>3 DEF EnInv
    <3> QED BY <1>2, <3>1 DEF EnT
  <2> QED BY <1>1, <1>5, <2>1, <2>2, EnGoesOn
<1>6. CASE enumerate_fails("nomem")
  BY <1>6, EnFails
<1> QED BY <1>4, <1>5, <1>6

\* The device before an FIU is given to its registration.
LEMMA CommitFiuStep == ASSUME EnIInv, parse_feature_fiu PROVE EnIInv'
<1>1. PICK e, ds : e = en /\ ds = devs
  OBVIOUS
<1>2. PICK x : x = [e EXCEPT !.win = FALSE, !.pc = "commit", !.after = "window"]
  OBVIOUS
<1>3. e.pc = "walk" /\ MemOf(e)[e.i].type = "fiu" /\ e.type # NoDev /\ EnInv(e, ds)
  BY <1>1 DEF parse_feature_fiu, EnIInv, Hdr, Mem, MemOf
<1>4. en' = x /\ UNCHANGED <<devs, cdev>>
  BY <1>1, <1>2 DEF parse_feature_fiu, build_info_complete
<1>5. EnInv(x, ds)
  BY <1>2, <1>3, FiuCommits
<1>6. x.pc # "none"
  <2>1. e \in EnT
    BY <1>3 DEF EnInv
  <2> QED BY <1>2, <2>1 DEF EnT
<1> QED BY <1>1, <1>4, <1>5, <1>6, EnGoesOn

\* The window of an FIU.
LEMMA WindowStep == ASSUME EnIInv, fiu_window PROVE EnIInv'
<1>1. PICK e, ds : e = en /\ ds = devs
  OBVIOUS
<1>2. PICK x : x = [e EXCEPT !.pc = "fiu", !.win = TRUE, !.base = e.i]
  OBVIOUS
<1>3. e.pc = "window" /\ EnInv(e, ds)
  BY <1>1 DEF fiu_window, EnIInv
<1>4. (en' = x /\ UNCHANGED <<devs, cdev>>) \/ enumerate_fails("nomem")
  BY <1>1, <1>2 DEF fiu_window, build_info_prepare
<1>5. CASE en' = x /\ UNCHANGED <<devs, cdev>>
  <2>1. EnInv(x, ds)
    BY <1>2, <1>3, WindowOpens
  <2>2. x.pc # "none"
    <3>1. e \in EnT
      BY <1>3 DEF EnInv
    <3> QED BY <1>2, <3>1 DEF EnT
  <2> QED BY <1>1, <1>5, <2>1, <2>2, EnGoesOn
<1>6. CASE enumerate_fails("nomem")
  BY <1>6, EnFails
<1> QED BY <1>4, <1>5, <1>6

\* The last device of a list is given to its registration.
LEMMA ListEndStep == ASSUME EnIInv, parse_feature_list_end PROVE EnIInv'
<1>1. PICK e, ds : e = en /\ ds = devs
  OBVIOUS
<1>2. PICK x : x = [e EXCEPT !.win = FALSE, !.pc = IF e.type = NoDev THEN "list" ELSE "commit", !.after = "list"]
  OBVIOUS
<1>3. e.pc = "end" /\ EnInv(e, ds)
  BY <1>1 DEF parse_feature_list_end, EnIInv
<1>4. en' = x /\ UNCHANGED <<devs, cdev>>
  BY <1>1, <1>2 DEF parse_feature_list_end, build_info_complete
<1>5. EnInv(x, ds)
  BY <1>2, <1>3, ListEnds
<1>6. x.pc # "none"
  <2>1. e \in EnT
    BY <1>3 DEF EnInv
  <2> QED BY <1>2, <2>1 DEF EnT
<1> QED BY <1>1, <1>4, <1>5, <1>6, EnGoesOn

\* A registration; the window was given up before, so that only memory can fail it.
LEMMA CommitStep == ASSUME EnIInv, build_info_commit_dev PROVE EnIInv'
<1>1. PICK e, ds : e = en /\ ds = devs
  OBVIOUS
<1>2. e.pc = "commit" /\ EnInv(e, ds)
  BY <1>1 DEF build_info_commit_dev, EnIInv
<1>3. e \in EnT /\ ~e.win
  BY <1>2 DEF EnInv, EnHere, Walking
<1>4. PICK x : x = [e EXCEPT !.pc = e.after, !.type = NoDev, !.feats = <<>>]
  OBVIOUS
<1>5. PICK nd : nd = [type |-> e.type, bar |-> e.bar, base |-> e.base, num |-> e.num, feats |-> e.feats]
  OBVIOUS
<1>6. PICK dt : dt = Append(ds, nd)
  OBVIOUS
<1>7. \/ en' = x /\ devs' = dt /\ cdev' = [cdev EXCEPT !.fme = @ \/ en.type = "fme"]
      \/ enumerate_fails("nomem")
  BY <1>1, <1>3, <1>4, <1>5, <1>6 DEF build_info_commit_dev, binfo_create_feature_dev_data
<1>8. CASE en' = x /\ devs' = dt /\ cdev' = [cdev EXCEPT !.fme = @ \/ en.type = "fme"]
  <2>1. EnInv(x, dt)
    BY <1>2, <1>4, <1>5, <1>6, Commits
  <2>2. x.pc # "none"
    <3>1. e.after \in {"list", "window"} /\ x.pc = e.after
      BY <1>3, <1>4 DEF EnT
    <3> QED BY <3>1
  <2>3. cdev \in CdevT /\ ~cdev.refused
    BY DEF EnIInv, EnumGoodAccepted, CdevT
  <2>4. PICK f \in BOOLEAN : f = (cdev.fme \/ en.type = "fme")
    BY <2>3, Zenon
  <2>5. cdev' = [cdev EXCEPT !.fme = f]
    BY <1>8, <2>4
  <2>6. cdev' \in CdevT /\ ~cdev'.refused
    BY <2>3, <2>5 DEF CdevT
  <2>7. en'.pc # "none" /\ EnInv(en', devs')
    BY <1>8, <2>1, <2>2
  <2> QED BY <2>6, <2>7 DEF EnIInv, EnumFailedClean, EnumGoodAccepted, CdevT
<1>9. CASE enumerate_fails("nomem")
  BY <1>9, EnFails
<1> QED BY <1>7, <1>8, <1>9

\* The end of the enumeration.
LEMMA FreeStep == ASSUME EnIInv, build_info_free PROVE EnIInv'
<1>1. PICK e, ds : e = en /\ ds = devs
  OBVIOUS
<1>2. PICK x : x = [e EXCEPT !.pc = "done"]
  OBVIOUS
<1>3. e.pc = "list" /\ e.lists = <<>> /\ EnInv(e, ds) /\ en' = x /\ UNCHANGED <<devs, cdev>>
  BY <1>1, <1>2 DEF build_info_free, EnIInv
<1>4. EnInv(x, ds)
  BY <1>2, <1>3, AllWalked
<1>5. x.pc # "none"
  <2>1. e \in EnT
    BY <1>3 DEF EnInv
  <2> QED BY <1>2, <2>1 DEF EnT
<1> QED BY <1>1, <1>3, <1>4, <1>5, EnGoesOn

\* The removal.
LEMMA RemoveStep == ASSUME EnIInv, dfl_fpga_feature_devs_remove PROVE EnIInv'
<1>1. en' = EnOff /\ devs' = <<>> /\ cdev' = CdevOff
  BY DEF dfl_fpga_feature_devs_remove
<1>2. CdevOff \in CdevT /\ ~CdevOff.region /\ ~CdevOff.irqs /\ ~CdevOff.refused
  BY DEF CdevOff, CdevT
<1> QED BY <1>1, <1>2, EnOffInv DEF EnIInv, EnumFailedClean, EnumGoodAccepted, CdevT

\* A walk of no list yet.
LEMMA ProbeInv ==
  ASSUME NEW b \in Boards, find_dfls(b) # Bad, NEW x, x = [EnOff EXCEPT !.pc = "list", !.board = b, !.lists = find_dfls(b)]
  PROVE  EnInv(x, <<>>) /\ x.pc = "list"
<1>1. PICK l : l = find_dfls(b)
  OBVIOUS
<1>2. l \in Seq(ListT) /\ l # Bad /\ Len(l) \in Nat
  BY <1>1, ListsOk DEF ListsApart
<1>3. EnOff \in EnT
  BY EnOffInv DEF EnInv
<1>4. x = [EnOff EXCEPT !.pc = "list", !.board = b, !.lists = l]
  BY <1>1
<1>5. x \in EnT
  BY <1>2, <1>3, <1>4 DEF EnT
<1>6. x.pc = "list" /\ x.board = b /\ x.lists = l /\ x.type = NoDev /\ x.feats = <<>> /\ x.pc \notin Walking
  BY <1>4 DEF EnOff, Walking
<1>7. Lists(x) = l /\ Begun(x) = 0
  BY <1>1, <1>2, <1>6 DEF Lists, Begun
<1>8. EnLists(x)
  BY <1>2, <1>6, <1>7 DEF EnLists
<1>9. Len(<<>>) = 0 /\ <<>> \in Seq(DevT) /\ 1..0 = {}
  OBVIOUS
<1>10. EnDevs(x, <<>>) /\ EnApart(<<>>) /\ EnOrder(x, <<>>)
  BY <1>9 DEF EnDevs, EnApart, EnOrder
<1>11. EnCovered(x, <<>>)
  BY <1>7, <1>9 DEF EnCovered
<1>12. EnPending(x, MemOf(x))
  BY <1>6 DEF EnPending
<1> QED BY <1>5, <1>6, <1>8, <1>9, <1>10, <1>11, <1>12 DEF EnInv

\* The probe of a PCI device, whose lists may be bad.
LEMMA PciProbeStep == ASSUME EnIInv, cci_enumerate_feature_devs PROVE EnIInv'
<1>1. PICK b \in Boards :
        IF find_dfls(b) = Bad THEN cdev' = [CdevOff EXCEPT !.refused = b \in GoodBoards] /\ UNCHANGED en
        ELSE /\ en' = [EnOff EXCEPT !.pc = "list", !.board = b, !.lists = find_dfls(b)]
             /\ cdev' = [CdevOff EXCEPT !.region = TRUE, !.irqs = TRUE]
  BY DEF cci_enumerate_feature_devs, dfl_fpga_enum_info
<1>2. en.pc = "none" /\ devs' = devs /\ EnInv(en, devs)
  BY DEF cci_enumerate_feature_devs, EnIInv
<1>3. devs = <<>>
  BY <1>2 DEF EnInv
<1>4. CASE find_dfls(b) = Bad
  <2>1. (b \in GoodBoards) = FALSE
    BY <1>4 DEF GoodBoards, FollowsFormat
  <2>2. cdev' = [CdevOff EXCEPT !.refused = FALSE] /\ en' = en
    BY <1>1, <1>4, <2>1
  <2>3. cdev' \in CdevT /\ ~cdev'.refused /\ ~cdev'.region /\ ~cdev'.irqs
    BY <2>2 DEF CdevT, CdevOff
  <2> QED BY <1>2, <1>3, <2>2, <2>3 DEF EnIInv, EnumFailedClean, EnumGoodAccepted, CdevT
<1>5. CASE find_dfls(b) # Bad
  <2>1. PICK x : x = [EnOff EXCEPT !.pc = "list", !.board = b, !.lists = find_dfls(b)]
    OBVIOUS
  <2>2. en' = x /\ cdev' = [CdevOff EXCEPT !.region = TRUE, !.irqs = TRUE]
    BY <1>1, <1>5, <2>1
  <2>3. EnInv(x, <<>>) /\ x.pc = "list"
    BY <1>5, <2>1, ProbeInv
  <2>4. cdev' \in CdevT /\ ~cdev'.refused
    BY <2>2 DEF CdevT, CdevOff
  <2> QED BY <1>2, <1>3, <2>2, <2>3, <2>4 DEF EnIInv, EnumFailedClean, EnumGoodAccepted, CdevT
<1> QED BY <1>4, <1>5

\* The probe of a device tree node, whose one list is never bad.
LEMMA NodeProbeStep == ASSUME EnIInv, dfl_platform_enumerate_feature_devs PROVE EnIInv'
<1>1. PICK b \in Boards :
        /\ b.how = "of" /\ en' = [EnOff EXCEPT !.pc = "list", !.board = b, !.lists = find_dfls(b)]
        /\ cdev' = [CdevOff EXCEPT !.region = TRUE]
  BY DEF dfl_platform_enumerate_feature_devs, dfl_fpga_enum_info
<1>2. en.pc = "none" /\ devs' = devs /\ EnInv(en, devs)
  BY DEF dfl_platform_enumerate_feature_devs, EnIInv
<1>3. devs = <<>>
  BY <1>2 DEF EnInv
<1>4. find_dfls(b) # Bad
  <2>1. find_dfls(b) = <<[bar |-> 0, len |-> BarLen(b, 0)]>>
    BY <1>1 DEF find_dfls, dfl_platform_process_dfl_node
  <2>2. NumBars # 0
    BY EnumAssumption
  <2> QED BY <2>1, <2>2 DEF Bad
<1>5. PICK x : x = [EnOff EXCEPT !.pc = "list", !.board = b, !.lists = find_dfls(b)]
  OBVIOUS
<1>6. EnInv(x, <<>>) /\ x.pc = "list"
  BY <1>4, <1>5, ProbeInv
<1>7. cdev' \in CdevT /\ ~cdev'.refused
  BY <1>1 DEF CdevT, CdevOff
<1> QED BY <1>1, <1>2, <1>3, <1>5, <1>6, <1>7 DEF EnIInv, EnumFailedClean, EnumGoodAccepted, CdevT

-----------------------------------------------------------------------------
(* The theorem.                                                            *)

\* The inductive invariant.
LEMMA EnumInv ==
  ASSUME ListsLead
  PROVE  EnumSpec => []EnIInv
<1>1. EnumInit => EnIInv
  <2>1. SUFFICES ASSUME EnumInit PROVE EnIInv
    OBVIOUS
  <2>2. en = EnOff /\ devs = <<>> /\ cdev = CdevOff
    BY <2>1 DEF EnumInit
  <2>3. CdevOff \in CdevT /\ ~CdevOff.region /\ ~CdevOff.irqs /\ ~CdevOff.refused
    BY DEF CdevOff, CdevT
  <2> QED BY <2>2, <2>3, EnOffInv DEF EnIInv, EnumFailedClean, EnumGoodAccepted, CdevT
<1>2. EnIInv /\ [EnumNext]_enum_vars => EnIInv'
  <2>1. SUFFICES ASSUME EnIInv, [EnumNext]_enum_vars PROVE EnIInv'
    OBVIOUS
  <2>2. CASE EnumNext
    BY <2>1, <2>2, PciProbeStep, NodeProbeStep, ListStep, FailStep, CommitFiuStep, WindowStep, FiuStep, PrivateStep, AfuStep,
       OtherStep, ListEndStep, CommitStep, FreeStep, RemoveStep DEF EnumNext
  <2>3. CASE UNCHANGED enum_vars
    BY <2>1, <2>3 DEF enum_vars, EnIInv, EnumFailedClean, EnumGoodAccepted
  <2> QED BY <2>1, <2>2, <2>3
<1> QED BY <1>1, <1>2, PTL DEF EnumSpec

\* A feature of a device, and the list it was found in.
FeatureOf(x, d, f) ==
  d \in 1..Len(devs) /\ x = [dev |-> d, bar |-> devs[d].bar, base |-> devs[d].base, f |-> f] /\ f \in Elems(devs[d].feats)
LEMMA FeatsAre ==
  ASSUME EnInv(en, devs), NEW x
  PROVE  x \in Feats <=> \E d, f : FeatureOf(x, d, f)
<1>1. devs \in Seq(DevT) /\ DOMAIN devs = 1..Len(devs)
  BY DEF EnInv
<1>2. Feats = UNION {{[dev |-> k, bar |-> devs[k].bar, base |-> devs[k].base, f |-> devs[k].feats[j]] : j \in DOMAIN devs[k].feats} :
                k \in 1..Len(devs)}
  BY <1>1 DEF Feats
<1>3. ASSUME x \in Feats PROVE \E d, f : FeatureOf(x, d, f)
  <2>1. PICK k \in 1..Len(devs) :
          x \in {[dev |-> k, bar |-> devs[k].bar, base |-> devs[k].base, f |-> devs[k].feats[j]] : j \in DOMAIN devs[k].feats}
    BY <1>2, <1>3, Zenon
  <2>2. PICK j \in DOMAIN devs[k].feats : x = [dev |-> k, bar |-> devs[k].bar, base |-> devs[k].base, f |-> devs[k].feats[j]]
    BY <2>1, Zenon
  <2>3. PICK f : f = devs[k].feats[j]
    OBVIOUS
  <2>4. FeatureOf(x, k, f)
    BY <2>2, <2>3 DEF FeatureOf, Elems
  <2> QED BY <2>4
<1>4. ASSUME NEW d, NEW f, FeatureOf(x, d, f) PROVE x \in Feats
  <2>1. PICK j \in DOMAIN devs[d].feats : f = devs[d].feats[j]
    BY <1>4 DEF FeatureOf, Elems
  <2>2. x \in {[dev |-> d, bar |-> devs[d].bar, base |-> devs[d].base, f |-> devs[d].feats[jj]] : jj \in DOMAIN devs[d].feats}
    BY <1>4, <2>1 DEF FeatureOf
  <2>3. d \in 1..Len(devs)
    BY <1>4 DEF FeatureOf
  <2> QED BY <1>2, <2>2, <2>3, Zenon
<1> QED BY <1>3, <1>4

FoundIn(x, f, n) ==
  /\ n \in 1..Begun(en) /\ n \in 1..Len(Lists(en)) /\ x.bar = Lists(en)[n].bar /\ FeatIn(HdrsOf(en, n), Lists(en)[n].len, x.base, f)
LEMMA FeatsFound ==
  ASSUME EnInv(en, devs), NEW x, NEW d, NEW f, FeatureOf(x, d, f)
  PROVE  /\ \E n : FoundIn(x, f, n)
         /\ en.pc # "none" /\ x.f = f /\ x.dev = d /\ x.bar = devs[d].bar /\ x.base = devs[d].base
         /\ f \in FeatT
<1>1. d \in 1..Len(devs) /\ x = [dev |-> d, bar |-> devs[d].bar, base |-> devs[d].base, f |-> f] /\ f \in Elems(devs[d].feats)
  BY DEF FeatureOf
<1>2. devs \in Seq(DevT) /\ (en.pc = "none" => devs = <<>>) /\ en \in EnT
  BY DEF EnInv
<1>3. devs # <<>>
  <2>1. 1..Len(<<>>) = {}
    OBVIOUS
  <2> QED BY <1>1, <2>1
<1>4. EnLists(en) /\ EnDevs(en, devs)
  BY <1>2, <1>3 DEF EnInv
<1>5. PICK n \in 1..Begun(en) :
        devs[d].bar = Lists(en)[n].bar /\ FeatsIn(HdrsOf(en, n), Lists(en)[n].len, devs[d].base, devs[d].feats)
  BY <1>1, <1>4 DEF EnDevs
<1>6. n \in 1..Len(Lists(en))
  <2>1. Lists(en) \in Seq(ListT)
    BY <1>4, ListsOk DEF EnLists, Lists, ListsApart
  <2>2. en.lists \in Seq(ListT)
    BY <1>2 DEF EnT
  <2>3. Len(Lists(en)) \in Nat /\ Len(en.lists) \in Nat
    BY <2>1, <2>2
  <2> QED BY <2>3 DEF Begun
<1>7. x.bar = devs[d].bar /\ x.base = devs[d].base /\ x.f = f /\ x.dev = d
  BY <1>1
<1>8. FeatIn(HdrsOf(en, n), Lists(en)[n].len, x.base, f)
  BY <1>1, <1>5, <1>7 DEF FeatsIn
<1>9. f \in FeatT
  <2>1. devs[d] \in DevT
    BY <1>1, <1>2, ElementOfSeq, Zenon
  <2>2. devs[d].feats \in Seq(FeatT)
    BY <2>1 DEF DevT
  <2> QED BY <1>1, <2>2, ElemsIn
<1>10. FoundIn(x, f, n)
  BY <1>5, <1>6, <1>7, <1>8 DEF FoundIn
<1> QED BY <1>2, <1>3, <1>7, <1>9, <1>10

\* Features lie in the lists that were found.
LEMMA InsideHolds == ASSUME EnInv(en, devs) PROVE EnumInside
<1>1. SUFFICES ASSUME NEW x \in Feats
               PROVE  \E l \in {find_dfls(en.board)[k] : k \in DOMAIN find_dfls(en.board)} :
                        /\ l.bar = x.bar /\ x.f.start >= 0
                        /\ x.f.start + x.f.size <= l.len \/ (x.f.kind = "afu" /\ x.f.start > l.len)
  BY DEF EnumInside
<1>2. PICK d, f : FeatureOf(x, d, f)
  BY <1>1, FeatsAre
<1>3. PICK n : FoundIn(x, f, n)
  BY <1>2, FeatsFound
<1>4. en.pc # "none" /\ x.f = f
  BY <1>2, FeatsFound
<1>5. en.board \in Boards /\ Lists(en) # Bad
  BY <1>4 DEF EnInv, EnLists
<1>6. PICK ls : ls = find_dfls(en.board)
  OBVIOUS
<1>7. Lists(en) = ls /\ DOMAIN ls = 1..Len(ls)
  BY <1>5, <1>6, ListsOk DEF Lists, ListsApart
<1>8. PICK l : l = ls[n]
  OBVIOUS
<1>9. l \in {ls[k] : k \in DOMAIN ls}
  BY <1>3, <1>7, <1>8 DEF FoundIn
<1>10. l.bar = x.bar /\ f.start >= 0 /\ (f.start + f.size <= l.len \/ (f.kind = "afu" /\ f.start > l.len))
  BY <1>3, <1>7, <1>8 DEF FoundIn, FeatIn
<1> QED BY <1>4, <1>6, <1>9, <1>10

\* A feature of header k of list n belongs to the device of the last FIU before it.
LEMMA FeatIs ==
  ASSUME EnInv(en, devs), NEW x, NEW d, NEW f, FeatureOf(x, d, f), NEW n \in 1..Len(Lists(en)), x.bar = Lists(en)[n].bar,
         f.kind # "afu", NEW k \in Nat, f.hdr = k
  PROVE  /\ x.base = LastFiu(HdrsOf(en, n), k)
         /\ f = [hdr |-> k, kind |-> f.kind, start |-> Ofst(HdrsOf(en, n), k), size |-> feature_size(HdrsOf(en, n), k),
                 abs |-> (HdrsOf(en, n)[k].ver = 1)]
<1>1. PICK m : FoundIn(x, f, m)
  BY FeatsFound
<1>2. en.pc # "none" /\ f \in FeatT
  BY FeatsFound
<1>3. en.board \in Boards /\ Lists(en) # Bad
  BY <1>2 DEF EnInv, EnLists
<1>4. \A a, c \in 1..Len(Lists(en)) : a # c => Lists(en)[a].bar # Lists(en)[c].bar
  BY <1>3, ListsOk DEF Lists, ListsApart
<1>5. m = n
  BY <1>1, <1>4 DEF FoundIn
<1>6. PICK h : h = HdrsOf(en, n)
  OBVIOUS
<1>7. FeatIn(h, Lists(en)[n].len, x.base, f)
  BY <1>1, <1>5, <1>6 DEF FoundIn
<1>8. Lead(h, x.base, k) /\ f.start = Ofst(h, k) /\ f.size = feature_size(h, k) /\ f.abs = (h[k].ver = 1)
  BY <1>7 DEF FeatIn
<1>9. x.base = LastFiu(h, k)
  BY <1>8, LeadIsLast
<1>10. f = [hdr |-> f.hdr, kind |-> f.kind, start |-> f.start, size |-> f.size, abs |-> f.abs]
  BY <1>2 DEF FeatT
<1>11. f = [hdr |-> k, kind |-> f.kind, start |-> Ofst(h, k), size |-> feature_size(h, k), abs |-> (h[k].ver = 1)]
  BY <1>8, <1>10
<1> QED BY <1>6, <1>9, <1>11

\* Every header that was due is a feature, and a feature tells its header and its device.
LEMMA GroupingHolds == ASSUME EnInv(en, devs) PROVE EnumGrouping
<1>1. SUFFICES ASSUME en.pc = "done" PROVE EnumGrouping
  BY DEF EnumGrouping
<1>2. PICK ls : ls = find_dfls(en.board)
  OBVIOUS
<1>3. EnLists(en) /\ EnApart(devs) /\ EnCovered(en, devs) /\ en \in EnT /\ en.pc \notin Walking
  BY <1>1 DEF EnInv, Walking
<1>4. en.board \in Boards /\ Lists(en) = ls /\ ls # Bad /\ en.lists = <<>>
  BY <1>1, <1>2, <1>3 DEF EnLists, Lists
<1>5. ls \in Seq(ListT) /\ DOMAIN ls = 1..Len(ls) /\ \A n \in 1..Len(ls) : en.board.bars[ls[n].bar].hdrs \in Seq(Headers)
  BY <1>2, <1>4, ListsOk DEF ListsApart
<1>6. Begun(en) = Len(ls)
  BY <1>4, <1>5 DEF Begun
<1> DEFINE H(n) == en.board.bars[ls[n].bar].hdrs
           O(n, k) == Owners(ls[n].bar, H(n), k)
<1>61. SUFFICES ASSUME NEW n \in DOMAIN ls, NEW k \in DOMAIN H(n), Walked(H(n), ls[n].len, k),
                       H(n)[k].type \in {"fiu", "private"}, ~(H(n)[k].ver = 1 /\ H(n)[k].csr = "out")
                PROVE  Cardinality(O(n, k)) = 1 /\ \A x \in O(n, k) : x.base = LastFiu(H(n), k)
  BY <1>1, <1>2, Zenon DEF EnumGrouping
<1>62. PICK h, owners : h = H(n) /\ owners = O(n, k)
  OBVIOUS
<1>7. /\ n \in 1..Len(ls) /\ h = en.board.bars[ls[n].bar].hdrs /\ k \in DOMAIN h /\ Walked(h, ls[n].len, k)
      /\ h[k].type \in {"fiu", "private"} /\ ~(h[k].ver = 1 /\ h[k].csr = "out")
      /\ owners = {x \in Feats : x.bar = ls[n].bar /\ x.f.hdr = k /\ x.f.kind = h[k].type}
  BY <1>5, <1>61, <1>62 DEF Owners
<1>63. SUFFICES Cardinality(owners) = 1 /\ \A x \in owners : x.base = LastFiu(h, k)
  BY <1>62
<1> HIDE DEF H, O
<1>8. h = HdrsOf(en, n) /\ k \in 1..Len(h) /\ k \in Nat
  <2>1. h = HdrsOf(en, n)
    BY <1>2, <1>4, <1>7 DEF HdrsOf
  <2>2. h \in Seq(Headers)
    BY <1>5, <1>7
  <2>3. DOMAIN h = 1..Len(h) /\ Len(h) \in Nat
    BY <2>2
  <2> QED BY <1>7, <2>1, <2>3
<1>9. PICK d \in 1..Len(devs) : devs[d].bar = ls[n].bar /\ Has(devs[d].feats, h, k)
  <2>1. Due(h, ls[n].len, k)
    BY <1>7 DEF Due
  <2>2. InDevs(devs, ls[n].bar, h, k)
    BY <1>3, <1>4, <1>6, <1>8, <2>1 DEF EnCovered
  <2> QED BY <2>2 DEF InDevs
<1>10. PICK f \in Elems(devs[d].feats) : f.hdr = k /\ f.kind = h[k].type
  BY <1>9 DEF Has
<1>11. PICK x : x = [dev |-> d, bar |-> devs[d].bar, base |-> devs[d].base, f |-> f]
  OBVIOUS
<1>12. FeatureOf(x, d, f) /\ x.bar = ls[n].bar /\ x.f = f
  BY <1>9, <1>10, <1>11 DEF FeatureOf
<1>13. x \in owners
  BY <1>7, <1>10, <1>12, FeatsAre
<1>14. f.kind # "afu"
  BY <1>7, <1>10
<1>15. x.base = LastFiu(h, k) /\ f = [hdr |-> k, kind |-> f.kind, start |-> Ofst(h, k), size |-> feature_size(h, k), abs |-> (h[k].ver = 1)]
  BY <1>4, <1>8, <1>10, <1>12, <1>14, FeatIs
<1>16. ASSUME NEW y \in owners PROVE y = x
  <2>1. y \in Feats /\ y.bar = ls[n].bar /\ y.f.hdr = k /\ y.f.kind = h[k].type
    BY <1>7, <1>16
  <2>2. PICK c, g : FeatureOf(y, c, g)
    BY <2>1, FeatsAre
  <2>3. y.f = g /\ y.base = devs[c].base /\ y.bar = devs[c].bar
    BY <2>2, FeatsFound
  <2>4. g.hdr = k /\ g.kind = f.kind /\ g.kind # "afu"
    BY <1>10, <1>14, <2>1, <2>3
  <2>5. y.base = LastFiu(h, k) /\ g = [hdr |-> k, kind |-> g.kind, start |-> Ofst(h, k), size |-> feature_size(h, k), abs |-> (h[k].ver = 1)]
    BY <1>4, <1>8, <2>1, <2>2, <2>4, FeatIs
  <2>6. g = f
    BY <1>15, <2>4, <2>5
  <2>7. c = d
    <3>1. c \in 1..Len(devs) /\ devs[c].bar = ls[n].bar
      BY <2>1, <2>2, <2>3 DEF FeatureOf
    <3>2. devs[c].base = devs[d].base
      BY <1>11, <1>15, <2>3, <2>5
    <3> QED BY <1>3, <1>9, <3>1, <3>2 DEF EnApart
  <2> QED BY <1>11, <2>2, <2>6, <2>7 DEF FeatureOf
<1>17. owners = {x}
  BY <1>13, <1>16
<1>18. Cardinality(owners) = 1
  BY <1>17, FS_Singleton
<1> QED BY <1>15, <1>17, <1>18

\* Enumeration finds every FIU and private feature of a board, once and for its device,
\* names no registers outside of its list but an AFU's behind it, leaves nothing after a
\* failure, and refuses no list that follows the format.
THEOREM EnumIsSound ==
  ASSUME ListsLead
  PROVE  EnumSpec => []EnumSound
<1>1. EnIInv => EnumSound
  BY InsideHolds, GroupingHolds DEF EnIInv, EnumSound
<1> QED BY <1>1, EnumInv, PTL
=============================================================================
