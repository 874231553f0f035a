---------------------------- MODULE OverlayRegions ----------------------------
(***************************************************************************)
(* Device tree regions, the region and bridge frameworks and the bridge    *)
(* drivers.  An overlay that is about to be applied to a region programs   *)
(* the FPGA: region, manager and bridges are taken, the bridges disabled,  *)
(* the image loaded and the bridges enabled; the bridges stay taken until  *)
(* the overlay is removed.  Overlay notifications come one at a time;      *)
(* drivers bind and unbind at any time between two of their steps, and the *)
(* probe that sets its bridge after it has registered it takes two steps.  *)
(***************************************************************************)
EXTENDS Naturals, Sequences

CONSTANTS
  Regions, Bridges,
  BridgeKind,     \* the driver of each bridge
  ParentBridge,   \* the bridge a region's node is under, or NoBridge
  RegionBridges,  \* fpga-bridges of a region
  Overlays        \* [target, fw, ext, childfw, bridges]

NoBridge == "no bridge"
NoRegion == "no region"
Lost == "lost"       \* held by a region that is gone
NoOverlay == [target |-> NoRegion, fw |-> FALSE, ext |-> FALSE, childfw |-> FALSE, bridges |-> <<>>]
BridgeKinds == {"freeze", "hps2fpga", "lwhps2fpga", "fpga2sdram", "decoupler"}

ASSUME RegionAssumption ==
  /\ BridgeKind \in [Bridges -> BridgeKinds]
  /\ ParentBridge \in [Regions -> Bridges \cup {NoBridge}]
  /\ RegionBridges \in [Regions -> Seq(Bridges)]
  /\ NoRegion \notin Regions /\ Lost \notin Regions /\ NoBridge \notin Bridges
  /\ Overlays \subseteq [target : Regions, fw : BOOLEAN, ext : BOOLEAN, childfw : BOOLEAN, bridges : Seq(Bridges)]

VARIABLES
  rg,      \* struct fpga_region: registered, info, bridge_list; and the overlays applied
  br,      \* struct fpga_bridge: registered, holder, info; the hardware; what was last set;
           \* its probe has yet to set it; its probe touched it while a region held it
  remap,   \* l3_remap_shadow and the write only register
  ntf,     \* the notification under way
  mgrlock  \* who has the manager

reg_vars == <<rg, br, remap, ntf, mgrlock>>

NtfIdle == [pc |-> "idle", r |-> NoRegion, ov |-> NoOverlay, todo |-> <<>>, rm |-> FALSE, pbr |-> NoBridge]

RegInit ==
  /\ rg = [r \in Regions |-> [reg |-> FALSE, info |-> FALSE, list |-> <<>>, stack |-> <<>>]]
  /\ br = [b \in Bridges |-> [reg |-> FALSE, lock |-> NoRegion, info |-> NoRegion, hw |-> "on", set |-> "none",
                          probing |-> FALSE, late |-> FALSE]]
  /\ remap = [shadow |-> {}, l3 |-> {b \in Bridges : BridgeKind[b] \in {"hps2fpga", "lwhps2fpga"}}]
  /\ ntf = NtfIdle /\ mgrlock = NoRegion

BrState(on) == IF on THEN "on" ELSE "off"

-----------------------------------------------------------------------------
(* What enable_set of each driver can do: the new bridge and remap, and    *)
(* whether it succeeds.                                                    *)

\* An illegal request or no acknowledgement in time.
altera_freeze_br_req_ack == BOOLEAN
BrResult(b, hw, r, ok) ==
  [b |-> [br[b] EXCEPT !.hw = hw, !.set = IF ok THEN hw ELSE @, !.late = @ /\ ~(ok /\ br[b].reg)],
   remap |-> r, ok |-> ok]

\* Frozen already: done.  Neither frozen nor not: an error.
altera_freeze_br_do_freeze(b) ==
  IF br[b].hw = "off" THEN {BrResult(b, "off", remap, TRUE)}
  ELSE {BrResult(b, IF ack THEN "off" ELSE br[b].hw, remap, ack) :
          ack \in IF br[b].hw = "on" THEN altera_freeze_br_req_ack ELSE {FALSE}}
altera_freeze_br_do_unfreeze(b) ==
  IF br[b].hw = "on" THEN {BrResult(b, "on", remap, TRUE)}
  ELSE {BrResult(b, IF ack THEN "on" ELSE br[b].hw, remap, ack) :
          ack \in IF br[b].hw = "off" THEN altera_freeze_br_req_ack ELSE {FALSE}}
altera_freeze_br_enable_set(b, on) ==
  IF on THEN altera_freeze_br_do_unfreeze(b) ELSE altera_freeze_br_do_freeze(b)

\* The reset, which can fail; then the bridge is shown to the L3 masters or
\* hidden, through a shadow of the register that starts empty.
_alt_hps2fpga_enable_set(b, on) ==
  LET s == IF on THEN remap.shadow \cup {b} ELSE remap.shadow \ {b} IN
  {BrResult(b, BrState(on), [shadow |-> s, l3 |-> s], TRUE), BrResult(b, br[b].hw, remap, FALSE)}

\* Update of the bits of the ports, whose mask is freed with the driver's data
\* when probe fails: then any of them may change, or none.
_alt_fpga2sdram_enable_set(b, on) ==
  {BrResult(b, hw, remap, TRUE) : hw \in IF br[b].reg THEN {BrState(on)} ELSE {"on", "off", "none"}}
    \cup {BrResult(b, br[b].hw, remap, FALSE)}
\* The register needs the clock, which may not come.
xlnx_pr_decoupler_enable_set(b, on) == {BrResult(b, BrState(on), remap, TRUE), BrResult(b, br[b].hw, remap, FALSE)}

fpga_bridge_set(b, on) ==
  CASE BridgeKind[b] = "freeze" -> altera_freeze_br_enable_set(b, on)
    [] BridgeKind[b] \in {"hps2fpga", "lwhps2fpga"} -> _alt_hps2fpga_enable_set(b, on)
    [] BridgeKind[b] = "fpga2sdram" -> _alt_fpga2sdram_enable_set(b, on)
    [] OTHER -> xlnx_pr_decoupler_enable_set(b, on)

fpga_bridge_register(x) ==
  [x EXCEPT !.reg = TRUE, !.lock = NoRegion, !.info = NoRegion, !.probing = FALSE, !.late = FALSE]

\* Registered with what the status register says of it.
altera_freeze_br_probe(b) ==
  /\ BridgeKind[b] = "freeze"
  /\ \E hw \in {"on", "off", "none"} : br' = [br EXCEPT ![b] = [fpga_bridge_register(br[b]) EXCEPT !.hw = hw, !.set = "none"]]
  /\ UNCHANGED remap

\* With the property bridge-enable the bridge is set first; if that fails, or the
\* registration does, the clock is disabled again.
alt_hps2fpga_probe(b) ==
  /\ BridgeKind[b] \in {"hps2fpga", "lwhps2fpga"}
  /\ \/ br' = [br EXCEPT ![b] = fpga_bridge_register(br[b])] /\ UNCHANGED remap
     \/ \E on \in BOOLEAN : \E o \in _alt_hps2fpga_enable_set(b, on) :
          /\ \/ o.ok /\ br' = [br EXCEPT ![b] = fpga_bridge_register(o.b)]
             \/ br' = [br EXCEPT ![b] = o.b]
          /\ remap' = o.remap

\* Here the bridge is registered first, and a region can take it; with the
\* property bridge-enable it has then to be set.
alt_fpga2sdram_probe(b) ==
  /\ BridgeKind[b] = "fpga2sdram"
  /\ \E enable \in BOOLEAN : br' = [br EXCEPT ![b] = [fpga_bridge_register(br[b]) EXCEPT !.probing = enable]]
  /\ UNCHANGED remap

\* It is set without the mutex, held by a region or not, and unregistered when that
\* fails.
alt_fpga2sdram_probe_set(b) ==
  /\ br[b].probing
  /\ \E on \in BOOLEAN : \E o \in _alt_fpga2sdram_enable_set(b, on) :
       br' = [br EXCEPT ![b] = [o.b EXCEPT !.probing = FALSE, !.reg = o.ok, !.late = br[b].lock \in Regions]]
  /\ UNCHANGED <<rg, remap, ntf, mgrlock>>

xlnx_pr_decoupler_probe(b) ==
  /\ BridgeKind[b] = "decoupler"
  /\ br' = [br EXCEPT ![b] = fpga_bridge_register(br[b])]
  /\ UNCHANGED remap

\* (A second probe while a region holds the bridge of a first one that failed would
\* make another struct fpga_bridge: not modelled.)
BridgeProbe(b) ==
  /\ ~br[b].reg /\ br[b].lock \notin Regions
  /\ altera_freeze_br_probe(b) \/ alt_hps2fpga_probe(b) \/ alt_fpga2sdram_probe(b) \/ xlnx_pr_decoupler_probe(b)
  /\ UNCHANGED <<rg, ntf, mgrlock>>

\* By unloading its module: a bridge that is held keeps a reference to it.
fpga_bridge_unregister(b) ==
  /\ br[b].reg /\ br[b].lock = NoRegion /\ ~br[b].probing
  /\ br' = [br EXCEPT ![b].reg = FALSE]
  /\ UNCHANGED <<rg, remap, ntf, mgrlock>>

-----------------------------------------------------------------------------
(* Regions.                                                                *)

\* The manager of the region or of one above it is there, or probe is deferred.
of_fpga_region_probe(r) ==
  /\ ~rg[r].reg /\ rg' = [rg EXCEPT ![r].reg = TRUE, ![r].info = FALSE, ![r].list = <<>>]
  /\ UNCHANGED <<br, remap, ntf, mgrlock>>

BrHeld(r) == {rg[r].list[i] : i \in DOMAIN rg[r].list}

\* While it programs a region is referenced; with an overlay applied it is not, and
\* the bridges it holds are held for ever.
of_fpga_region_remove(r) ==
  /\ rg[r].reg /\ ntf.r # r
  /\ rg' = [rg EXCEPT ![r].reg = FALSE, ![r].info = FALSE, ![r].list = <<>>]
  /\ br' = [b \in Bridges |-> IF b \in BrHeld(r) THEN [br[b] EXCEPT !.lock = Lost] ELSE br[b]]
  /\ UNCHANGED <<remap, ntf, mgrlock>>

fpga_bridge_put(x) == [x EXCEPT !.lock = NoRegion, !.info = NoRegion, !.late = FALSE]
fpga_bridges_put(r) == [b \in Bridges |-> IF b \in BrHeld(r) THEN fpga_bridge_put(br[b]) ELSE br[b]]

\* The ways out on an error: bridges, manager, region; the overlay is rejected.
err_put_br ==
  /\ rg' = [rg EXCEPT ![ntf.r].info = FALSE, ![ntf.r].list = <<>>]
  /\ br' = fpga_bridges_put(ntf.r) /\ mgrlock' = NoRegion /\ ntf' = NtfIdle

\* May an overlay be applied: "reject", "accept" without programming, "program".
of_fpga_region_parse_ov(ov) ==
  IF rg[ov.target].info \/ ov.childfw THEN {"reject"}
  ELSE IF ~ov.fw THEN {"accept"}
  ELSE IF ov.ext THEN {"reject"} ELSE {"program", "reject"}

\* The notification before an overlay is applied; one that targets no region the
\* driver knows is not its business.
of_fpga_region_notify_pre_apply(ov) ==
  /\ ntf.pc = "idle" /\ \A r \in Regions : \A i \in DOMAIN rg[r].stack : rg[r].stack[i] # ov
  /\ LET r == ov.target
         applied == [rg EXCEPT ![r].stack = Append(@, ov)]
     IN  IF ~rg[r].reg THEN rg' = applied /\ UNCHANGED ntf
         ELSE \E what \in of_fpga_region_parse_ov(ov) :
                CASE what = "reject" -> UNCHANGED <<rg, ntf>>
                  [] what = "accept" -> rg' = applied /\ UNCHANGED ntf
                  [] OTHER -> /\ rg' = [rg EXCEPT ![r].info = TRUE]
                              /\ ntf' = [NtfIdle EXCEPT !.pc = "get", !.r = r, !.ov = ov]
  /\ UNCHANGED <<br, remap, mgrlock>>

\* fpga_region_get and fpga_mgr_lock: either is busy, or both are taken.
fpga_region_get ==
  /\ ntf.pc = "get" /\ UNCHANGED <<br, remap>>
  /\ \/ /\ mgrlock' = ntf.r /\ ntf' = [ntf EXCEPT !.pc = "parent"] /\ UNCHANGED rg
     \/ rg' = [rg EXCEPT ![ntf.r].info = FALSE] /\ ntf' = NtfIdle /\ UNCHANGED mgrlock

\* The info is stored before the lock is tried, held by another or not.
of_fpga_bridge_get_to_list(b) ==
  IF ~br[b].reg THEN UNCHANGED <<br, rg>>
  ELSE /\ br' = [br EXCEPT ![b].info = ntf.r, ![b].lock = ntf.r]
       /\ rg' = [rg EXCEPT ![ntf.r].list = <<b>> \o @]

BrBusy(b) == br[b].reg /\ br[b].lock # NoRegion
\* A bridge in use: what was taken is put, the busy one keeps the new info.
BrBusyOut(b) ==
  /\ br' = [fpga_bridges_put(ntf.r) EXCEPT ![b].info = ntf.r]
  /\ rg' = [rg EXCEPT ![ntf.r].info = FALSE, ![ntf.r].list = <<>>]
  /\ mgrlock' = NoRegion /\ ntf' = NtfIdle

\* The bridge the region is under comes first; then the list of the overlay, or
\* the one of the region when the overlay has none.
get_parent_bridge ==
  /\ ntf.pc = "parent" /\ UNCHANGED remap
  /\ LET p == ParentBridge[ntf.r]
         got == p # NoBridge /\ br[p].reg
     IN  IF got /\ BrBusy(p) THEN BrBusyOut(p)
         ELSE /\ IF got THEN of_fpga_bridge_get_to_list(p) ELSE UNCHANGED <<br, rg>>
              /\ ntf' = [ntf EXCEPT !.pc = "bridges", !.pbr = IF got THEN p ELSE NoBridge,
                                    !.todo = IF ntf.ov.bridges # <<>> THEN ntf.ov.bridges ELSE RegionBridges[ntf.r]]
              /\ UNCHANGED mgrlock

\* The next bridge; the parent is skipped, so is a node that is no bridge (yet).
of_fpga_region_get_bridges ==
  /\ ntf.pc = "bridges" /\ ntf.todo # <<>> /\ UNCHANGED remap
  /\ LET b == Head(ntf.todo) IN
     IF b # ntf.pbr /\ BrBusy(b) THEN BrBusyOut(b)
     ELSE /\ IF b = ntf.pbr THEN UNCHANGED <<br, rg>> ELSE of_fpga_bridge_get_to_list(b)
          /\ ntf' = [ntf EXCEPT !.todo = Tail(@)] /\ UNCHANGED mgrlock

got_bridges ==
  /\ ntf.pc = "bridges" /\ ntf.todo = <<>>
  /\ ntf' = [ntf EXCEPT !.pc = "disable", !.todo = rg[ntf.r].list]
  /\ UNCHANGED <<rg, br, remap, mgrlock>>

\* Fault: a bridge that cannot be disabled does not stop the load.
fpga_bridges_disable_Goon ==
  /\ ntf.pc = "disable" /\ ntf.todo # <<>>
  /\ \E o \in fpga_bridge_set(Head(ntf.todo), FALSE) :
       /\ br' = [br EXCEPT ![Head(ntf.todo)] = o.b] /\ remap' = o.remap
       /\ ntf' = [ntf EXCEPT !.todo = Tail(@)] /\ UNCHANGED <<rg, mgrlock>>

\* One bridge after the other; the first failure ends it.  After an overlay was
\* removed nobody looks at it.
fpga_bridges_disable ==
  /\ ntf.pc = "disable" /\ ntf.todo # <<>>
  /\ \E o \in fpga_bridge_set(Head(ntf.todo), FALSE) :
       /\ remap' = o.remap
       /\ IF o.ok \/ ntf.rm
          THEN /\ br' = [br EXCEPT ![Head(ntf.todo)] = o.b]
               /\ ntf' = [ntf EXCEPT !.todo = IF o.ok THEN Tail(@) ELSE <<>>] /\ UNCHANGED <<rg, mgrlock>>
          ELSE err_put_br

fpga_mgr_load_region ==
  /\ ntf.pc = "disable" /\ ntf.todo = <<>> /\ ~ntf.rm
  /\ ntf' = [ntf EXCEPT !.pc = "load"]
  /\ UNCHANGED <<rg, br, remap, mgrlock>>

\* The image is loaded or not.
fpga_mgr_load_returns ==
  /\ ntf.pc = "load" /\ UNCHANGED remap
  /\ \/ ntf' = [ntf EXCEPT !.pc = "enable", !.todo = rg[ntf.r].list] /\ UNCHANGED <<rg, br, mgrlock>>
     \/ err_put_br

fpga_bridges_enable ==
  /\ ntf.pc = "enable" /\ ntf.todo # <<>>
  /\ \E o \in fpga_bridge_set(Head(ntf.todo), TRUE) :
       /\ remap' = o.remap
       /\ IF o.ok THEN /\ br' = [br EXCEPT ![Head(ntf.todo)] = o.b]
                       /\ ntf' = [ntf EXCEPT !.todo = Tail(@)] /\ UNCHANGED <<rg, mgrlock>>
          ELSE err_put_br

\* Success: the manager and the region are given back, the bridges stay taken.
fpga_region_program_fpga ==
  /\ ntf.pc = "enable" /\ ntf.todo = <<>>
  /\ rg' = [rg EXCEPT ![ntf.r].stack = Append(@, ntf.ov)]
  /\ mgrlock' = NoRegion /\ ntf' = NtfIdle
  /\ UNCHANGED <<br, remap>>

\* Overlays with one target are removed in the reverse order.
of_fpga_region_notify_post_remove(r) ==
  /\ ntf.pc = "idle" /\ rg[r].stack # <<>>
  /\ rg' = [rg EXCEPT ![r].stack = SubSeq(@, 1, Len(@) - 1)]
  /\ ntf' = IF rg[r].reg THEN [NtfIdle EXCEPT !.pc = "disable", !.r = r, !.rm = TRUE, !.todo = rg[r].list] ELSE ntf
  /\ UNCHANGED <<br, remap, mgrlock>>

remove_put ==
  /\ ntf.pc = "disable" /\ ntf.todo = <<>> /\ ntf.rm
  /\ br' = fpga_bridges_put(ntf.r)
  /\ rg' = [rg EXCEPT ![ntf.r].info = FALSE, ![ntf.r].list = <<>>]
  /\ ntf' = NtfIdle /\ UNCHANGED <<remap, mgrlock>>

\* The data of a driver whose probe failed is freed and its device has no driver:
\* to enable, disable or put the bridge a region has of it can end the notification.
bridge_oops ==
  /\ ntf.pc \in {"bridges", "disable", "load", "enable"}
  /\ \E b \in BrHeld(ntf.r) : ~br[b].reg
  /\ ntf' = [ntf EXCEPT !.pc = "oops"]
  /\ UNCHANGED <<rg, br, remap, mgrlock>>

RegNext ==
  \/ \E b \in Bridges : BridgeProbe(b) \/ alt_fpga2sdram_probe_set(b) \/ fpga_bridge_unregister(b)
  \/ \E r \in Regions : of_fpga_region_probe(r) \/ of_fpga_region_remove(r) \/ of_fpga_region_notify_post_remove(r)
  \/ \E ov \in Overlays : of_fpga_region_notify_pre_apply(ov)
  \/ fpga_region_get \/ get_parent_bridge \/ of_fpga_region_get_bridges \/ got_bridges
  \/ fpga_bridges_disable \/ fpga_mgr_load_region \/ fpga_mgr_load_returns \/ fpga_bridges_enable
  \/ fpga_region_program_fpga \/ remove_put \/ bridge_oops

RegSpec == RegInit /\ [][RegNext]_reg_vars

-----------------------------------------------------------------------------
(* Properties.                                                             *)

\* The bridges a region holds are the ones in its list, and it holds some only
\* with an overlay applied or being applied: every way out of programming, and the
\* removal of the overlay, gives all of them back.
RegHeldListed ==
  \A r \in Regions :
    /\ BrHeld(r) = {b \in Bridges : br[b].lock = r}
    /\ ~rg[r].info /\ ntf.r # r => rg[r].list = <<>>

\* While the image is loaded no bridge of the region passes traffic, whatever
\* the driver of the bridge found and however often loads failed before.  Excepted
\* is a bridge that its own probe set, or left without a driver, after the region
\* had taken it: the mutex of the bridge does not keep the probe out.
RegLoadIsolated == ntf.pc = "load" => \A b \in BrHeld(ntf.r) : br[b].hw = "off" \/ br[b].late

\* A region with its overlay applied has all its bridges enabled, with the same
\* exception.
RegAppliedUp ==
  \A r \in Regions : ntf.r # r /\ rg[r].info => \A b \in BrHeld(r) : br[b].hw = "on" \/ br[b].late

\* Between notifications nobody is left with the manager.
RegManagerFree == ntf.pc = "idle" => mgrlock = NoRegion

\* The bridges the drivers enabled are visible to the L3 masters and the ones they
\* disabled are not, also after others used the same write only register.
HpsL3Exact ==
  \A b \in Bridges : BridgeKind[b] \in {"hps2fpga", "lwhps2fpga"} /\ br[b].set # "none" =>
    (b \in remap.l3 <=> br[b].set = "on")

\* Taken together: a region is isolated while it changes, connected while its
\* overlay is applied, and holds nothing otherwise, but for a bridge whose probe has
\* not ended when the region takes it.
RegionIsolation == RegHeldListed /\ RegLoadIsolated /\ RegAppliedUp /\ RegManagerFree /\ HpsL3Exact
=============================================================================
