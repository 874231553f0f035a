---------------------------- MODULE MCProgramming ---------------------------
(***************************************************************************)
(* From the lists in a device's memory to a programmed FPGA: enumeration,  *)
(* the binding of feature devices, overlays on regions, the manager        *)
(* framework and the managers.  Each behaviour exercises one of them.      *)
(***************************************************************************)
EXTENDS SerialManagers, Stratix10Mgr, ZynqMgr, SocfpgaMgr, CreditManagers, OverlayRegions, DflEnum, DflBus, TLC

CONSTANT Units
VARIABLE unit   \* the part a behaviour exercises

-----------------------------------------------------------------------------
(* Managers: images in fragments, with and without a header.               *)
MCImages ==
  {[ends |-> <<1, 3>>, hdr |-> 2, data |-> 4],
   [ends |-> <<2, 4>>, hdr |-> 1, data |-> 3],
   [ends |-> <<2>>, hdr |-> 2, data |-> 0],
   [ends |-> <<1, 2, 3>>, hdr |-> 1, data |-> 2]}

\* For the drivers with a concurrency of their own: one user, one image.
Narrow == mgr'.refs \subseteq {"u1"} /\ load'.image.hdr < 2 /\ load'.image.data < 3 /\ load'.src # "fw"

\* Buffers are only compared for equality: while none is known to the driver or to
\* the service layer, one choice of the first two is enough.
Unknown == svc.pool = {} /\ \A k \in DOMAIN svc.queue : svc.queue[k].buf = NoBuf
FirstChoice == Unknown => svc'.pool \in {{}, {"b1", "b2"}} /\ slot'[1].buf # "b2"

s10_own == <<s10, slot, svc>>
zynq_own == <<zq, pcap>>
soc_own == <<soc, fab>>
cred_own == <<cvp, pre>>

-----------------------------------------------------------------------------
(* Regions: a base region with a bridge above it, and two with bridges.    *)
MCKind == [bA |-> "freeze", bB |-> "hps2fpga", bC |-> "lwhps2fpga", bD |-> "fpga2sdram", bE |-> "decoupler"] 
MCBridges == DOMAIN MCKind
MCParent == [r1 |-> "bA", r2 |-> NoBridge]
MCRegBridges == [r1 |-> <<"bB">>, r2 |-> <<"bD", "bE">>]
Own == [target |-> "r2", fw |-> TRUE, ext |-> FALSE, childfw |-> FALSE, bridges |-> <<>>]
MCOverlays == {Own,
  [target |-> "r1", fw |-> TRUE, ext |-> FALSE, childfw |-> FALSE, bridges |-> <<>>],
  [target |-> "r2", fw |-> TRUE, ext |-> FALSE, childfw |-> FALSE, bridges |-> <<"bC", "bB">>],
  [target |-> "r2", fw |-> FALSE, ext |-> TRUE, childfw |-> FALSE, bridges |-> <<>>]}
\* Both regions, which share bB.
RegNarrow ==
  /\ \A b \in {"bC", "bD", "bE"} : (br'[b].reg # br[b].reg) => ~br[b].reg /\ (\A r \in Regions : ~rg[r].reg)
  /\ \A r \in Regions : rg'[r].reg # rg[r].reg => (\A b \in {"bC", "bD", "bE"} : br[b].reg)
  /\ ~br'["bD"].probing /\ ntf'.ov # Own
\* One region with bridges of its own, one of them set by its probe at any time.
OwnNarrow == rg'["r1"] = rg["r1"] /\ \A b \in {"bA", "bB", "bC"} : br'[b] = br[b]

-----------------------------------------------------------------------------
(* Enumeration: boards that follow the format, boards that break it, and   *)
(* every list of three headers.                                            *)
Hd == [type |-> "private", id |-> "unknown", ver |-> 0, next |-> 2, eol |-> FALSE, csr |-> "rel", params |-> 0,
       irqs |-> [base |-> 0, n |-> 0], afu |-> [ofst |-> 0, size |-> 0]]
Fme == [Hd EXCEPT !.type = "fiu", !.id = "fme"]
Port(o, s) == [Hd EXCEPT !.type = "fiu", !.id = "port", !.afu = [ofst |-> o, size |-> s]]
Eol(h) == [h EXCEPT !.eol = TRUE]
Irq(h, b, n) == [h EXCEPT !.irqs = [base |-> b, n |-> n]]
Iface == [Hd EXCEPT !.type = "interface"]
Afu == [Hd EXCEPT !.type = "afu"]
V1 == [Hd EXCEPT !.ver = 1]
Bar(len, hs) == [len |-> len, hdrs |-> hs]
NoBar == Bar(0, <<>>)
Bars(a, b) == 0 :> a @@ 1 :> b
P(bar, off) == [imp |-> TRUE, skip |-> FALSE, bar |-> bar, off |-> off]
E1(bar, off) == [bar |-> bar, off |-> off]
NamedBoards == <<
  \* FME with features and an interface, its port in BAR 1 with an AFU
  [how |-> "default", entries |-> <<P(0, 0), [P(1, 0) EXCEPT !.imp = FALSE], P(1, 0)>>,
   bars |-> Bars(Bar(8, <<Fme, Irq(Hd, 0, 1), Iface, Eol(Hd)>>), Bar(12, <<Port(6, 4), Irq(Hd, 1, 1), Eol(Hd)>>))],
  \* one list of an FME and a port that follows it
  [how |-> "of", entries |-> <<>>, bars |-> Bars(Bar(10, <<Fme, Hd, Port(4, 2), Eol(Hd)>>), NoBar)],
  \* a virtual function: a port whose AFU is in the list
  [how |-> "default", entries |-> <<>>, bars |-> Bars(Bar(8, <<Port(0, 2), Hd, Eol(Afu)>>), NoBar)],
  \* two lists, the second one of version 1
  [how |-> "vsec", entries |-> <<E1(0, 0), E1(1, 2)>>,
   bars |-> Bars(Bar(6, <<Fme, Afu, Eol(Hd)>>), Bar(10, <<V1, [V1 EXCEPT !.csr = "out"], Eol([V1 EXCEPT !.params = 1])>>))],
  \* nothing to enumerate
  [how |-> "default", entries |-> <<>>, bars |-> Bars(Bar(4, <<Eol(Afu)>>), NoBar)],
  \* from here on, boards that break the format
  [how |-> "default", entries |-> <<P(2, 0)>>, bars |-> Bars(Bar(4, <<Fme, Eol(Hd)>>), NoBar)],
  [how |-> "vsec", entries |-> <<E1(0, 0), E1(0, 2)>>, bars |-> Bars(Bar(4, <<Fme, Eol(Hd)>>), NoBar)],
  \* the list reaches over its BAR, with room for part of a header
  [how |-> "of", entries |-> <<>>, bars |-> Bars(Bar(5, <<Fme, Hd, Eol(Hd)>>), NoBar)],
  \* a feature behind the second FIU is longer than what is left
  [how |-> "of", entries |-> <<>>, bars |-> Bars(Bar(10, <<Fme, Hd, Port(0, 0), Eol([Hd EXCEPT !.next = 6])>>), NoBar)],
  \* an interrupt that does not exist; a private feature and an AFU of no device; interfaces without end
  [how |-> "default", entries |-> <<>>, bars |-> Bars(Bar(4, <<Fme, Eol(Irq(Hd, 2, 1))>>), NoBar)],
  [how |-> "of", entries |-> <<>>, bars |-> Bars(Bar(4, <<Hd, Eol(Hd)>>), NoBar)],
  [how |-> "of", entries |-> <<>>, bars |-> Bars(Bar(4, <<[Hd EXCEPT !.type = "other"], Eol(Afu)>>), NoBar)],
  [how |-> "of", entries |-> <<>>, bars |-> Bars(Bar(6, <<Fme, Hd, Iface>>), NoBar)],
  \* the AFU a port names is behind the end of the list, and is accepted
  [how |-> "default", entries |-> <<>>, bars |-> Bars(Bar(4, <<Eol(Port(6, 4))>>), NoBar)],
  \* the AFU a port names is not inside of the list; a type that is not known
  [how |-> "default", entries |-> <<>>, bars |-> Bars(Bar(4, <<Eol(Port(2, 4))>>), NoBar)],
  [how |-> "of", entries |-> <<>>, bars |-> Bars(Bar(4, <<Eol([Fme EXCEPT !.id = "unknown"])>>), NoBar)],
  [how |-> "default", entries |-> <<>>, bars |-> Bars(Bar(4, <<Eol(Iface)>>), NoBar)] >>
\* Every list of three such headers, in memory that may end within the last one.
Kinds == {Fme, Port(0, 0), Port(2, 2), Hd, [Hd EXCEPT !.next = 4], Iface, Afu, V1, [Hd EXCEPT !.type = "other"]}
ListBoards == {[how |-> "of", entries |-> <<>>, bars |-> Bars(Bar(len, <<a, b, Eol(c)>>), NoBar)] :
               a \in Kinds, b \in Kinds, c \in Kinds, len \in 5..7}
MCBoards == {NamedBoards[k] : k \in DOMAIN NamedBoards} \cup ListBoards
\* The first boards follow the format, and no board has a first header that is mistaken.
ASSUME MCBoardsAssumption == ListsLead /\ \A k \in 1..5 : NamedBoards[k] \in {b \in MCBoards : FollowsFormat(b)}

-----------------------------------------------------------------------------
(* The bus: one feature device of each kind.                               *)
F(id, g, h) == [id |-> id, guid |-> g, hdr |-> h]
MCFKind == [fme |-> "fme", port |-> "port", priv |-> "priv"]
MCFDevs == DOMAIN MCFKind
MCFFeats == [fme |-> <<F(254, NoGuid, TRUE), F(4, NoGuid, FALSE), F(12, NoGuid, FALSE)>>,
             port |-> <<F(254, NoGuid, TRUE), F(16, NoGuid, FALSE)>>,
             priv |-> <<F(12, "g1", FALSE), F(13, "g2", FALSE)>>]
I(id, g) == [id |-> id, guid |-> g]
MCFDrvs == [fme |-> <<{I(254, NoGuid)}, {I(4, NoGuid)}>>, port |-> <<{I(254, NoGuid)}, {I(18, NoGuid), I(16, NoGuid)}>>, priv |-> <<>>]
MCDflDrvs == [d1 |-> {[type |-> "fme", id |-> 12, guid |-> NoGuid]},
              d2 |-> {[type |-> "priv", id |-> 13, guid |-> NoGuid], [type |-> "fme", id |-> 0, guid |-> "g1"]}]

-----------------------------------------------------------------------------
managers == <<mgr_vars, sm, s10_own, zynq_own, soc_own, cred_own>>
platform == <<reg_vars, enum_vars, bus_vars>>

MCInit ==
  /\ unit \in Units
  /\ SerInit /\ S10Init /\ ZynqInit /\ SocInit /\ CredInit /\ RegInit /\ EnumInit /\ BusInit

MCNext ==
  /\ UNCHANGED unit
  /\ \/ unit = "any" /\ AnyDriver /\ UNCHANGED <<platform, sm, s10_own, zynq_own, soc_own, cred_own>>
     \/ unit = "serial" /\ SerNext /\ UNCHANGED <<platform, s10_own, zynq_own, soc_own, cred_own>>
     \/ unit = "s10" /\ S10Next /\ Narrow /\ FirstChoice /\ UNCHANGED <<platform, sm, zynq_own, soc_own, cred_own>>
     \/ unit = "zynq" /\ ZynqNext /\ Narrow /\ UNCHANGED <<platform, sm, s10_own, soc_own, cred_own>>
     \/ unit = "soc" /\ SocNext /\ Narrow /\ UNCHANGED <<platform, sm, s10_own, zynq_own, cred_own>>
     \/ unit = "credit" /\ CredNext /\ Narrow /\ UNCHANGED <<platform, sm, s10_own, zynq_own, soc_own>>
     \/ unit = "regions" /\ RegNext /\ RegNarrow /\ UNCHANGED <<managers, enum_vars, bus_vars>>
     \/ unit = "own" /\ RegNext /\ OwnNarrow /\ UNCHANGED <<managers, enum_vars, bus_vars>>
     \/ unit = "enum" /\ EnumNext /\ UNCHANGED <<managers, reg_vars, bus_vars>>
     \/ unit = "bus" /\ BusNext /\ UNCHANGED <<managers, reg_vars, enum_vars>>

MCSpec == MCInit /\ [][MCNext]_<<unit, managers, platform>>
=============================================================================
