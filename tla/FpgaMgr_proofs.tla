--------------------------- MODULE FpgaMgr_proofs ---------------------------
(***************************************************************************)
(* Proofs about the FPGA manager framework, for any users, images and      *)
(* header sizes and a driver whose operations may each fail: a load is     *)
(* exclusive, shows the driver its header, hands over exactly the data,    *)
(* and the state shown afterwards is true.  And about managers under the   *)
(* framework: the serial ones, whose loads succeed only when the device    *)
(* confirms, those that push data against credits, those that wait for an  *)
(* interrupt, the one whose interrupt handler feeds a DMA engine, and the  *)
(* one whose buffers go to a service layer and come back with callbacks.   *)
(***************************************************************************)
EXTENDS
  SerialManagers, CreditManagers, SocfpgaMgr, ZynqMgr, Stratix10Mgr,
  SequenceTheorems, WellFoundedInduction, TLAPS

Images == MgrImages \cup {NoImage}
LoadPcs ==
  {"none", "fw", "buf", "prepare_sg", "parse_mapped", "parse_sg", "write_init", "write", "write_complete"}
LoadType ==
  [pc : LoadPcs, user : MgrUsers \cup {NoUser}, src : Sources, image : Images, partial : BOOLEAN, hdr : Nat,
   data : Nat, seen : Nat, pos : Nat, sent : Nat, dirty : BOOLEAN, ret : {"none", "ok", "err"}]

MgrTyped ==
  /\ mgr \in [reg : BOOLEAN, ops : MgrOps, state : FpgaMgrStates,
              lock : MgrUsers \cup {NoUser}, refs : SUBSET MgrUsers]
  /\ load \in LoadType

\* Whoever holds the lock has a reference, and a load runs for the holder.
MgrHeld ==
  /\ mgr.lock # NoUser => mgr.lock \in mgr.refs
  /\ mgr.refs # {} => mgr.reg
  /\ load.pc # "none" => load.user # NoUser /\ mgr.lock = load.user

\* Operating is shown only of a device no load has touched since one went to its end.
MgrClean == mgr.state = "operating" => ~load.dirty

\* Before the first write: nothing is sent, and the path fits the driver and the source.
MgrPrepares ==
  /\ load.pc \in {"fw", "buf"} => load.src # "sg"
  /\ load.pc \in {"prepare_sg", "parse_sg"} => ~Mapped
  /\ load.pc \in {"fw", "buf", "prepare_sg", "parse_mapped", "parse_sg"} => load.data = 0
  /\ load.pc \in {"fw", "buf", "prepare_sg", "parse_mapped", "parse_sg", "write_init"} => load.sent = 0
  /\ load.pc = "write_init" => load.hdr <= load.seen

\* The header is a part of the image, and so is the data that is taken from a mapping.
MgrFits ==
  /\ load.pc = "write_init" => load.hdr <= Total(load.image)
  /\ load.pc \in {"write_init", "write"} /\ Mapped => load.hdr + load.data <= Total(load.image)

\* All that is to be sent is sent.
SentAll == ~mgr.ops.sg => load.sent = IF load.data > 0 /\ load.data <= LoadRest THEN load.data ELSE LoadRest

\* Between two writes the driver has everything from the start of the data up to the
\* position, and neither the image nor the declared data is at its end.
MgrSends ==
  /\ load.pc = "write" =>
       /\ load.pos = LoadFrom + load.sent
       /\ mgr.ops.sg \/ Mapped => load.sent = 0 /\ LoadFrom <= Total(load.image)
       /\ ~(mgr.ops.sg \/ Mapped) =>
            load.pos < Total(load.image) /\ (load.data > 0 => load.sent < load.data)
  /\ load.pc = "write_complete" \/ LoadDone => SentAll

MgrIInv == MgrTyped /\ MgrHeld /\ MgrClean /\ MgrPrepares /\ MgrFits /\ MgrSends

-----------------------------------------------------------------------------
\* The fragments of an image end one after the other, the last one where the image ends.
LEMMA ImageIs ==
  ASSUME NEW im \in Images
  PROVE  /\ Range(im.ends) \subseteq Nat /\ Total(im) \in Range(im.ends) /\ im.hdr \in Nat /\ im.data \in Nat
         /\ im.ends[1] \in Nat /\ im.ends[1] <= Total(im) /\ Total(im) \in Nat
<1>1. /\ im.ends \in Seq(Nat) /\ im.ends # <<>> /\ im.hdr \in Nat /\ im.data \in Nat
      /\ \A i, j \in 1..Len(im.ends) : i < j => im.ends[i] < im.ends[j]
  <2>1. CASE im \in MgrImages
    BY <2>1, MgrAssumption
  <2>2. CASE im = NoImage
    BY <2>2 DEF NoImage
  <2> QED BY <2>1, <2>2 DEF Images
<1>2. Len(im.ends) \in Nat /\ Len(im.ends) >= 1 /\ DOMAIN im.ends = 1..Len(im.ends)
  BY <1>1
<1>3. \A i \in 1..Len(im.ends) : im.ends[i] \in Nat
  BY <1>1
<1>4. im.ends[1] <= im.ends[Len(im.ends)]
  <2>1. CASE Len(im.ends) = 1
    BY <1>2, <1>3, <2>1
  <2>2. CASE Len(im.ends) # 1
    BY <1>1, <1>2, <1>3, <2>2
  <2> QED BY <2>1, <2>2
<1> QED BY <1>1, <1>2, <1>3, <1>4 DEF Range, Total

\* A position inside of the image is in a fragment, which ends behind it and in the image.
LEMMA FragEndIs ==
  ASSUME NEW im \in Images, NEW p \in Nat, p < Total(im)
  PROVE  FragEnd(im, p) \in Nat /\ p < FragEnd(im, p) /\ FragEnd(im, p) <= Total(im)
<1> DEFINE T == {e \in Range(im.ends) : e > p}
<1>1. T \subseteq Nat /\ Total(im) \in T /\ T # {}
  BY ImageIs
<1>2. PICK e \in T : \A d \in T : ~(<<d, e>> \in OpToRel(<, Nat))
  BY <1>1, NatLessThanWellFounded, WFMin
<1>3. e \in Range(im.ends) /\ e > p /\ \A d \in Range(im.ends) : d > p => e <= d
  <2> SUFFICES ASSUME NEW d \in Range(im.ends), d > p PROVE e <= d
    OBVIOUS
  <2>1. d \in Nat /\ e \in Nat /\ d \in T
    BY <1>1, ImageIs
  <2>2. ~(d < e)
    BY <1>2, <2>1 DEF OpToRel
  <2> QED BY <2>1, <2>2
<1>4. /\ FragEnd(im, p) \in Range(im.ends) /\ FragEnd(im, p) > p
      /\ \A d \in Range(im.ends) : d > p => FragEnd(im, p) <= d
  BY <1>3 DEF FragEnd
<1> QED BY <1>1, <1>4, ImageIs
\* A step of the load changes the state and the load: the lock and the operations stay.
LEMMA LoadMoves ==
  ASSUME MgrIInv, load.pc # "none", NEW s \in FpgaMgrStates, NEW l \in LoadType, l.user = load.user,
         mgr' = [mgr EXCEPT !.state = s], load' = l, s = "operating" => ~l.dirty
  PROVE  MgrTyped' /\ MgrHeld' /\ MgrClean' /\ mgr'.ops = mgr.ops
<1>1. /\ mgr'.reg = mgr.reg /\ mgr'.ops = mgr.ops /\ mgr'.lock = mgr.lock /\ mgr'.refs = mgr.refs
      /\ mgr'.state = s
  BY DEF MgrIInv, MgrTyped
<1>2. MgrTyped'
  BY DEF MgrIInv, MgrTyped
<1> QED BY <1>1, <1>2 DEF MgrIInv, MgrHeld, MgrClean

\* A load that fails leaves nothing to say but that the state it shows is true.
LEMMA LoadFails ==
  ASSUME MgrIInv, load.pc # "none", NEW s \in FpgaMgrStates, s = "operating" => mgr.state = "operating",
         MgrFails(s)
  PROVE  MgrIInv'
<1> DEFINE l == [load EXCEPT !.pc = "none", !.ret = "err"]
<1>1. mgr' = [mgr EXCEPT !.state = s] /\ load' = l
  BY DEF MgrFails, MgrState
<1>2. /\ l \in LoadType /\ l.pc = "none" /\ l.ret = "err" /\ l.user = load.user /\ l.dirty = load.dirty
  BY DEF MgrIInv, MgrTyped, LoadType, LoadPcs
<1> HIDE DEF l
<1>3. MgrTyped' /\ MgrHeld' /\ MgrClean'
  BY <1>1, <1>2, LoadMoves DEF MgrIInv, MgrClean
<1> QED BY <1>1, <1>2, <1>3 DEF MgrIInv, MgrPrepares, MgrFits, MgrSends, LoadDone

\* The load goes on to prepare, without having touched the device.
LEMMA LoadGoes ==
  ASSUME MgrIInv, load.pc \in {"fw", "buf"}, NEW pc \in {"buf", "prepare_sg", "parse_mapped"},
         MgrGoto(pc, mgr.state), pc = "prepare_sg" => ~mgr.ops.write
  PROVE  MgrIInv'
<1> DEFINE l == [load EXCEPT !.pc = pc]
<1>1. mgr' = [mgr EXCEPT !.state = mgr.state] /\ load' = l /\ mgr.state \in FpgaMgrStates
  BY DEF MgrIInv, MgrTyped, MgrGoto, MgrState
<1>2. /\ l \in LoadType /\ l.pc = pc /\ l.user = load.user /\ l.dirty = load.dirty /\ l.src = load.src
      /\ l.data = load.data /\ l.sent = load.sent
  BY DEF MgrIInv, MgrTyped, LoadType, LoadPcs
<1> HIDE DEF l
<1>3. MgrTyped' /\ MgrHeld' /\ MgrClean' /\ mgr'.ops = mgr.ops
  BY <1>1, <1>2, LoadMoves DEF MgrIInv, MgrClean
<1> QED BY <1>1, <1>2, <1>3 DEF MgrIInv, MgrPrepares, MgrFits, MgrSends, LoadDone, Mapped

\* fpga_mgr_write_init_buf with a header that is there.
LEMMA WriteInitBufKeeps ==
  ASSUME MgrIInv, load.pc \in {"prepare_sg", "parse_mapped", "parse_sg"},
         NEW hdr \in Nat, NEW data \in Nat, NEW count \in Nat,
         hdr <= count => hdr <= Total(load.image), Mapped => hdr + data <= Total(load.image),
         fpga_mgr_write_init_buf(hdr, data, count)
  PROVE  MgrIInv'
<1>1. CASE hdr > count
  BY <1>1, LoadFails DEF fpga_mgr_write_init_buf, FpgaMgrStates
<1>2. CASE ~(hdr > count)
  <2> DEFINE seen == IF hdr = 0 THEN 0 ELSE count
             l == [load EXCEPT !.pc = "write_init", !.hdr = hdr, !.data = data, !.seen = seen]
  <2>1. mgr' = [mgr EXCEPT !.state = "write init"] /\ load' = l
    BY <1>2 DEF fpga_mgr_write_init_buf, MgrState
  <2>2. seen \in Nat /\ hdr <= seen
    BY <1>2
  <2> HIDE DEF seen
  <2>3. /\ l \in LoadType /\ l.pc = "write_init" /\ l.hdr = hdr /\ l.data = data /\ l.seen = seen
        /\ l.user = load.user /\ l.src = load.src /\ l.image = load.image /\ l.sent = load.sent
    BY <2>2 DEF MgrIInv, MgrTyped, LoadType, LoadPcs
  <2> HIDE DEF l
  <2>4. MgrTyped' /\ MgrHeld' /\ MgrClean' /\ mgr'.ops = mgr.ops
    BY <2>1, <2>3, LoadMoves DEF FpgaMgrStates
  <2>5. load.sent = 0
    BY DEF MgrIInv, MgrPrepares
  <2>6. MgrPrepares' /\ MgrSends'
    BY <2>1, <2>2, <2>3, <2>5 DEF MgrPrepares, MgrSends, LoadDone
  <2>7. MgrFits'
    <3>1. load'.hdr = hdr /\ load'.data = data /\ load'.image = load.image /\ (Mapped' <=> Mapped)
      BY <2>1, <2>3, <2>4 DEF Mapped
    <3>2. hdr <= Total(load.image)
      BY <1>2
    <3>3. Total(load.image)' = Total(load.image)
      BY <3>1 DEF Total
    <3> QED BY <3>1, <3>2, <3>3 DEF MgrFits
  <2> QED BY <2>4, <2>6, <2>7 DEF MgrIInv
<1> QED BY <1>1, <1>2

\* What the driver's parse_header may answer.
LEMMA ParseIs ==
  ASSUME MgrIInv, NEW count \in Nat, NEW p \in ParseHeader(count)
  PROVE  p.ret \in {"ok", "again", "err"} /\ p.hdr \in Nat /\ p.data \in Nat
<1>1. load.hdr \in Nat /\ load.data \in Nat /\ load.image.hdr \in Nat /\ load.image.data \in Nat
  BY ImageIs DEF MgrIInv, MgrTyped, LoadType
<1> QED BY <1>1 DEF ParseHeader

\* The header is parsed from the mapping, which has to hold header and data.
LEMMA ParseMappedKeeps ==
  ASSUME MgrIInv, fpga_mgr_parse_header_mapped
  PROVE  MgrIInv'
<1> DEFINE count == Total(load.image)
<1>1. count \in Nat /\ load.pc = "parse_mapped"
  BY ImageIs DEF MgrIInv, MgrTyped, LoadType, fpga_mgr_parse_header_mapped
<1>2. PICK p \in ParseHeader(count) :
        IF p.ret # "ok" \/ p.hdr + p.data > count THEN MgrFails("parse header error")
        ELSE fpga_mgr_write_init_buf(p.hdr, p.data, count)
  BY DEF fpga_mgr_parse_header_mapped
<1>3. p.hdr \in Nat /\ p.data \in Nat
  BY <1>1, ParseIs
<1>4. CASE MgrFails("parse header error")
  BY <1>1, <1>4, LoadFails DEF FpgaMgrStates
<1>5. CASE p.hdr + p.data <= count /\ fpga_mgr_write_init_buf(p.hdr, p.data, count)
  BY <1>1, <1>3, <1>5, WriteInitBufKeeps
<1>6. p.hdr + p.data > count \/ p.hdr + p.data <= count
  BY <1>1, <1>3
<1> QED BY <1>2, <1>4, <1>5, <1>6

\* The copy of a header that does not fit the first fragment begins, or grows.
LEMMA ParseGrows ==
  ASSUME MgrIInv, load.pc \in {"prepare_sg", "parse_sg"}, NEW hdr \in Nat, NEW seen \in Nat,
         NEW s \in FpgaMgrStates, s = "operating" => mgr.state = "operating",
         MgrState(s), load' = [load EXCEPT !.pc = "parse_sg", !.hdr = hdr, !.seen = seen]
  PROVE  MgrIInv'
<1> DEFINE l == [load EXCEPT !.pc = "parse_sg", !.hdr = hdr, !.seen = seen]
<1>1. mgr' = [mgr EXCEPT !.state = s] /\ load' = l
  BY DEF MgrState
<1>2. /\ l \in LoadType /\ l.pc = "parse_sg" /\ l.user = load.user /\ l.dirty = load.dirty /\ l.src = load.src
      /\ l.data = load.data /\ l.sent = load.sent
  BY DEF MgrIInv, MgrTyped, LoadType, LoadPcs
<1> HIDE DEF l
<1>3. MgrTyped' /\ MgrHeld' /\ MgrClean' /\ mgr'.ops = mgr.ops
  BY <1>1, <1>2, LoadMoves DEF MgrIInv, MgrClean
<1> QED BY <1>1, <1>2, <1>3 DEF MgrIInv, MgrPrepares, MgrFits, MgrSends, LoadDone, Mapped

\* fpga_mgr_prepare_sg: the short path, the first fragment, or the beginning of a copy.
LEMMA PrepareSgKeeps ==
  ASSUME MgrIInv, fpga_mgr_prepare_sg
  PROVE  MgrIInv'
<1> DEFINE first == load.image.ends[1]
<1>1. /\ load.pc = "prepare_sg" /\ ~Mapped /\ load.data = 0 /\ load.hdr \in Nat
      /\ first \in Nat /\ first <= Total(load.image) /\ Total(load.image) \in Nat
  BY ImageIs DEF MgrIInv, MgrTyped, LoadType, MgrPrepares, fpga_mgr_prepare_sg
<1>2. ASSUME NEW p, p.ret \in {"ok", "again", "err"}, p.hdr \in Nat, p.data \in Nat, ParseSgFirst(p, first)
      PROVE  MgrIInv'
  <2>1. CASE p.ret = "ok"
    <3>1. fpga_mgr_write_init_buf(p.hdr, p.data, first)
      BY <1>2, <2>1 DEF ParseSgFirst
    <3> QED BY <1>1, <1>2, <3>1, WriteInitBufKeeps
  <2>2. CASE p.ret = "again"
    <3>1. MgrState("parse header") /\ load' = [load EXCEPT !.pc = "parse_sg", !.hdr = p.hdr, !.seen = 0]
      BY <1>2, <2>2 DEF ParseSgFirst
    <3>2. 0 \in Nat /\ "parse header" \in FpgaMgrStates
      BY DEF FpgaMgrStates
    <3> QED BY <1>1, <1>2, <3>1, <3>2, ParseGrows
  <2>3. CASE p.ret = "err"
    <3>1. MgrFails("parse header error")
      BY <1>2, <2>3 DEF ParseSgFirst
    <3> QED BY <1>1, <3>1, LoadFails DEF FpgaMgrStates
  <2> QED BY <1>2, <2>1, <2>2, <2>3
<1>3. CASE fpga_mgr_write_init_buf(0, load.data, 0)
  BY <1>1, <1>3, WriteInitBufKeeps
<1>4. CASE \E p \in ParseHeader(first) : ParseSgFirst(p, first)
  BY <1>1, <1>2, <1>4, ParseIs
<1>5. CASE ParseSgFirst([ret |-> "again", hdr |-> load.hdr, data |-> 0], first)
  BY <1>1, <1>2, <1>5
<1> QED BY <1>3, <1>4, <1>5 DEF fpga_mgr_prepare_sg

\* One round of the copy.
LEMMA ParseSgKeeps ==
  ASSUME MgrIInv, fpga_mgr_parse_header_sg
  PROVE  MgrIInv'
<1>1. load.pc = "parse_sg" /\ ~Mapped /\ load.hdr \in Nat /\ Total(load.image) \in Nat
  BY ImageIs DEF MgrIInv, MgrTyped, LoadType, MgrPrepares, fpga_mgr_parse_header_sg
<1>2. CASE MgrFails("parse header error")
  BY <1>1, <1>2, LoadFails DEF FpgaMgrStates
<1> DEFINE Round(p) ==
             CASE p.ret = "ok" -> fpga_mgr_write_init_buf(p.hdr, p.data, load.hdr)
               [] p.ret = "again" -> UNCHANGED mgr /\ load' = [load EXCEPT !.hdr = p.hdr, !.seen = load.hdr]
               [] OTHER -> MgrFails("parse header error")
<1> HIDE DEF Round
<1>3. ASSUME ~(load.hdr > Total(load.image)), NEW p \in ParseHeader(load.hdr), Round(p) PROVE MgrIInv'
  <2>1. p.ret \in {"ok", "again", "err"} /\ p.hdr \in Nat /\ p.data \in Nat
    BY <1>1, ParseIs
  <2>2. CASE p.ret = "ok"
    <3>1. fpga_mgr_write_init_buf(p.hdr, p.data, load.hdr)
      BY <1>3, <2>2 DEF Round
    <3>2. load.hdr <= Total(load.image)
      BY <1>1, <1>3
    <3>3. p.hdr <= load.hdr => p.hdr <= Total(load.image)
      BY <1>1, <2>1, <3>2
    <3> QED BY <1>1, <2>1, <3>1, <3>3, WriteInitBufKeeps
  <2>3. CASE p.ret = "again"
    <3>1. UNCHANGED mgr /\ load' = [load EXCEPT !.hdr = p.hdr, !.seen = load.hdr]
      BY <1>3, <2>3 DEF Round
    <3>2. /\ MgrState(mgr.state) /\ mgr.state \in FpgaMgrStates
          /\ load' = [load EXCEPT !.pc = "parse_sg", !.hdr = p.hdr, !.seen = load.hdr]
      BY <1>1, <3>1 DEF MgrState, MgrIInv, MgrTyped, LoadType
    <3> QED BY <1>1, <2>1, <3>2, ParseGrows
  <2>4. CASE p.ret = "err"
    <3>1. MgrFails("parse header error")
      BY <1>3, <2>4 DEF Round
    <3> QED BY <1>2, <3>1
  <2> QED BY <2>1, <2>2, <2>3, <2>4
<1> QED BY <1>2, <1>3 DEF fpga_mgr_parse_header_sg, Round
\* All data is handed over: the load goes to its end or to write_complete.
LEMMA CompleteKeeps ==
  ASSUME MgrIInv, load.pc # "none", NEW l \in LoadType, l.user = load.user,
         ~mgr.ops.sg => LET rest == Total(l.image) - (IF mgr.ops.skip THEN l.hdr ELSE 0)
                        IN  l.sent = IF l.data > 0 /\ l.data <= rest THEN l.data ELSE rest,
         EnterComplete(l)
  PROVE  MgrIInv'
<1> DEFINE k == IF mgr.ops.complete THEN [l EXCEPT !.pc = "write_complete"]
                ELSE [l EXCEPT !.pc = "none", !.ret = "ok", !.dirty = FALSE]
           s == IF mgr.ops.complete THEN "write complete" ELSE "operating"
<1>1. mgr' = [mgr EXCEPT !.state = s] /\ load' = k
  BY DEF EnterComplete, MgrState
<1>2. /\ k \in LoadType /\ k.pc \in {"write_complete", "none"} /\ k.user = l.user /\ k.hdr = l.hdr
      /\ k.data = l.data /\ k.sent = l.sent /\ k.image = l.image
      /\ s \in FpgaMgrStates /\ (s = "operating" => ~k.dirty)
  BY DEF LoadType, LoadPcs, FpgaMgrStates
<1> HIDE DEF k, s
<1>3. MgrTyped' /\ MgrHeld' /\ MgrClean' /\ mgr'.ops = mgr.ops
  BY <1>1, <1>2, LoadMoves
<1>4. SentAll'
  BY <1>1, <1>2, <1>3 DEF SentAll, LoadRest, LoadFrom
<1> QED BY <1>1, <1>2, <1>3, <1>4 DEF MgrIInv, MgrPrepares, MgrFits, MgrSends

\* The end of write_init: the data begins behind a header that is skipped.
LEMMA MgrWriteInitKeeps ==
  ASSUME MgrIInv, NEW ok \in BOOLEAN, MgrWriteInit(ok)
  PROVE  MgrIInv'
<1> DEFINE from == IF mgr.ops.skip THEN load.hdr ELSE 0
           l == [load EXCEPT !.pc = "write", !.dirty = TRUE, !.pos = from]
           total == Total(load.image)
<1>1. /\ load.pc = "write_init" /\ load \in LoadType /\ load.sent = 0 /\ load.hdr <= total /\ total \in Nat
      /\ load.hdr \in Nat /\ load.data \in Nat /\ from \in Nat /\ from <= total /\ from <= load.hdr
  <2>1. load.pc = "write_init"
    BY DEF MgrWriteInit
  <2>2. load \in LoadType /\ load.sent = 0 /\ load.hdr <= total
    BY <2>1 DEF MgrIInv, MgrTyped, MgrPrepares, MgrFits
  <2>3. load.hdr \in Nat /\ load.data \in Nat /\ total \in Nat
    BY <2>2, ImageIs DEF LoadType
  <2> QED BY <2>1, <2>2, <2>3
<1> HIDE DEF total
<1>2. /\ l \in LoadType /\ l.pc = "write" /\ l.pos = from /\ l.user = load.user /\ l.hdr = load.hdr
      /\ l.data = load.data /\ l.sent = 0 /\ l.image = load.image /\ l.src = load.src
  <2> HIDE DEF from
  <2> QED BY <1>1 DEF LoadType, LoadPcs
<1> HIDE DEF l
<1>3. CASE ~ok
  <2> DEFINE k == [l EXCEPT !.pc = "none", !.ret = "err"]
  <2>1. mgr' = [mgr EXCEPT !.state = "write init error"] /\ load' = k
    BY <1>3 DEF MgrWriteInit, MgrState, l
  <2>2. k \in LoadType /\ k.pc = "none" /\ k.ret = "err" /\ k.user = load.user
    BY <1>2 DEF LoadType, LoadPcs
  <2> HIDE DEF k
  <2>3. MgrTyped' /\ MgrHeld' /\ MgrClean'
    BY <1>1, <2>1, <2>2, LoadMoves DEF FpgaMgrStates
  <2> QED BY <2>1, <2>2, <2>3 DEF MgrIInv, MgrPrepares, MgrFits, MgrSends, LoadDone
<1>4. CASE ok /\ (mgr.ops.sg \/ Mapped \/ from < total)
  <2>1. mgr' = [mgr EXCEPT !.state = "write"] /\ load' = l
    BY <1>4 DEF MgrWriteInit, MgrState, l, total
  <2>2. MgrTyped' /\ MgrHeld' /\ MgrClean' /\ mgr'.ops = mgr.ops
    BY <1>1, <1>2, <2>1, LoadMoves DEF FpgaMgrStates
  <2>3. (Mapped' <=> Mapped) /\ LoadFrom' = from /\ Total(load.image)' = total
    BY <1>2, <2>1, <2>2 DEF Mapped, LoadFrom, Total, total
  <2>4. MgrPrepares' /\ MgrFits'
    BY <1>1, <1>2, <2>1, <2>3 DEF MgrIInv, MgrPrepares, MgrFits, total
  <2>5. MgrSends'
    BY <1>1, <1>2, <1>4, <2>1, <2>2, <2>3 DEF MgrSends, LoadDone
  <2> QED BY <2>2, <2>4, <2>5 DEF MgrIInv
<1>5. CASE ok /\ ~(mgr.ops.sg \/ Mapped \/ from < total)
  <2>1. from = total
    BY <1>1, <1>5
  <2>2. ~(from > Total(load.image)) /\ ~(from < Total(load.image))
    BY <1>1, <2>1 DEF total
  <2>3. EnterComplete(l)
    BY <1>5, <2>2 DEF MgrWriteInit, l
  <2>4. Total(l.image) - (IF mgr.ops.skip THEN l.hdr ELSE 0) = 0
    BY <1>1, <1>2, <2>1 DEF total
  <2> QED BY <1>1, <1>2, <2>3, <2>4, CompleteKeeps
<1> QED BY <1>3, <1>4, <1>5

\* The piece the driver is given reaches to the end of what is to be sent, or to the
\* end of the fragment.
LEMMA ChunkIs ==
  ASSUME MgrIInv, load.pc = "write"
  PROVE  /\ MgrChunk \in Nat
         /\ mgr.ops.sg => MgrChunk = LoadRest
         /\ ~mgr.ops.sg /\ Mapped => MgrChunk = IF load.data > 0 THEN load.data ELSE LoadRest
         /\ ~mgr.ops.sg /\ ~Mapped =>
              /\ MgrChunk > 0 /\ load.pos + MgrChunk <= Total(load.image)
              /\ load.data > 0 => load.sent + MgrChunk <= load.data
<1> DEFINE total == Total(load.image)
<1>1. /\ total \in Nat /\ load.pos \in Nat /\ load.sent \in Nat /\ load.data \in Nat /\ load.hdr \in Nat
      /\ load.image \in Images
  BY ImageIs DEF MgrIInv, MgrTyped, LoadType
<1>2. /\ load.pos = LoadFrom + load.sent /\ LoadFrom \in Nat
      /\ mgr.ops.sg \/ Mapped => load.sent = 0 /\ LoadFrom <= total
      /\ ~(mgr.ops.sg \/ Mapped) => load.pos < total /\ (load.data > 0 => load.sent < load.data)
  BY <1>1 DEF MgrIInv, MgrSends, LoadFrom
<1> HIDE DEF total
<1>3. CASE mgr.ops.sg
  <2>1. MgrChunk = total - load.pos
    BY <1>3 DEF MgrChunk, total
  <2> QED BY <1>1, <1>2, <1>3, <2>1 DEF LoadRest, total
<1>4. CASE ~mgr.ops.sg /\ Mapped
  <2>1. MgrChunk = IF load.data > 0 THEN load.data ELSE total - load.pos
    BY <1>4 DEF MgrChunk, total
  <2> QED BY <1>1, <1>2, <1>4, <2>1 DEF LoadRest, total
<1>5. CASE ~mgr.ops.sg /\ ~Mapped
  <2> DEFINE end == FragEnd(load.image, load.pos)
  <2>1. end \in Nat /\ load.pos < end /\ end <= total
    BY <1>1, <1>2, <1>5, FragEndIs DEF total
  <2> HIDE DEF end
  <2>2. MgrChunk = IF load.data > 0 /\ load.data - load.sent < end - load.pos THEN load.data - load.sent
                   ELSE end - load.pos
    BY <1>5 DEF MgrChunk, end
  <2>3. /\ MgrChunk \in Nat /\ MgrChunk > 0 /\ load.pos + MgrChunk <= total
        /\ load.data > 0 => load.sent + MgrChunk <= load.data
    BY <1>1, <1>2, <1>5, <2>1, <2>2
  <2> QED BY <1>5, <2>3 DEF total
<1> QED BY <1>3, <1>4, <1>5

\* The end of a write: the loop goes on, or everything is sent.
LEMMA MgrWriteKeeps ==
  ASSUME MgrIInv, NEW ok \in BOOLEAN, MgrWrite(ok)
  PROVE  MgrIInv'
<1> DEFINE n == MgrChunk
           l == [load EXCEPT !.pos = load.pos + n, !.sent = load.sent + n]
           total == Total(load.image)
<1>1. /\ load.pc = "write" /\ load \in LoadType /\ total \in Nat /\ load.pos \in Nat /\ load.sent \in Nat
      /\ load.data \in Nat /\ load.hdr \in Nat
  BY ImageIs DEF MgrIInv, MgrTyped, LoadType, MgrWrite
<1>2. /\ n \in Nat
      /\ ~mgr.ops.sg /\ Mapped => n = IF load.data > 0 THEN load.data ELSE LoadRest
      /\ ~mgr.ops.sg /\ ~Mapped =>
           load.pos + n <= total /\ (load.data > 0 => load.sent + n <= load.data)
  BY <1>1, ChunkIs
<1>3. /\ load.pos = LoadFrom + load.sent /\ LoadFrom \in Nat /\ LoadRest = total - LoadFrom
      /\ mgr.ops.sg \/ Mapped => load.sent = 0 /\ LoadFrom <= total
      /\ Mapped => LoadFrom + load.data <= total
  BY <1>1 DEF MgrIInv, MgrSends, MgrFits, LoadFrom, LoadRest
<1> HIDE DEF n, total
<1>4. /\ l \in LoadType /\ l.pc = "write" /\ l.pos = load.pos + n /\ l.sent = load.sent + n
      /\ l.user = load.user /\ l.hdr = load.hdr /\ l.data = load.data
      /\ l.image = load.image /\ l.src = load.src
      /\ l.dirty = load.dirty
  <2>1. load.pos + n \in Nat /\ load.sent + n \in Nat
    BY <1>1, <1>2
  <2> QED BY <1>1, <2>1 DEF LoadType, LoadPcs
<1> HIDE DEF l
<1>5. CASE ~ok
  BY <1>1, <1>5, LoadFails DEF MgrWrite, FpgaMgrStates
<1>6. CASE ok /\ WriteEnds(l.pos, l.sent)
  <2>1. EnterComplete(l)
    BY <1>6 DEF MgrWrite, l, n
  <2>2. ~mgr.ops.sg => l.sent = IF load.data > 0 /\ load.data <= LoadRest THEN load.data ELSE LoadRest
    <3>1. CASE ~mgr.ops.sg /\ Mapped
      BY <1>1, <1>2, <1>3, <1>4, <3>1
    <3>2. CASE ~mgr.ops.sg /\ ~Mapped
      <4>1. l.pos = total \/ (load.data > 0 /\ l.sent >= load.data)
        BY <1>4, <1>6, <3>2 DEF WriteEnds, total
      <4> QED BY <1>1, <1>2, <1>3, <1>4, <3>2, <4>1
    <3> QED BY <3>1, <3>2
  <2>3. LoadRest = Total(l.image) - (IF mgr.ops.skip THEN l.hdr ELSE 0)
    BY <1>4 DEF LoadRest, LoadFrom
  <2> QED BY <1>1, <1>4, <2>1, <2>2, <2>3, CompleteKeeps
<1>7. CASE ok /\ ~WriteEnds(l.pos, l.sent)
  <2>1. load' = l /\ mgr' = mgr
    BY <1>7 DEF MgrWrite, l, n
  <2>2. /\ ~mgr.ops.sg /\ ~Mapped /\ l.pos # total /\ ~(load.data > 0 /\ l.sent >= load.data)
    BY <1>4, <1>7 DEF WriteEnds, total
  <2>3. MgrTyped' /\ MgrHeld' /\ MgrClean'
    <3>1. mgr' = [mgr EXCEPT !.state = mgr.state] /\ mgr.state \in FpgaMgrStates
      BY <2>1 DEF MgrIInv, MgrTyped
    <3> QED BY <1>1, <1>4, <2>1, <3>1, LoadMoves DEF MgrIInv, MgrClean
  <2>4. ~Mapped' /\ LoadFrom' = LoadFrom /\ Total(load.image)' = total
    BY <1>4, <2>1, <2>2 DEF Mapped, LoadFrom, Total, total
  <2>5. MgrPrepares' /\ MgrFits'
    BY <1>4, <2>1, <2>4 DEF MgrPrepares, MgrFits
  <2>6. l.pos < total /\ (l.data > 0 => l.sent < l.data) /\ l.pos = LoadFrom + l.sent
    BY <1>1, <1>2, <1>3, <1>4, <2>2
  <2>7. MgrSends'
    BY <1>4, <2>1, <2>2, <2>4, <2>6 DEF MgrSends, LoadDone
  <2> QED BY <2>3, <2>5, <2>7 DEF MgrIInv
<1> QED BY <1>5, <1>6, <1>7

\* The end of write_complete.
LEMMA MgrWriteCompleteKeeps ==
  ASSUME MgrIInv, NEW ok \in BOOLEAN, MgrWriteComplete(ok)
  PROVE  MgrIInv'
<1>1. load.pc = "write_complete"
  BY DEF MgrWriteComplete
<1>2. CASE ~ok
  BY <1>1, <1>2, LoadFails DEF MgrWriteComplete, FpgaMgrStates
<1>3. CASE ok
  <2> DEFINE l == [load EXCEPT !.pc = "none", !.ret = "ok", !.dirty = FALSE]
  <2>1. mgr' = [mgr EXCEPT !.state = "operating"] /\ load' = l
    BY <1>3 DEF MgrWriteComplete, MgrState
  <2>2. /\ l \in LoadType /\ l.pc = "none" /\ l.user = load.user /\ l.hdr = load.hdr /\ l.data = load.data
        /\ l.sent = load.sent /\ l.image = load.image /\ ~l.dirty
    BY DEF MgrIInv, MgrTyped, LoadType, LoadPcs
  <2> HIDE DEF l
  <2>3. MgrTyped' /\ MgrHeld' /\ MgrClean' /\ mgr'.ops = mgr.ops
    BY <1>1, <2>1, <2>2, LoadMoves DEF FpgaMgrStates
  <2>4. SentAll
    BY <1>1 DEF MgrIInv, MgrSends
  <2>5. SentAll'
    BY <2>1, <2>2, <2>3, <2>4 DEF SentAll, LoadRest, LoadFrom
  <2> QED BY <2>1, <2>2, <2>3, <2>5 DEF MgrIInv, MgrPrepares, MgrFits, MgrSends
<1> QED BY <1>2, <1>3

\* A load begins for the holder of the lock.
LEMMA LoadBegins ==
  ASSUME MgrIInv, NEW u \in MgrUsers, NEW src \in Sources, NEW im \in MgrImages, NEW partial \in BOOLEAN,
         fpga_mgr_load(u, src, im, partial)
  PROVE  MgrIInv'
<1> DEFINE pc == IF src = "sg" THEN "prepare_sg" ELSE IF src = "buf" THEN "buf" ELSE "fw"
           l == [NoLoad EXCEPT !.pc = pc, !.user = u, !.src = src, !.image = im, !.partial = partial,
                               !.hdr = mgr.ops.hdr, !.dirty = load.dirty]
           s == IF src = "fw" THEN "firmware request" ELSE mgr.state
<1>1. mgr.lock = u /\ load.pc = "none" /\ load' = l /\ mgr' = [mgr EXCEPT !.state = s]
  BY DEF fpga_mgr_load
<1>2. s \in FpgaMgrStates /\ (s = "operating" => ~load.dirty) /\ mgr.ops.hdr \in Nat /\ load.dirty \in BOOLEAN
  BY DEF MgrIInv, MgrTyped, MgrOps, LoadType, MgrClean, FpgaMgrStates
<1>3. pc \in {"prepare_sg", "buf", "fw"} /\ (pc = "prepare_sg" <=> src = "sg") /\ pc \in LoadPcs
  BY DEF Sources, LoadPcs
<1> HIDE DEF pc, s
<1>4. /\ l \in LoadType /\ l.pc = pc /\ l.user = u /\ l.src = src /\ l.dirty = load.dirty
      /\ l.data = 0 /\ l.sent = 0
  BY <1>2, <1>3 DEF NoLoad, LoadType, Images
<1> HIDE DEF l
<1>5. /\ mgr'.reg = mgr.reg /\ mgr'.ops = mgr.ops /\ mgr'.lock = mgr.lock /\ mgr'.refs = mgr.refs
      /\ mgr'.state = s
  BY <1>1 DEF MgrIInv, MgrTyped
<1>6. MgrTyped' /\ MgrHeld' /\ MgrClean'
  BY <1>1, <1>2, <1>4, <1>5, MgrAssumption DEF MgrIInv, MgrTyped, MgrHeld, MgrClean
<1> QED BY <1>1, <1>3, <1>4, <1>6 DEF MgrIInv, MgrPrepares, MgrFits, MgrSends, LoadDone, Mapped

\* References, lock and registration leave a load alone.
LEMMA HoldersKeep ==
  ASSUME MgrIInv,
         \/ fpga_mgr_unregister
         \/ \E u \in MgrUsers : fpga_mgr_get(u) \/ fpga_mgr_put(u) \/ fpga_mgr_lock(u) \/ fpga_mgr_unlock(u)
  PROVE  MgrIInv'
<1>1. load' = load /\ mgr'.ops = mgr.ops /\ mgr'.state = mgr.state
  BY DEF MgrIInv, MgrTyped, fpga_mgr_get, fpga_mgr_put, fpga_mgr_lock, fpga_mgr_unlock, fpga_mgr_unregister
<1>2. MgrTyped'
  BY DEF MgrIInv, MgrTyped, fpga_mgr_get, fpga_mgr_put, fpga_mgr_lock, fpga_mgr_unlock, fpga_mgr_unregister
<1>3. MgrHeld'
  BY <1>1, MgrAssumption
     DEF MgrIInv, MgrTyped, MgrHeld, fpga_mgr_get, fpga_mgr_put, fpga_mgr_lock, fpga_mgr_unlock,
         fpga_mgr_unregister
<1>4. MgrClean' /\ MgrPrepares' /\ MgrFits' /\ MgrSends'
  BY <1>1 DEF MgrIInv, MgrClean, MgrPrepares, MgrFits, MgrSends, SentAll, LoadDone, LoadFrom, LoadRest, Mapped
<1> QED BY <1>2, <1>3, <1>4 DEF MgrIInv

\* A manager is registered: nothing of an earlier one is left.
LEMMA RegisterKeeps ==
  ASSUME MgrIInv, NEW ops \in MgrOps, NEW s \in FpgaMgrStates, fpga_mgr_register_full(ops, s)
  PROVE  MgrIInv'
<1>1. ~mgr.reg /\ mgr' = [mgr EXCEPT !.reg = TRUE, !.ops = ops, !.state = s] /\ load' = NoLoad
  BY DEF fpga_mgr_register_full
<1>2. NoLoad \in LoadType /\ NoLoad.pc = "none" /\ NoLoad.ret = "none" /\ ~NoLoad.dirty
  BY DEF NoLoad, LoadType, LoadPcs, Sources, Images
<1>3. MgrTyped' /\ MgrHeld' /\ MgrClean'
  BY <1>1, <1>2 DEF MgrIInv, MgrTyped, MgrHeld, MgrClean
<1> QED BY <1>1, <1>2, <1>3 DEF MgrIInv, MgrPrepares, MgrFits, MgrSends, LoadDone

\* What the framework and its users do, for any driver.
LEMMA FrameworkKeeps ==
  ASSUME MgrIInv, NEW partials \in SUBSET BOOLEAN, MgrFramework(partials)
  PROVE  MgrIInv'
<1>1. ASSUME NEW u \in MgrUsers, fpga_mgr_get(u) \/ fpga_mgr_put(u) \/ fpga_mgr_lock(u) \/ fpga_mgr_unlock(u)
      PROVE  MgrIInv'
  BY <1>1, HoldersKeep
<1>2. CASE fpga_mgr_unregister
  BY <1>2, HoldersKeep
<1>3. ASSUME NEW u \in MgrUsers, NEW src \in Sources, NEW im \in MgrImages, NEW p \in partials,
             fpga_mgr_load(u, src, im, p)
      PROVE  MgrIInv'
  BY <1>3, LoadBegins
<1>4. CASE fpga_mgr_firmware_load
  <2>1. load.pc = "fw"
    BY <1>4 DEF fpga_mgr_firmware_load
  <2>2. CASE MgrGoto("buf", mgr.state)
    BY <2>1, <2>2, LoadGoes
  <2>3. CASE MgrFails("firmware request error")
    BY <2>1, <2>3, LoadFails DEF FpgaMgrStates
  <2> QED BY <1>4, <2>2, <2>3 DEF fpga_mgr_firmware_load
<1>5. CASE fpga_mgr_buf_load
  <2>1. load.pc = "buf" /\ mgr.state \in FpgaMgrStates
    BY <1>5 DEF fpga_mgr_buf_load, MgrIInv, MgrTyped
  <2>2. CASE MgrGoto("parse_mapped", mgr.state)
    BY <2>1, <2>2, LoadGoes
  <2>3. CASE ~mgr.ops.write /\ MgrGoto("prepare_sg", mgr.state)
    BY <2>1, <2>3, LoadGoes
  <2>4. CASE MgrFails(mgr.state)
    BY <2>1, <2>4, LoadFails
  <2> QED BY <1>5, <2>2, <2>3, <2>4 DEF fpga_mgr_buf_load
<1>6. CASE fpga_mgr_parse_header_mapped \/ fpga_mgr_prepare_sg \/ fpga_mgr_parse_header_sg
  BY <1>6, ParseMappedKeeps, PrepareSgKeeps, ParseSgKeeps
<1> QED BY <1>1, <1>2, <1>3, <1>4, <1>5, <1>6 DEF MgrFramework

\* Every step keeps the invariant.
LEMMA MgrNextIInv == MgrIInv /\ [AnyDriver]_mgr_vars => MgrIInv'
<1> SUFFICES ASSUME MgrIInv, [AnyDriver]_mgr_vars PROVE MgrIInv'
  OBVIOUS
<1>0. {"unknown", "power up", "operating"} \subseteq FpgaMgrStates
  BY DEF FpgaMgrStates
<1>1. ASSUME NEW ops \in AnyOps, NEW s \in FpgaMgrStates, fpga_mgr_register_full(ops, s)
      PROVE  MgrIInv'
  <2>1. ops \in MgrOps
    BY MgrAssumption DEF AnyOps, MgrOps
  <2> QED BY <1>1, <2>1, RegisterKeeps
<1>2. CASE MgrFramework({FALSE})
  BY <1>2, FrameworkKeeps
<1>3. ASSUME NEW ok \in BOOLEAN, MgrWriteInit(ok) \/ MgrWrite(ok) \/ MgrWriteComplete(ok)
      PROVE  MgrIInv'
  BY <1>3, MgrWriteInitKeeps, MgrWriteKeeps, MgrWriteCompleteKeeps
<1>4. CASE UNCHANGED mgr_vars
  <2>1. mgr' = mgr /\ load' = load
    BY <1>4 DEF mgr_vars
  <2> QED BY <2>1 DEF MgrIInv, MgrTyped, MgrHeld, MgrClean, MgrPrepares, MgrFits, MgrSends, SentAll, LoadDone,
                      LoadFrom, LoadRest, Mapped
<1> QED BY <1>0, <1>1, <1>2, <1>3, <1>4 DEF AnyDriver

\* A manager that is not registered satisfies the invariant.
LEMMA MgrInitIInv == MgrInit => MgrIInv
<1> SUFFICES ASSUME MgrInit PROVE MgrIInv
  OBVIOUS
<1>1. NoLoad \in LoadType /\ NoLoad.pc = "none" /\ NoLoad.ret = "none"
  BY DEF NoLoad, LoadType, LoadPcs, Sources, Images
<1>2. MgrTyped /\ MgrHeld /\ MgrClean
  BY <1>1 DEF MgrInit, MgrTyped, MgrHeld, MgrClean, NoOps, MgrOps, FpgaMgrStates
<1> QED BY <1>1, <1>2 DEF MgrInit, MgrIInv, MgrPrepares, MgrFits, MgrSends, LoadDone

\* What the framework promises follows from the invariant.
LEMMA MgrImplies == MgrIInv => MgrLoadTrue
<1> SUFFICES ASSUME MgrIInv PROVE MgrLoadTrue
  OBVIOUS
<1>1. MgrTypeOK
  BY DEF MgrIInv, MgrTyped, MgrTypeOK, LoadType, LoadPcs
<1>2. MgrDataSent
  BY DEF MgrIInv, MgrSends, MgrDataSent, SentAll
<1>3. MgrSeesHeader
  BY DEF MgrIInv, MgrTyped, LoadType, MgrPrepares, MgrSeesHeader
<1>4. MgrOperatingTrue /\ MgrLoadExclusive
  BY DEF MgrIInv, MgrClean, MgrHeld, MgrOperatingTrue, MgrLoadExclusive
<1> QED BY <1>1, <1>2, <1>3, <1>4 DEF MgrLoadTrue

\* The invariant of the manager framework holds in every state.
THEOREM MgrInvariance == MgrSpec => []MgrIInv
BY MgrInitIInv, MgrNextIInv, PTL DEF MgrSpec

\* For any users, images and header sizes and whatever the driver answers: a load runs
\* for the holder of lock and reference, write_init sees the header, a load that succeeds
\* has handed over the declared data or all behind the header, whatever the cuts between
\* the fragments, and "operating" is shown only after a load that went to its end.
THEOREM MgrLoadIsTrue == MgrSpec => []MgrLoadTrue
BY MgrInvariance, MgrImplies, PTL

-----------------------------------------------------------------------------
(* The steps of the framework as a driver sees them.                       *)

\* The load is over and its state is one in which a write_complete leaves it.
PastComplete == load.pc = "none" /\ mgr.state \in {"operating", "write complete error"}
EarlyErrors == {"firmware request error", "parse header error", "write init error", "write error"}

\* What the framework and its users do leaves the operations alone, and a load too, or it
\* is not yet at the driver's operations and stays short of its first write.
LEMMA FrameworkFrame ==
  ASSUME MgrIInv, NEW partials \in SUBSET BOOLEAN, MgrFramework(partials)
  PROVE  /\ mgr'.ops = mgr.ops
         /\ \/ load' = load /\ mgr'.state = mgr.state
            \/ /\ load.pc \notin {"write_init", "write", "write_complete"}
               /\ load'.pc \notin {"write", "write_complete"} /\ ~LoadDone'
               /\ mgr.ops.write => ~PastComplete'
<1>1. mgr \in [reg : BOOLEAN, ops : MgrOps, state : FpgaMgrStates,
               lock : MgrUsers \cup {NoUser}, refs : SUBSET MgrUsers]
      /\ load \in LoadType
  BY DEF MgrIInv, MgrTyped
<1>2. ASSUME NEW st, MgrFails(st)
      PROVE  /\ mgr'.ops = mgr.ops /\ load'.pc = "none" /\ ~LoadDone'
             /\ st \in EarlyErrors => ~PastComplete'
  BY <1>1, <1>2 DEF MgrFails, MgrState, EarlyErrors, LoadDone, PastComplete, LoadType
<1>3. ASSUME NEW st, NEW p, MgrGoto(p, st)
      PROVE  mgr'.ops = mgr.ops /\ load'.pc = p /\ (LoadDone' \/ PastComplete' => p = "none")
  BY <1>1, <1>3 DEF MgrGoto, MgrState, LoadDone, PastComplete, LoadType
<1>4. ASSUME NEW hdr, NEW data, NEW count, fpga_mgr_write_init_buf(hdr, data, count)
      PROVE  mgr'.ops = mgr.ops /\ load'.pc \in {"none", "write_init"} /\ ~LoadDone' /\ ~PastComplete'
  <2>1. CASE MgrFails("write init error")
    BY <1>2, <2>1 DEF EarlyErrors
  <2>2. CASE ~(hdr > count)
    BY <1>1, <1>4, <2>2 DEF fpga_mgr_write_init_buf, MgrState, LoadDone, PastComplete, LoadType
  <2> QED BY <1>4, <2>1, <2>2 DEF fpga_mgr_write_init_buf
<1>5. ASSUME NEW p, NEW count, ParseSgFirst(p, count)
      PROVE  /\ mgr'.ops = mgr.ops /\ load'.pc \in {"none", "write_init", "parse_sg"}
             /\ ~LoadDone' /\ ~PastComplete'
  <2>1. CASE p.ret = "ok"
    BY <1>4, <1>5, <2>1 DEF ParseSgFirst
  <2>2. CASE p.ret = "again"
    BY <1>1, <1>5, <2>2 DEF ParseSgFirst, MgrState, LoadDone, PastComplete, LoadType
  <2>3. CASE p.ret # "ok" /\ p.ret # "again"
    BY <1>2, <1>5, <2>3 DEF ParseSgFirst, EarlyErrors
  <2> QED BY <2>1, <2>2, <2>3
<1>6. CASE fpga_mgr_unregister
  BY <1>1, <1>6 DEF fpga_mgr_unregister
<1>7. ASSUME NEW u \in MgrUsers, fpga_mgr_get(u) \/ fpga_mgr_put(u) \/ fpga_mgr_lock(u) \/ fpga_mgr_unlock(u)
      PROVE  mgr'.ops = mgr.ops /\ load' = load /\ mgr'.state = mgr.state
  BY <1>1, <1>7 DEF fpga_mgr_get, fpga_mgr_put, fpga_mgr_lock, fpga_mgr_unlock
<1>8. ASSUME NEW u \in MgrUsers, NEW src \in Sources, NEW im \in MgrImages, NEW p \in partials,
             fpga_mgr_load(u, src, im, p)
      PROVE  mgr'.ops = mgr.ops /\ load'.pc \in {"prepare_sg", "buf", "fw"}
  BY <1>1, <1>8 DEF fpga_mgr_load, NoLoad
<1>9. ASSUME fpga_mgr_firmware_load
      PROVE  mgr'.ops = mgr.ops /\ load'.pc \in {"none", "buf"} /\ ~LoadDone' /\ ~PastComplete'
  <2>1. CASE MgrGoto("buf", mgr.state)
    BY <1>3, <2>1
  <2>2. CASE MgrFails("firmware request error")
    BY <1>2, <2>2 DEF EarlyErrors
  <2> QED BY <1>9, <2>1, <2>2 DEF fpga_mgr_firmware_load
<1>10. ASSUME fpga_mgr_buf_load
       PROVE  /\ mgr'.ops = mgr.ops /\ load'.pc \in {"none", "parse_mapped", "prepare_sg"} /\ ~LoadDone'
              /\ mgr.ops.write => ~PastComplete'
  <2>1. CASE MgrGoto("parse_mapped", mgr.state)
    BY <1>3, <2>1
  <2>2. CASE MgrGoto("prepare_sg", mgr.state)
    BY <1>3, <2>2
  <2>3. CASE ~mgr.ops.write /\ MgrFails(mgr.state)
    BY <1>2, <2>3
  <2> QED BY <1>10, <2>1, <2>2, <2>3 DEF fpga_mgr_buf_load
<1>11. ASSUME fpga_mgr_parse_header_mapped
       PROVE  mgr'.ops = mgr.ops /\ load'.pc \in {"none", "write_init"} /\ ~LoadDone' /\ ~PastComplete'
  <2>1. CASE MgrFails("parse header error")
    BY <1>2, <2>1 DEF EarlyErrors
  <2>2. ASSUME NEW p, fpga_mgr_write_init_buf(p.hdr, p.data, Total(load.image))
        PROVE  mgr'.ops = mgr.ops /\ load'.pc \in {"none", "write_init"} /\ ~LoadDone' /\ ~PastComplete'
    BY <1>4, <2>2
  <2> QED BY <1>11, <2>1, <2>2 DEF fpga_mgr_parse_header_mapped
<1>12. CASE fpga_mgr_prepare_sg
  BY <1>4, <1>5, <1>12 DEF fpga_mgr_prepare_sg
<1>13. ASSUME fpga_mgr_parse_header_sg
       PROVE  /\ mgr'.ops = mgr.ops /\ load'.pc \in {"none", "parse_sg", "write_init"}
              /\ ~LoadDone' /\ ~PastComplete'
  <2>1. load.pc = "parse_sg"
    BY <1>13 DEF fpga_mgr_parse_header_sg
  <2>2. CASE MgrFails("parse header error")
    BY <1>2, <2>2 DEF EarlyErrors
  <2>3. ASSUME NEW p, fpga_mgr_write_init_buf(p.hdr, p.data, load.hdr)
        PROVE  mgr'.ops = mgr.ops /\ load'.pc \in {"none", "write_init"} /\ ~LoadDone' /\ ~PastComplete'
    BY <1>4, <2>3
  <2>4. ASSUME NEW p, UNCHANGED mgr, load' = [load EXCEPT !.hdr = p.hdr, !.seen = load.hdr]
        PROVE  mgr'.ops = mgr.ops /\ load'.pc = "parse_sg"
    BY <1>1, <2>1, <2>4 DEF LoadType
  <2> QED BY <1>13, <2>2, <2>3, <2>4 DEF fpga_mgr_parse_header_sg, LoadDone, PastComplete
<1>14. ASSUME NEW u, NEW src, NEW im, NEW p,
              \/ fpga_mgr_load(u, src, im, p) \/ fpga_mgr_firmware_load \/ fpga_mgr_buf_load
              \/ fpga_mgr_parse_header_mapped \/ fpga_mgr_prepare_sg \/ fpga_mgr_parse_header_sg
       PROVE  load.pc \notin {"write_init", "write", "write_complete"}
  BY <1>14 DEF fpga_mgr_load, fpga_mgr_firmware_load, fpga_mgr_buf_load, fpga_mgr_parse_header_mapped,
     fpga_mgr_prepare_sg, fpga_mgr_parse_header_sg
<1> QED BY <1>6, <1>7, <1>8, <1>9, <1>10, <1>11, <1>12, <1>13, <1>14 DEF MgrFramework, LoadDone, PastComplete

\* write_init: data is sent only when it succeeded, and the load is done with it only when
\* there is no write_complete and nothing to write.
LEMMA WriteInitFrame ==
  ASSUME MgrIInv, NEW ok \in BOOLEAN, MgrWriteInit(ok)
  PROVE  /\ load.pc = "write_init" /\ mgr'.ops = mgr.ops /\ mgr'.reg = mgr.reg
         /\ mgr.ops.complete \/ (~mgr.ops.skip /\ Total(load.image) > 0) => ~LoadDone'
         /\ mgr.ops.complete => ~PastComplete'
         /\ load'.pc \in {"write", "write_complete"} => ok
         /\ mgr.ops.sg \/ (~mgr.ops.skip /\ Total(load.image) > 0) => load'.pc # "write_complete"
<1>1. /\ mgr \in [reg : BOOLEAN, ops : MgrOps, state : FpgaMgrStates,
                  lock : MgrUsers \cup {NoUser}, refs : SUBSET MgrUsers]
      /\ load \in LoadType
  BY DEF MgrIInv, MgrTyped
<1>2. Total(load.image) \in Nat /\ load.hdr \in Nat
  BY <1>1, ImageIs DEF LoadType
<1> DEFINE l == [load EXCEPT !.pc = "write", !.dirty = TRUE, !.pos = IF mgr.ops.skip THEN load.hdr ELSE 0]
<1>3. ASSUME NEW st, MgrState(st)
      PROVE  /\ mgr'.ops = mgr.ops /\ mgr'.reg = mgr.reg
             /\ st \in EarlyErrors => ~PastComplete'
  BY <1>1, <1>3 DEF MgrState, EarlyErrors, PastComplete
<1>4. /\ load.pc = "write_init"
      /\ \/ /\ MgrState("write init error") \/ MgrState("write error")
            /\ load' = [l EXCEPT !.pc = "none", !.ret = "err"]
         \/ ok /\ MgrState("write") /\ load' = l
         \/ ok /\ ~mgr.ops.sg /\ (mgr.ops.skip \/ ~(0 < Total(load.image))) /\ EnterComplete(l)
  BY <1>2 DEF MgrWriteInit
<1>5. l.pc = "write" /\ [l EXCEPT !.pc = "none", !.ret = "err"].ret = "err"
      /\ [l EXCEPT !.pc = "none", !.ret = "err"].pc = "none"
  BY <1>1 DEF LoadType
<1>6. CASE ok /\ ~mgr.ops.sg /\ (mgr.ops.skip \/ ~(0 < Total(load.image))) /\ EnterComplete(l)
  BY <1>1, <1>2, <1>3, <1>4, <1>6 DEF EnterComplete, LoadDone, PastComplete, LoadType
<1>7. CASE /\ MgrState("write init error") \/ MgrState("write error")
           /\ load' = [l EXCEPT !.pc = "none", !.ret = "err"]
  BY <1>3, <1>4, <1>5, <1>7 DEF LoadDone, EarlyErrors
<1>8. CASE ok /\ MgrState("write") /\ load' = l
  BY <1>3, <1>4, <1>5, <1>8 DEF LoadDone, PastComplete
<1> QED BY <1>4, <1>6, <1>7, <1>8

\* write: a load is done with it only when it succeeded and no write_complete follows,
\* and goes on only after something was sent.
LEMMA WriteFrame ==
  ASSUME MgrIInv, NEW ok \in BOOLEAN, MgrWrite(ok)
  PROVE  /\ mgr'.ops = mgr.ops /\ mgr'.reg = mgr.reg /\ load.pc = "write"
         /\ LoadDone' => ok /\ ~mgr.ops.complete
         /\ mgr.ops.complete => ~PastComplete'
         /\ load'.pc = "write" => load'.sent > 0
         /\ load'.pc = "write_complete" => ok
         /\ load'.image = load.image
<1>1. /\ mgr \in [reg : BOOLEAN, ops : MgrOps, state : FpgaMgrStates,
                  lock : MgrUsers \cup {NoUser}, refs : SUBSET MgrUsers]
      /\ load \in LoadType /\ load.sent \in Nat /\ load.pc = "write"
  BY DEF MgrIInv, MgrTyped, LoadType, MgrWrite
<1>2. MgrChunk \in Nat /\ (MgrChunk > 0 \/ mgr.ops.sg \/ Mapped)
  BY <1>1, ChunkIs
<1> HIDE DEF MgrChunk
<1> DEFINE l == [load EXCEPT !.pos = load.pos + MgrChunk, !.sent = load.sent + MgrChunk]
<1>4. l.sent = load.sent + MgrChunk
  BY <1>1 DEF LoadType
<1>5. CASE ~ok
  BY <1>1, <1>5 DEF MgrWrite, MgrFails, MgrState, LoadDone, PastComplete, LoadType
<1>6. CASE ok /\ EnterComplete(l)
  BY <1>1, <1>6 DEF EnterComplete, MgrState, LoadDone, PastComplete, LoadType
<1>7. CASE ok /\ ~WriteEnds(l.pos, l.sent) /\ load' = l /\ UNCHANGED mgr
  <2>1. load'.pc = "write" /\ load'.sent > 0 /\ load'.image = load.image
    BY <1>1, <1>2, <1>4, <1>7 DEF WriteEnds, LoadType
  <2> QED BY <1>1, <1>7, <2>1 DEF LoadDone, PastComplete
<1> QED BY <1>5, <1>6, <1>7 DEF MgrWrite

\* write_complete: the load is over, and done when it succeeded.
LEMMA WriteCompleteFrame ==
  ASSUME MgrIInv, NEW ok \in BOOLEAN, MgrWriteComplete(ok)
  PROVE  /\ mgr'.ops = mgr.ops /\ mgr'.reg = mgr.reg
         /\ load.pc = "write_complete" /\ load'.pc = "none" /\ (LoadDone' => ok)
<1>1. /\ mgr \in [reg : BOOLEAN, ops : MgrOps, state : FpgaMgrStates,
                  lock : MgrUsers \cup {NoUser}, refs : SUBSET MgrUsers]
      /\ load \in LoadType
  BY DEF MgrIInv, MgrTyped
<1> QED BY <1>1 DEF MgrWriteComplete, MgrFails, MgrState, LoadDone, LoadType

-----------------------------------------------------------------------------
(* The drivers that configure a device in one pass.                        *)

\* No image is empty.
ImagesFilled == \A im \in MgrImages : Total(im) > 0

SmKinds == {"none", "ice40", "xilinx_spi", "altera_ps", "machxo2", "ts73xx", "zynqmp", "versal", "alt_pr"}
SmType ==
  [kind : SmKinds, cfg : {"none", "part", "image"}, held : BOOLEAN, start : BOOLEAN, confd : BOOLEAN]

\* The operations registered are the driver's; the ones that do not touch a reset line
\* find it released.
SmMatches ==
  /\ sm.kind # "none" => mgr.ops = SmOps(sm.kind)
  /\ sm.kind \in {"zynqmp", "versal", "alt_pr"} => ~sm.held

\* A load is done only on a device that confirmed it.
SmConfirmed == LoadDone /\ sm.kind \notin {"none", "machxo2"} /\ sm.confd => Configured

SmInv == sm \in SmType /\ SmMatches /\ SmConfirmed /\ SmSentOutOfReset
SerIInv == MgrIInv /\ SmInv

\* A driver registers with its operations, on a device in any condition.
LEMMA SerRegisters ==
  ASSUME SerIInv, NEW k \in SmKinds \ {"none"}, NEW cfg \in AnyCfg, NEW held \in BOOLEAN, NEW confd \in BOOLEAN,
         k \in {"zynqmp", "versal", "alt_pr"} => ~held, NEW s \in FpgaMgrStates,
         SmProbed(k, cfg, held, confd), fpga_mgr_register_full(SmOps(k), s)
  PROVE  SerIInv'
<1>1. SmOps(k) \in MgrOps
  BY DEF SmOps, NoOps, MgrOps
<1>2. MgrIInv'
  BY <1>1, RegisterKeeps DEF SerIInv
<1>3. sm' \in SmType /\ sm'.kind = k /\ sm'.held = held
  BY DEF SmProbed, SmType, AnyCfg
<1>4. mgr'.ops = SmOps(k)
  BY DEF SerIInv, MgrIInv, MgrTyped, fpga_mgr_register_full
<1>5. load'.pc = "none" /\ load'.ret = "none"
  BY DEF fpga_mgr_register_full, NoLoad
<1> QED BY <1>2, <1>3, <1>4, <1>5 DEF SerIInv, SmInv, SmMatches, SmConfirmed, SmSentOutOfReset, LoadDone

\* The driver's write_init: it succeeds only on a device that is out of its reset.
LEMMA SerWriteInits ==
  ASSUME SerIInv, ImagesFilled, NEW ok \in BOOLEAN, MgrWriteInit(ok), sm.kind # "none",
         sm' \in SmType, sm'.kind = sm.kind, ok \/ sm.kind \in {"zynqmp", "versal", "alt_pr"} => ~sm'.held
  PROVE  SerIInv'
<1>1. mgr.ops = SmOps(sm.kind) /\ ~mgr.ops.skip
  BY DEF SerIInv, SmInv, SmMatches, SmOps, NoOps
<1>2. Total(load.image) > 0
  <2>1. Total(NoImage) > 0
    BY DEF NoImage, Total
  <2>2. load.image \in MgrImages \cup {NoImage}
    BY DEF SerIInv, MgrIInv, MgrTyped, LoadType, Images
  <2> QED BY <2>1, <2>2 DEF ImagesFilled
<1>3. mgr'.ops = mgr.ops /\ ~LoadDone' /\ (load'.pc \in {"write", "write_complete"} => ok)
  BY <1>1, <1>2, WriteInitFrame DEF SerIInv
<1>4. MgrIInv'
  BY MgrWriteInitKeeps DEF SerIInv
<1> QED BY <1>1, <1>3, <1>4 DEF SerIInv, SmInv, SmMatches, SmConfirmed, SmSentOutOfReset

\* The driver's write: one that is the last of a load succeeds on a device it configured.
LEMMA SerWrites ==
  ASSUME SerIInv, NEW ok \in BOOLEAN, MgrWrite(ok), sm.kind # "none",
         sm' \in SmType, sm'.kind = sm.kind, ~sm.held => ~sm'.held,
         ok /\ sm.kind \in {"zynqmp", "versal"} => sm'.cfg = "image"
  PROVE  SerIInv'
<1>1. mgr.ops = SmOps(sm.kind) /\ (~mgr.ops.complete => sm.kind \in {"zynqmp", "versal"})
  BY DEF SerIInv, SmInv, SmMatches, SmOps, NoOps
<1>2. mgr'.ops = mgr.ops /\ load.pc = "write" /\ (LoadDone' => ok /\ ~mgr.ops.complete)
  BY WriteFrame DEF SerIInv
<1>3. MgrIInv'
  BY MgrWriteKeeps DEF SerIInv
<1>4. ~sm'.held
  BY <1>2 DEF SerIInv, SmInv, SmSentOutOfReset
<1> QED BY <1>1, <1>2, <1>3, <1>4 DEF SerIInv, SmInv, SmMatches, SmConfirmed, SmSentOutOfReset, Configured

\* The driver's write_complete succeeds on a device that confirms, where it can.
LEMMA SerCompletes ==
  ASSUME SerIInv, NEW ok \in BOOLEAN, MgrWriteComplete(ok), sm.kind # "none",
         sm' \in SmType, sm'.kind = sm.kind, sm'.held = sm.held, sm'.confd = sm.confd,
         ok /\ sm.kind # "machxo2" /\ sm.confd => sm'.cfg = "image"
  PROVE  SerIInv'
<1>1. mgr'.ops = mgr.ops /\ load'.pc = "none" /\ (LoadDone' => ok)
  BY WriteCompleteFrame DEF SerIInv
<1>2. MgrIInv'
  BY MgrWriteCompleteKeeps DEF SerIInv
<1> QED BY <1>1, <1>2 DEF SerIInv, SmInv, SmMatches, SmConfirmed, SmSentOutOfReset, Configured

\* A probe of each driver.
LEMMA SerProbes ==
  ASSUME SerIInv,
         \/ ice40_fpga_probe \/ xilinx_spi_probe \/ altera_ps_probe \/ machxo2_spi_probe
         \/ ts73xx_fpga_probe \/ zynqmp_fpga_probe \/ versal_fpga_probe \/ alt_pr_register
  PROVE  SerIInv'
<1>0. /\ AnyCfg = {"none", "image"}
      /\ {"unknown", "operating", "reset", "write", "write error"} \subseteq FpgaMgrStates
  BY DEF AnyCfg, FpgaMgrStates
<1>1. CASE ice40_fpga_probe
  BY <1>0, <1>1, SerRegisters DEF ice40_fpga_probe, ice40_fpga_ops_state, SmKinds
<1>2. CASE xilinx_spi_probe
  BY <1>0, <1>2, SerRegisters DEF xilinx_spi_probe, xilinx_spi_state, SmKinds
<1>3. CASE altera_ps_probe
  BY <1>0, <1>3, SerRegisters DEF altera_ps_probe, altera_ps_state, SmKinds
<1>4. CASE machxo2_spi_probe
  BY <1>0, <1>4, SerRegisters DEF machxo2_spi_probe, machxo2_spi_state, SmKinds
<1>5. CASE ts73xx_fpga_probe
  BY <1>0, <1>5, SerRegisters DEF ts73xx_fpga_probe, SmKinds
<1>6. CASE zynqmp_fpga_probe
  BY <1>0, <1>6, SerRegisters DEF zynqmp_fpga_probe, zynqmp_fpga_ops_state, SmKinds
<1>7. CASE versal_fpga_probe
  BY <1>0, <1>7, SerRegisters DEF versal_fpga_probe, SmKinds
<1>8. CASE alt_pr_register
  BY <1>0, <1>8, SerRegisters DEF alt_pr_register, alt_pr_fpga_state, SmKinds
<1> QED BY <1>1, <1>2, <1>3, <1>4, <1>5, <1>6, <1>7, <1>8

\* Each driver's write_init.
LEMMA SerInits ==
  ASSUME SerIInv, ImagesFilled,
         \/ ice40_fpga_ops_write_init \/ xilinx_spi_write_init \/ altera_ps_write_init \/ machxo2_write_init
         \/ ts73xx_fpga_write_init \/ zynqmp_fpga_ops_write_init \/ alt_pr_fpga_write_init
  PROVE  SerIInv'
<1>0. sm \in SmType /\ SmMatches
  BY DEF SerIInv, SmInv
<1>1. ASSUME NEW cfg \in {"none", "part", "image"}, NEW held \in BOOLEAN, SmSet(cfg, held)
      PROVE  sm' \in SmType /\ sm'.kind = sm.kind /\ sm'.held = held /\ sm'.cfg = cfg /\ sm'.confd = sm.confd
  BY <1>0, <1>1 DEF SmSet, SmType
<1>2. Reset \subseteq {"none", "part", "image"}
  BY <1>0 DEF Reset, SmType
<1>3. ASSUME MgrWriteInit(FALSE), UNCHANGED sm, sm.kind # "none"
      PROVE  SerIInv'
  BY <1>0, <1>3, SerWriteInits DEF SmMatches
<1>4. ASSUME NEW cfg \in Reset, NEW ok \in BOOLEAN, SmSet(cfg, FALSE), MgrWriteInit(ok), sm.kind # "none"
      PROVE  SerIInv'
  BY <1>1, <1>2, <1>4, SerWriteInits
<1>5. CASE ice40_fpga_ops_write_init
  BY <1>3, <1>4, <1>5 DEF ice40_fpga_ops_write_init, SmIs
<1>6. CASE xilinx_spi_write_init
  BY <1>3, <1>4, <1>6 DEF xilinx_spi_write_init, SmIs
<1>7. CASE altera_ps_write_init
  <2>1. sm.kind = "altera_ps"
    BY <1>7 DEF altera_ps_write_init, SmIs
  <2>2. CASE SmSet("none", TRUE) /\ MgrWriteInit(FALSE)
    BY <1>1, <2>1, <2>2, SerWriteInits
  <2> QED BY <1>3, <1>4, <1>7, <2>1, <2>2 DEF altera_ps_write_init, Reset
<1>8. CASE machxo2_write_init
  BY <1>3, <1>4, <1>8 DEF machxo2_write_init, SmIs, wait_until_not_busy
<1>9. CASE ts73xx_fpga_write_init
  BY <1>4, <1>9 DEF ts73xx_fpga_write_init, SmIs, Reset
<1>10. CASE zynqmp_fpga_ops_write_init
  BY <1>0, <1>10, SerWriteInits DEF zynqmp_fpga_ops_write_init, SmMatches
<1>11. CASE alt_pr_fpga_write_init
  <2>1. sm.kind = "alt_pr" /\ ~sm.held
    BY <1>0, <1>11 DEF alt_pr_fpga_write_init, SmIs, SmMatches
  <2>2. CASE sm' = [sm EXCEPT !.start = TRUE, !.cfg = "none"] /\ MgrWriteInit(TRUE)
    <3>1. sm' \in SmType /\ sm'.kind = sm.kind /\ ~sm'.held
      BY <1>0, <2>1, <2>2 DEF SmType
    <3> QED BY <2>1, <2>2, <3>1, SerWriteInits
  <2> QED BY <1>3, <1>11, <2>1, <2>2 DEF alt_pr_fpga_write_init
<1> QED BY <1>5, <1>6, <1>7, <1>8, <1>9, <1>10, <1>11

\* Each driver's write.
LEMMA SerWritesAll ==
  ASSUME SerIInv,
         \/ ice40_fpga_ops_write \/ xilinx_spi_write \/ altera_ps_write \/ machxo2_write
         \/ ts73xx_fpga_write \/ zynqmp_fpga_ops_write \/ versal_fpga_ops_write \/ alt_pr_fpga_write
  PROVE  SerIInv'
<1>0. sm \in SmType /\ SmMatches
  BY DEF SerIInv, SmInv
<1>1. ASSUME NEW cfg \in {"none", "part", "image"}, NEW held \in BOOLEAN, SmSet(cfg, held)
      PROVE  sm' \in SmType /\ sm'.kind = sm.kind /\ sm'.held = held /\ sm'.cfg = cfg
  BY <1>0, <1>1 DEF SmSet, SmType
<1>2. \A ok \in BOOLEAN : Written(ok) \subseteq {"none", "part", "image"}
  BY DEF Written
<1>3. ASSUME NEW ok \in BOOLEAN, MgrWrite(ok), NEW cfg \in Written(ok), SmSet(cfg, sm.held),
             sm.kind \in SmKinds \ {"none", "zynqmp", "versal"}
      PROVE  SerIInv'
  <2>1. cfg \in {"none", "part", "image"} /\ sm.held \in BOOLEAN
    BY <1>0, <1>2, <1>3 DEF SmType
  <2> QED BY <1>1, <1>3, <2>1, SerWrites
<1>4. ASSUME MgrWrite(FALSE), UNCHANGED sm, sm.kind # "none"
      PROVE  SerIInv'
  BY <1>0, <1>4, SerWrites
<1>5. CASE ice40_fpga_ops_write
  BY <1>3, <1>5 DEF ice40_fpga_ops_write, SmIs, SmKinds
<1>6. CASE xilinx_spi_write
  BY <1>3, <1>6 DEF xilinx_spi_write, SmIs, SmKinds
<1>7. CASE altera_ps_write
  BY <1>3, <1>7 DEF altera_ps_write, SmIs, SmKinds
<1>8. CASE machxo2_write
  BY <1>3, <1>4, <1>8 DEF machxo2_write, SmIs, SmKinds
<1>9. CASE ts73xx_fpga_write
  BY <1>3, <1>9 DEF ts73xx_fpga_write, SmIs, SmKinds
<1>10. CASE zynqmp_fpga_ops_write \/ versal_fpga_ops_write
  <2>1. sm.kind # "none"
    BY <1>10 DEF zynqmp_fpga_ops_write, versal_fpga_ops_write, SmIs
  <2>2. ASSUME NEW cfg \in {"part", "image"}, SmSet(cfg, FALSE), MgrWrite(cfg = "image")
        PROVE  SerIInv'
    BY <1>1, <2>1, <2>2, SerWrites
  <2> QED BY <1>4, <1>10, <2>1, <2>2 DEF zynqmp_fpga_ops_write, versal_fpga_ops_write
<1>11. CASE alt_pr_fpga_write
  <2>1. sm.kind = "alt_pr"
    BY <1>11 DEF alt_pr_fpga_write, SmIs
  <2>2. ASSUME NEW cfg \in Written(TRUE), MgrWrite(TRUE), sm' = [sm EXCEPT !.cfg = cfg, !.start = cfg # "image"]
        PROVE  SerIInv'
    <3>1. sm' \in SmType /\ sm'.kind = sm.kind /\ sm'.held = sm.held
      BY <1>0, <1>2, <2>2 DEF SmType
    <3> QED BY <2>1, <2>2, <3>1, SerWrites
  <2>3. ASSUME MgrWrite(FALSE), sm' = [sm EXCEPT !.cfg = "part", !.start = FALSE]
        PROVE  SerIInv'
    <3>1. sm' \in SmType /\ sm'.kind = sm.kind /\ sm'.held = sm.held
      BY <1>0, <2>3 DEF SmType
    <3> QED BY <2>1, <2>3, <3>1, SerWrites
  <2> QED BY <1>4, <1>11, <2>1, <2>2, <2>3 DEF alt_pr_fpga_write
<1> QED BY <1>5, <1>6, <1>7, <1>8, <1>9, <1>10, <1>11

\* Each driver's write_complete.
LEMMA SerCompletesAll ==
  ASSUME SerIInv,
         \/ ice40_fpga_ops_write_complete \/ xilinx_spi_write_complete \/ altera_ps_write_complete
         \/ machxo2_write_complete \/ ts73xx_fpga_write_complete \/ alt_pr_fpga_write_complete
  PROVE  SerIInv'
<1>0. sm \in SmType
  BY DEF SerIInv, SmInv
<1>1. ASSUME NEW ok \in BOOLEAN, MgrWriteComplete(ok), UNCHANGED sm, sm.kind # "none",
             ok /\ sm.kind # "machxo2" /\ sm.confd => Configured
      PROVE  SerIInv'
  BY <1>0, <1>1, SerCompletes DEF Configured
<1>2. Configured \in BOOLEAN /\ sm.confd \in BOOLEAN
  BY <1>0 DEF Configured, SmType
<1>3. CASE ice40_fpga_ops_write_complete
  BY <1>1, <1>2, <1>3 DEF ice40_fpga_ops_write_complete, SmIs
<1>4. CASE xilinx_spi_write_complete
  BY <1>1, <1>2, <1>4 DEF xilinx_spi_write_complete, SmIs
<1>5. CASE altera_ps_write_complete
  BY <1>1, <1>2, <1>5 DEF altera_ps_write_complete, SmIs
<1>6. CASE machxo2_write_complete
  <2>1. sm.kind = "machxo2"
    BY <1>6 DEF machxo2_write_complete, SmIs
  <2>2. ASSUME machxo2_cleanup, MgrWriteComplete(TRUE)
        PROVE  SerIInv'
    <3>1. sm' \in SmType /\ sm'.kind = sm.kind /\ sm'.held = sm.held /\ sm'.confd = sm.confd
      BY <1>0, <2>2 DEF machxo2_cleanup, Reset, SmSet, SmType
    <3> QED BY <2>1, <2>2, <3>1, SerCompletes
  <2> QED BY <1>1, <1>6, <2>1, <2>2 DEF machxo2_write_complete
<1>7. CASE ts73xx_fpga_write_complete
  BY <1>1, <1>2, <1>7 DEF ts73xx_fpga_write_complete, SmIs
<1>8. CASE alt_pr_fpga_write_complete
  <2>1. sm.kind = "alt_pr"
    BY <1>8 DEF alt_pr_fpga_write_complete, SmIs
  <2>2. ASSUME NEW busy \in BOOLEAN, MgrWriteComplete(FALSE), sm' = [sm EXCEPT !.start = busy]
        PROVE  SerIInv'
    <3>1. sm' \in SmType /\ sm'.kind = sm.kind /\ sm'.held = sm.held /\ sm'.confd = sm.confd
      BY <1>0, <2>2 DEF SmType
    <3> QED BY <2>1, <2>2, <3>1, SerCompletes
  <2> QED BY <1>1, <1>8, <2>1, <2>2 DEF alt_pr_fpga_write_complete
<1> QED BY <1>3, <1>4, <1>5, <1>6, <1>7, <1>8

\* Every step keeps the invariant of framework and driver.
LEMMA SerNextIInv == ImagesFilled /\ SerIInv /\ [SerNext]_ser_vars => SerIInv'
<1> SUFFICES ASSUME ImagesFilled, SerIInv, [SerNext]_ser_vars PROVE SerIInv'
  OBVIOUS
<1>1. CASE MgrFramework(BOOLEAN) /\ UNCHANGED sm
  <2>1. MgrIInv'
    BY <1>1, FrameworkKeeps DEF SerIInv
  <2>2. mgr'.ops = mgr.ops /\ (load' = load \/ (load'.pc \notin {"write", "write_complete"} /\ ~LoadDone'))
    BY <1>1, FrameworkFrame DEF SerIInv
  <2> QED BY <1>1, <2>1, <2>2 DEF SerIInv, SmInv, SmMatches, SmConfirmed, SmSentOutOfReset, LoadDone, Configured
<1>2. CASE UNCHANGED ser_vars
  <2>1. MgrIInv'
    BY <1>2, MgrNextIInv DEF ser_vars, SerIInv
  <2> QED BY <1>2, <2>1 DEF ser_vars, mgr_vars, SerIInv, SmInv, SmMatches, SmConfirmed,
                            SmSentOutOfReset, LoadDone, Configured
<1> QED BY <1>1, <1>2, SerProbes, SerInits, SerWritesAll, SerCompletesAll DEF SerNext

\* iCE40, Xilinx slave serial, Altera passive serial, TS-73xx, ZynqMP, Versal and the
\* partial reconfiguration IP, in the framework and for any users and images: a load
\* succeeds only when the device confirms it, data is sent to a device that is out of its
\* reset, and a reconfiguration is not started over another; and each driver keeps what
\* the framework promises.  ZynqMP and Versal have no write_complete, and an image with
\* nothing in it would be operating without a write.
THEOREM SerialIsTrue ==
  ASSUME ImagesFilled
  PROVE  SerSpec => []SerialLoadTrue /\ []MgrLoadTrue
<1>1. SerInit => SerIInv
  <2> SUFFICES ASSUME SerInit PROVE SerIInv
    OBVIOUS
  <2>1. MgrIInv
    BY MgrInitIInv DEF SerInit
  <2> QED BY <2>1 DEF SerInit, MgrInit, NoLoad, SerIInv, SmInv, SmType, SmKinds, SmMatches, SmConfirmed,
                      SmSentOutOfReset, LoadDone
<1>2. SerIInv => SerialLoadTrue
  BY DEF SerIInv, SmInv, SmType, SmConfirmed, SerialLoadTrue, SmOperatingConfigured, AltPrNotRestarted
<1>3. SerIInv => MgrLoadTrue
  BY MgrImplies DEF SerIInv
<1> QED BY <1>1, <1>2, <1>3, SerNextIInv, PTL DEF SerSpec

-----------------------------------------------------------------------------
(* The drivers that push data against credits.                             *)

CvpType ==
  [on : BOOLEAN, pc : {"none", "block", "check"}, v2 : BOOLEAN, chk : BOOLEAN, left : Nat, sent : Nat,
   granted : Nat, config : BOOLEAN, xfer : BOOLEAN, ready : BOOLEAN, user : BOOLEAN,
   err : BOOLEAN, mem : BOOLEAN]
PreType ==
  [on : BOOLEAN, pc : {"none", "push"}, left : Nat, credit : Nat, hw : Nat, waits : Nat,
   start : BOOLEAN, dirty : BOOLEAN, sts : BOOLEAN, hwerr : BOOLEAN, pr_error : BOOLEAN]

\* One driver is there, its operations are registered, and it is inside of its write only
\* when the framework is; after a load that succeeded the engine is stopped.
CredMatches ==
  /\ ~(cvp.on /\ pre.on)
  /\ cvp.on => mgr.reg /\ mgr.ops = altera_cvp_ops
  /\ pre.on => mgr.reg /\ mgr.ops = fme_mgr_ops
  /\ cvp.pc # "none" => cvp.on /\ load.pc = "write"
  /\ pre.pc # "none" => pre.on /\ load.pc = "write"
  /\ pre.on /\ LoadDone => ~pre.start

CredInv == cvp \in CvpType /\ pre \in PreType /\ CredMatches /\ CreditLoadTrue
CredIInv == MgrIInv /\ CredInv

\* A step of CvP or its device during a write, or of the attribute, keeps to the credits.
LEMMA CvpMoves ==
  ASSUME CredIInv, cvp.on, UNCHANGED <<mgr_vars, pre>>, cvp' \in CvpType, cvp'.on, cvp'.user = cvp.user,
         cvp'.pc # "none" => load.pc = "write", cvp'.v2 => cvp'.sent <= cvp'.granted
  PROVE  CredIInv'
<1>1. MgrIInv'
  BY MgrNextIInv DEF mgr_vars, CredIInv
<1> QED BY <1>1 DEF mgr_vars, CredIInv, CredInv, CredMatches, CreditLoadTrue, CvpNoOverrun, CvpOperatingUser,
                    FmeNoOverrun, FmeFreshStart, FmeErrorSeen, LoadDone

\* The end of an operation of CvP: it is outside of its write, and a load that is done
\* left the device in user mode.
LEMMA CvpEnds ==
  ASSUME CredIInv, cvp.on, MgrIInv', mgr'.ops = mgr.ops, mgr'.reg = mgr.reg, UNCHANGED pre,
         cvp' \in CvpType, cvp'.on, cvp'.pc = "none", cvp'.v2 => cvp'.sent <= cvp'.granted,
         LoadDone' => cvp'.user
  PROVE  CredIInv'
BY DEF CredIInv, CredInv, CredMatches, CreditLoadTrue, CvpNoOverrun, CvpOperatingUser,
       FmeNoOverrun, FmeFreshStart, FmeErrorSeen

\* CvP and its device: write_init, the blocks of a write, and write_complete.
LEMMA CvpKeeps ==
  ASSUME CredIInv,
         \/ chkcfg_store \/ altera_cvp_write_init \/ cvp_write_begin \/ cvp_device \/ altera_cvp_send_block
         \/ cvp_no_credit \/ altera_cvp_chk_error \/ altera_cvp_write \/ altera_cvp_write_complete
  PROVE  CredIInv'
<1>0. /\ cvp \in CvpType /\ MgrIInv /\ CredMatches
      /\ cvp.on /\ cvp.v2 => cvp.sent <= cvp.granted
      /\ cvp.on => mgr.ops.complete
  BY DEF CredIInv, CredInv, CredMatches, CreditLoadTrue, CvpNoOverrun, altera_cvp_ops, NoOps
<1>1. CASE chkcfg_store
  <2>1. /\ cvp' \in CvpType /\ cvp'.on = cvp.on /\ cvp'.user = cvp.user /\ cvp'.pc = cvp.pc
        /\ cvp'.v2 = cvp.v2 /\ cvp'.sent = cvp.sent /\ cvp'.granted = cvp.granted
    BY <1>0, <1>1 DEF chkcfg_store, CvpType
  <2> QED BY <1>0, <1>1, <2>1, CvpMoves DEF chkcfg_store, CredMatches
<1>2. CASE altera_cvp_write_init
  <2>1. cvp.on /\ load.pc = "write_init" /\ cvp.pc = "none" /\ UNCHANGED pre
    BY <1>0, <1>2 DEF altera_cvp_write_init, CredMatches
  <2>2. ASSUME NEW ok \in BOOLEAN, MgrWriteInit(ok), cvp' \in CvpType, cvp'.on, cvp'.pc = "none",
               cvp'.v2 => cvp'.sent <= cvp'.granted
        PROVE  CredIInv'
    BY <1>0, <2>1, <2>2, CvpEnds, WriteInitFrame, MgrWriteInitKeeps
  <2>3. CASE MgrWriteInit(FALSE) /\ UNCHANGED cvp
    BY <1>0, <2>1, <2>2, <2>3
  <2>4. ASSUME NEW down \in BOOLEAN, NEW up \in BOOLEAN, NEW sound \in BOOLEAN,
               LET c0 == IF cvp.ready THEN altera_cvp_teardown(cvp, down) ELSE cvp IN
               IF c0.ready THEN cvp' = c0 /\ MgrWriteInit(FALSE)
               ELSE \E o \in altera_cvp_v2_clear_state(c0) :
                      LET c1 == [o.c EXCEPT !.sent = 0, !.user = FALSE, !.err = FALSE, !.config = TRUE, !.ready = up] IN
                      IF ~o.ok THEN cvp' = o.c /\ MgrWriteInit(FALSE)
                      ELSE IF ~up \/ (c1.chk /\ ~sound) THEN cvp' = c1 /\ MgrWriteInit(FALSE)
                      ELSE cvp' = [c1 EXCEPT !.xfer = TRUE] /\ MgrWriteInit(TRUE)
        PROVE  CredIInv'
    <3> DEFINE c0 == IF cvp.ready THEN altera_cvp_teardown(cvp, down) ELSE cvp
    <3>1. c0 \in CvpType /\ c0.on /\ c0.pc = "none" /\ (c0.v2 => c0.sent <= c0.granted)
      BY <1>0, <2>1 DEF altera_cvp_teardown, CvpType
    <3>2. CASE c0.ready
      BY <2>2, <2>4, <3>1, <3>2
    <3>3. CASE ~c0.ready
      <4>1. PICK o \in altera_cvp_v2_clear_state(c0) :
              LET c1 == [o.c EXCEPT !.sent = 0, !.user = FALSE, !.err = FALSE, !.config = TRUE, !.ready = up] IN
              IF ~o.ok THEN cvp' = o.c /\ MgrWriteInit(FALSE)
              ELSE IF ~up \/ (c1.chk /\ ~sound) THEN cvp' = c1 /\ MgrWriteInit(FALSE)
              ELSE cvp' = [c1 EXCEPT !.xfer = TRUE] /\ MgrWriteInit(TRUE)
        BY <2>4, <3>3
      <4> HIDE DEF c0
      <4>2. o.c \in CvpType /\ o.c.on /\ o.c.pc = "none" /\ (~o.ok /\ o.c.v2 => o.c.sent <= o.c.granted)
        <5> DEFINE low == [c0 EXCEPT !.xfer = FALSE, !.config = FALSE]
                   gone == [low EXCEPT !.user = FALSE]
                   clear == [low EXCEPT !.granted = Fifo]
        <5>1. low \in CvpType /\ low.on /\ low.pc = "none" /\ low.v2 = c0.v2 /\ low.sent = c0.sent /\ low.granted = c0.granted
          BY <3>1 DEF CvpType
        <5>2. o \in IF ~c0.v2 THEN {[ok |-> TRUE, c |-> c0]}
                    ELSE {[ok |-> FALSE, c |-> c0], [ok |-> FALSE, c |-> gone], [ok |-> TRUE, c |-> clear]}
          BY <4>1 DEF altera_cvp_v2_clear_state
        <5> HIDE DEF low
        <5>3. /\ gone \in CvpType /\ gone.on /\ gone.pc = "none" /\ gone.v2 = c0.v2 /\ gone.sent = c0.sent /\ gone.granted = c0.granted
              /\ clear \in CvpType /\ clear.on /\ clear.pc = "none"
          BY <5>1, CreditAssumption DEF CvpType
        <5> HIDE DEF gone, clear
        <5>4. o.c = c0 \/ o.c = gone \/ (o.c = clear /\ o.ok)
          BY <5>2
        <5> QED BY <3>1, <5>3, <5>4
      <4> DEFINE c == o.c
                 c1 == [c EXCEPT !.sent = 0, !.user = FALSE, !.err = FALSE, !.config = TRUE, !.ready = up]
                 c2 == [c1 EXCEPT !.xfer = TRUE]
      <4>3. c \in CvpType /\ c.on /\ c.pc = "none" /\ (~o.ok /\ c.v2 => c.sent <= c.granted)
        BY <4>2
      <4>4. \/ ~o.ok /\ cvp' = c /\ MgrWriteInit(FALSE)
            \/ cvp' = c1 /\ MgrWriteInit(FALSE)
            \/ cvp' = c2 /\ MgrWriteInit(TRUE)
        BY <4>1
      <4> HIDE DEF c
      <4>5. /\ c1 \in CvpType /\ c1.on /\ c1.pc = "none" /\ c1.sent = 0 /\ c1.granted \in Nat
            /\ c2 \in CvpType /\ c2.on /\ c2.pc = "none" /\ c2.sent = 0 /\ c2.granted \in Nat
        BY <4>3 DEF CvpType
      <4> HIDE DEF c1, c2
      <4>6. \A g \in Nat : 0 <= g
        OBVIOUS
      <4>7. CASE ~o.ok /\ cvp' = c /\ MgrWriteInit(FALSE)
        BY <2>2, <4>3, <4>7
      <4>8. CASE cvp' = c1 /\ MgrWriteInit(FALSE)
        BY <2>2, <4>5, <4>6, <4>8
      <4>9. CASE cvp' = c2 /\ MgrWriteInit(TRUE)
        BY <2>2, <4>5, <4>6, <4>9
      <4> QED BY <4>4, <4>7, <4>8, <4>9
    <3> QED BY <3>2, <3>3
  <2> QED BY <1>2, <2>3, <2>4 DEF altera_cvp_write_init, altera_cvp_wait_status
<1>3. CASE cvp_write_begin
  <2>1. cvp.on /\ load.pc = "write" /\ MgrChunk \in Nat /\ UNCHANGED <<mgr_vars, pre>>
    BY <1>0, <1>3, ChunkIs DEF cvp_write_begin
  <2>2. /\ cvp' \in CvpType /\ cvp'.on = cvp.on /\ cvp'.user = cvp.user
        /\ cvp'.v2 = cvp.v2 /\ cvp'.sent = cvp.sent /\ cvp'.granted = cvp.granted
    BY <1>0, <1>3, <2>1 DEF cvp_write_begin, CvpType
  <2> QED BY <1>0, <2>1, <2>2, CvpMoves
<1>4. CASE cvp_device
  <2>1. cvp.on /\ load.pc = "write" /\ UNCHANGED <<mgr_vars, pre>>
    BY <1>0, <1>4 DEF cvp_device, CredMatches
  <2>2. cvp.sent \in Nat /\ cvp.granted \in Nat /\ cvp.granted + 1 \in Nat
    BY <1>0 DEF CvpType
  <2>3. /\ cvp' \in CvpType /\ cvp'.on = cvp.on /\ cvp'.user = cvp.user
        /\ cvp'.v2 = cvp.v2 /\ cvp'.sent = cvp.sent /\ cvp'.granted \in {cvp.granted, cvp.granted + 1}
    <3>1. CASE cvp' = [cvp EXCEPT !.granted = cvp.granted + 1]
      BY <1>0, <2>2, <3>1 DEF CvpType
    <3>2. CASE cvp' = [cvp EXCEPT !.err = TRUE]
      BY <1>0, <3>2 DEF CvpType
    <3> QED BY <1>4, <3>1, <3>2 DEF cvp_device
  <2> QED BY <1>0, <2>1, <2>2, <2>3, CvpMoves
<1>5. CASE altera_cvp_send_block
  <2>1. cvp.on /\ load.pc = "write" /\ UNCHANGED <<mgr_vars, pre>>
    BY <1>0, <1>5 DEF altera_cvp_send_block, CredMatches
  <2>2. /\ cvp' \in CvpType /\ cvp'.on = cvp.on /\ cvp'.user = cvp.user
        /\ cvp'.v2 = cvp.v2 /\ cvp'.sent = cvp.sent + 1 /\ cvp'.granted = cvp.granted
    <3>1. cvp.left - 1 \in Nat /\ cvp.sent + 1 \in Nat
          /\ (IF cvp.chk THEN "check" ELSE "block") \in {"block", "check"}
      BY <1>0, <1>5 DEF altera_cvp_send_block, CvpType
    <3> DEFINE left == cvp.left - 1
               sent == cvp.sent + 1
               pc == IF cvp.chk THEN "check" ELSE "block"
    <3>2. cvp' = [cvp EXCEPT !.left = left, !.sent = sent, !.pc = pc]
      BY <1>5 DEF altera_cvp_send_block
    <3>3. left \in Nat /\ sent \in Nat /\ pc \in {"block", "check"}
      BY <3>1
    <3> HIDE DEF left, sent, pc
    <3>4. /\ cvp' \in CvpType /\ cvp'.on = cvp.on /\ cvp'.user = cvp.user
          /\ cvp'.v2 = cvp.v2 /\ cvp'.sent = sent /\ cvp'.granted = cvp.granted
      BY <1>0, <3>2, <3>3 DEF CvpType
    <3> QED BY <3>4 DEF sent
  <2>3. cvp.v2 => cvp.sent # cvp.granted
    BY <1>5 DEF altera_cvp_send_block, altera_cvp_v2_wait_for_credit
  <2>4. cvp.sent \in Nat /\ cvp.granted \in Nat
    BY <1>0 DEF CvpType
  <2> QED BY <1>0, <2>1, <2>2, <2>3, <2>4, CvpMoves
<1>6. ASSUME NEW ok \in BOOLEAN, MgrWrite(ok), cvp' = [cvp EXCEPT !.pc = "none"], cvp.on, UNCHANGED pre
      PROVE  CredIInv'
  <2>1. /\ cvp' \in CvpType /\ cvp'.on /\ cvp'.pc = "none" /\ cvp'.v2 = cvp.v2 /\ cvp'.sent = cvp.sent
        /\ cvp'.granted = cvp.granted
    BY <1>0, <1>6 DEF CvpType
  <2> QED BY <1>0, <1>6, <2>1, CvpEnds, WriteFrame, MgrWriteKeeps
<1>7. CASE cvp_no_credit
  BY <1>0, <1>6, <1>7 DEF cvp_no_credit, CredMatches
<1>8. CASE altera_cvp_chk_error
  <2>1. cvp.on /\ load.pc = "write"
    BY <1>0, <1>8 DEF altera_cvp_chk_error, CredMatches
  <2>2. CASE cvp.err
    BY <1>6, <1>8, <2>1, <2>2 DEF altera_cvp_chk_error
  <2>3. CASE ~cvp.err
    <3>1. /\ cvp' \in CvpType /\ cvp'.on = cvp.on /\ cvp'.user = cvp.user /\ UNCHANGED <<mgr_vars, pre>>
          /\ cvp'.v2 = cvp.v2 /\ cvp'.sent = cvp.sent /\ cvp'.granted = cvp.granted
      BY <1>0, <1>8, <2>3 DEF altera_cvp_chk_error, CvpType
    <3> QED BY <1>0, <2>1, <3>1, CvpMoves
  <2> QED BY <2>2, <2>3
<1>9. CASE altera_cvp_write
  BY <1>0, <1>6, <1>9 DEF altera_cvp_write, CredMatches
<1>10. CASE altera_cvp_write_complete
  <2>1. cvp.on /\ cvp.pc = "none" /\ UNCHANGED pre
    BY <1>0, <1>10 DEF altera_cvp_write_complete, CredMatches
  <2>2. PICK up \in BOOLEAN, down \in BOOLEAN :
          cvp' = [altera_cvp_teardown(cvp, down) EXCEPT !.user = up] /\ MgrWriteComplete(up)
    BY <1>0, <1>10 DEF altera_cvp_write_complete, altera_cvp_wait_status, CvpType
  <2>3. /\ cvp' \in CvpType /\ cvp'.on /\ cvp'.pc = "none" /\ cvp'.v2 = cvp.v2 /\ cvp'.sent = cvp.sent
        /\ cvp'.granted = cvp.granted /\ cvp'.user = up
    BY <1>0, <2>1, <2>2 DEF altera_cvp_teardown, CvpType
  <2> QED BY <1>0, <2>1, <2>2, <2>3, CvpEnds, WriteCompleteFrame, MgrWriteCompleteKeeps
<1> QED BY <1>1, <1>2, <1>3, <1>4, <1>5, <1>7, <1>8, <1>9, <1>10

\* The end of an operation of the PR engine: it is outside of its push, what it holds at
\* the first write is nothing, and after a load that is done it is stopped and shows no
\* error.
LEMMA PreEnds ==
  ASSUME CredIInv, pre.on, MgrIInv', mgr'.ops = mgr.ops, mgr'.reg = mgr.reg, UNCHANGED cvp,
         pre' \in PreType, pre'.on, pre'.pc = "none",
         load'.pc = "write" /\ load'.sent = 0 => ~pre'.dirty,
         LoadDone' => ~pre'.start /\ ~pre'.pr_error /\ (pre'.sts => ~pre'.hwerr)
  PROVE  CredIInv'
<1>1. pre'.hw \in Nat
  BY DEF PreType
<1> QED BY <1>1 DEF CredIInv, CredInv, CredMatches, CreditLoadTrue, CvpNoOverrun, CvpOperatingUser,
                    FmeNoOverrun, FmeFreshStart, FmeErrorSeen

\* A step of the engine or its driver during a push keeps to the credits.
LEMMA PreMoves ==
  ASSUME CredIInv, pre.on, load.pc = "write", UNCHANGED <<mgr_vars, cvp>>, pre' \in PreType, pre'.on,
         pre'.pc = "push", pre'.credit <= pre'.hw
  PROVE  CredIInv'
<1>1. MgrIInv'
  BY MgrNextIInv DEF mgr_vars, CredIInv
<1>2. pre'.hw \in Nat
  BY DEF PreType
<1> QED BY <1>1, <1>2
        DEF mgr_vars, CredIInv, CredInv, CredMatches, CreditLoadTrue, CvpNoOverrun, CvpOperatingUser,
            FmeNoOverrun, FmeFreshStart, FmeErrorSeen, LoadDone

\* What the engine does by itself, from the start of a load on: it makes room, or changes
\* its status bit and error.
LEMMA PreDevice ==
  ASSUME CredIInv, pre_device
  PROVE  CredIInv'
<1>0. /\ pre \in PreType /\ CredMatches /\ ~LoadDone /\ pre.on /\ UNCHANGED <<mgr_vars, cvp>>
      /\ pre.hw \in Nat /\ pre.hw + 1 \in Nat /\ pre.credit \in Nat
  BY DEF pre_device, CredIInv, CredInv, CredMatches, PreType
<1>1. MgrIInv'
  BY <1>0, MgrNextIInv DEF mgr_vars, CredIInv
<1>2. /\ pre' \in PreType /\ pre'.on /\ pre'.pc = pre.pc /\ pre'.credit = pre.credit /\ pre'.dirty = pre.dirty
      /\ pre'.hw \in {pre.hw, pre.hw + 1}
  <2>1. CASE pre' = [pre EXCEPT !.hw = pre.hw + 1]
    BY <1>0, <2>1 DEF PreType
  <2>2. CASE pre' = [pre EXCEPT !.sts = ~pre.sts]
    BY <1>0, <2>2 DEF PreType
  <2>3. CASE pre' = [pre EXCEPT !.hwerr = TRUE]
    BY <1>0, <2>3 DEF PreType
  <2> QED BY <2>1, <2>2, <2>3 DEF pre_device
<1>3. FmeNoOverrun'
  BY <1>0, <1>2 DEF FmeNoOverrun, CredIInv, CredInv, CreditLoadTrue
<1> QED BY <1>0, <1>1, <1>2, <1>3
        DEF mgr_vars, CredIInv, CredInv, CredMatches, CreditLoadTrue, CvpNoOverrun, CvpOperatingUser,
            FmeFreshStart, FmeErrorSeen, LoadDone

\* The partial reconfiguration engine of the FME: write_init, the push, write_complete.
LEMMA PreKeeps ==
  ASSUME CredIInv,
         \/ fme_mgr_write_init \/ fme_write_begin \/ pre_device \/ fme_push \/ fme_wait_credit
         \/ fme_mgr_write \/ fme_mgr_write_complete
  PROVE  CredIInv'
<1>0. /\ pre \in PreType /\ MgrIInv /\ CredMatches
      /\ pre.on /\ pre.pc = "push" => pre.credit <= pre.hw
      /\ pre.on => mgr.ops.complete
  BY DEF CredIInv, CredInv, CredMatches, CreditLoadTrue, FmeNoOverrun, fme_mgr_ops, NoOps
<1>1. pre.left \in Nat /\ pre.credit \in Nat /\ pre.hw \in Nat /\ pre.waits \in Nat
  BY <1>0 DEF PreType
<1>2. CASE fme_mgr_write_init
  <2>1. pre.on /\ load.pc = "write_init" /\ pre.pc = "none" /\ UNCHANGED cvp
    BY <1>0, <1>2 DEF fme_mgr_write_init, CredMatches
  <2>2. ASSUME NEW ok \in BOOLEAN, MgrWriteInit(ok), pre' \in PreType, pre'.on, pre'.pc = "none",
               ok => ~pre'.dirty
        PROVE  CredIInv'
    BY <1>0, <2>1, <2>2, PreEnds, WriteInitFrame, MgrWriteInitKeeps
  <2>3. CASE MgrWriteInit(FALSE) /\ UNCHANGED pre
    BY <1>0, <2>1, <2>2, <2>3
  <2>4. ASSUME NEW busy \in BOOLEAN, MgrWriteInit(~busy),
               pre' = fme_mgr_pr_error_handle([pre EXCEPT !.start = FALSE, !.dirty = FALSE, !.hw = Fifo, !.sts = busy])
        PROVE  CredIInv'
    <3>1. pre' \in PreType /\ pre'.on /\ pre'.pc = "none" /\ ~pre'.dirty
      BY <1>0, <2>1, <2>4, CreditAssumption DEF fme_mgr_pr_error_handle, PreType
    <3> QED BY <2>2, <2>4, <3>1
  <2> QED BY <1>2, <2>3, <2>4 DEF fme_mgr_write_init
<1>3. CASE fme_write_begin
  <2>1. pre.on /\ load.pc = "write" /\ MgrChunk \in Nat /\ UNCHANGED <<mgr_vars, cvp>>
    BY <1>0, <1>3, ChunkIs DEF fme_write_begin
  <2>2. pre' \in PreType /\ pre'.on /\ pre'.pc = "push" /\ pre'.credit = pre.hw /\ pre'.hw = pre.hw
    BY <1>0, <1>3, <2>1 DEF fme_write_begin, PreType
  <2> QED BY <1>1, <2>1, <2>2, PreMoves
<1>4. CASE pre_device
  BY <1>4, PreDevice
<1>5. CASE fme_push
  <2>1. pre.on /\ load.pc = "write" /\ pre.pc = "push" /\ UNCHANGED <<mgr_vars, cvp>>
    BY <1>0, <1>5 DEF fme_push, CredMatches
  <2> DEFINE left == pre.left - 1
             credit == pre.credit - 1
             hw == pre.hw - 1
  <2>2. left \in Nat /\ credit \in Nat /\ hw \in Nat /\ credit <= hw
    BY <1>0, <1>1, <1>5, <2>1 DEF fme_push
  <2>3. pre' = [pre EXCEPT !.left = left, !.credit = credit, !.hw = hw, !.dirty = TRUE]
    BY <1>5 DEF fme_push
  <2> HIDE DEF left, credit, hw
  <2>4. pre' \in PreType /\ pre'.on /\ pre'.pc = "push" /\ pre'.credit = credit /\ pre'.hw = hw
    BY <1>0, <2>1, <2>2, <2>3 DEF PreType
  <2> QED BY <2>1, <2>2, <2>4, PreMoves
<1>6. ASSUME NEW ok \in BOOLEAN, MgrWrite(ok), pre' = [pre EXCEPT !.pc = "none"], pre.on, UNCHANGED cvp
      PROVE  CredIInv'
  <2>1. pre' \in PreType /\ pre'.on /\ pre'.pc = "none"
    BY <1>0, <1>6 DEF PreType
  <2>2. load'.pc = "write" => load'.sent # 0
    BY <1>0, <1>6, WriteFrame
  <2> QED BY <1>0, <1>6, <2>1, <2>2, PreEnds, WriteFrame, MgrWriteKeeps
<1>7. CASE fme_wait_credit
  <2>1. pre.on /\ load.pc = "write" /\ pre.pc = "push"
    BY <1>0, <1>7 DEF fme_wait_credit, CredMatches
  <2>2. CASE MgrWrite(FALSE) /\ pre' = [pre EXCEPT !.pc = "none"] /\ UNCHANGED cvp
    BY <1>6, <2>1, <2>2
  <2>3. CASE pre' = [pre EXCEPT !.waits = pre.waits + 1, !.credit = pre.hw] /\ UNCHANGED <<mgr_vars, cvp>>
    <3>1. pre.waits + 1 \in Nat
      BY <1>1
    <3>2. pre' \in PreType /\ pre'.on /\ pre'.pc = "push" /\ pre'.credit = pre.hw /\ pre'.hw = pre.hw
      BY <1>0, <1>1, <2>1, <2>3, <3>1 DEF PreType
    <3> QED BY <1>1, <2>1, <2>3, <3>2, PreMoves
  <2> QED BY <1>7, <2>2, <2>3 DEF fme_wait_credit, mgr_vars
<1>8. CASE fme_mgr_write
  BY <1>0, <1>6, <1>8 DEF fme_mgr_write, CredMatches
<1>9. CASE fme_mgr_write_complete
  <2>1. pre.on /\ pre.pc = "none" /\ UNCHANGED cvp
    BY <1>0, <1>9 DEF fme_mgr_write_complete, CredMatches
  <2>2. ASSUME NEW ok \in BOOLEAN, MgrWriteComplete(ok), pre' \in PreType, pre'.on, pre'.pc = "none",
               ok => ~pre'.start /\ ~pre'.pr_error /\ (pre'.sts => ~pre'.hwerr)
        PROVE  CredIInv'
    BY <1>0, <2>1, <2>2, PreEnds, WriteCompleteFrame, MgrWriteCompleteKeeps
  <2>3. CASE MgrWriteComplete(FALSE) /\ UNCHANGED pre
    BY <1>0, <2>1, <2>2, <2>3
  <2>4. CASE /\ pre' = fme_mgr_pr_error_handle([pre EXCEPT !.start = FALSE, !.dirty = FALSE])
             /\ MgrWriteComplete(~(pre.sts /\ pre.hwerr))
    <3>1. /\ pre' \in PreType /\ pre'.on /\ pre'.pc = "none" /\ ~pre'.start /\ (pre'.sts => ~pre'.hwerr)
          /\ ~(pre.sts /\ pre.hwerr) => ~pre'.pr_error
      BY <1>0, <2>1, <2>4 DEF fme_mgr_pr_error_handle, PreType
    <3> QED BY <2>2, <2>4, <3>1
  <2> QED BY <1>9, <2>3, <2>4 DEF fme_mgr_write_complete
<1> QED BY <1>2, <1>3, <1>4, <1>5, <1>7, <1>8, <1>9

\* A driver registers or goes, on a manager nobody has got.
LEMMA CredRegisters ==
  ASSUME CredIInv,
         \/ altera_cvp_probe \/ altera_cvp_remove \/ fme_mgr_probe
         \/ fpga_mgr_unregister /\ pre.on /\ pre' = PreOff /\ UNCHANGED cvp
  PROVE  CredIInv'
<1>0. /\ cvp \in CvpType /\ pre \in PreType /\ MgrIInv /\ CredMatches
      /\ mgr \in [reg : BOOLEAN, ops : MgrOps, state : FpgaMgrStates,
                  lock : MgrUsers \cup {NoUser}, refs : SUBSET MgrUsers]
  BY DEF CredIInv, CredInv, MgrIInv, MgrTyped
<1>1. /\ altera_cvp_ops \in MgrOps /\ fme_mgr_ops \in MgrOps
      /\ {"unknown", "operating", "power up"} \subseteq FpgaMgrStates
  BY DEF altera_cvp_ops, fme_mgr_ops, NoOps, MgrOps, FpgaMgrStates
<1>2. /\ CvpOff \in CvpType /\ ~CvpOff.on /\ CvpOff.pc = "none"
      /\ PreOff \in PreType /\ ~PreOff.on /\ PreOff.pc = "none"
  BY DEF CvpOff, CvpType, PreOff, PreType
<1>3. ASSUME NEW ops \in MgrOps, NEW s \in FpgaMgrStates, fpga_mgr_register_full(ops, s),
             cvp' \in CvpType, pre' \in PreType, cvp'.pc = "none", pre'.pc = "none", cvp'.sent <= cvp'.granted,
             pre'.hw \in Nat, ~(cvp'.on /\ pre'.on), cvp'.on => ops = altera_cvp_ops,
             pre'.on => ops = fme_mgr_ops
      PROVE  CredIInv'
  <2>1. MgrIInv'
    BY <1>0, <1>1, <1>3, RegisterKeeps
  <2>2. mgr'.reg /\ mgr'.ops = ops /\ load'.pc = "none" /\ load'.ret = "none"
    BY <1>0, <1>3 DEF fpga_mgr_register_full, NoLoad
  <2>3. ~LoadDone' /\ load'.pc # "write"
    BY <2>2 DEF LoadDone
  <2>4. CredMatches'
    BY <1>3, <2>2, <2>3 DEF CredMatches
  <2>5. CreditLoadTrue'
    <3>1. CvpNoOverrun' /\ CvpOperatingUser'
      BY <1>3, <2>3 DEF CvpNoOverrun, CvpOperatingUser
    <3>2. pre'.hw >= 0
      BY <1>3
    <3>3. FmeNoOverrun'
      BY <1>3, <3>2 DEF FmeNoOverrun
    <3>4. FmeFreshStart' /\ FmeErrorSeen'
      BY <2>3 DEF FmeFreshStart, FmeErrorSeen
    <3> QED BY <3>1, <3>3, <3>4 DEF CreditLoadTrue
  <2> QED BY <1>3, <2>1, <2>4, <2>5 DEF CredIInv, CredInv
<1>4. ~mgr.reg => cvp.pc = "none" /\ pre.pc = "none" /\ ~cvp.on /\ ~pre.on
  BY <1>0 DEF CredMatches
<1>5. CASE altera_cvp_probe
  <2>1. ASSUME NEW v2 \in BOOLEAN, NEW chk \in BOOLEAN, NEW user \in BOOLEAN, NEW en \in BOOLEAN,
               cvp' = [CvpOff EXCEPT !.on = TRUE, !.v2 = v2, !.chk = chk, !.user = user, !.mem = TRUE],
               fpga_mgr_register_full(altera_cvp_ops, altera_cvp_state(user, en)), UNCHANGED pre
        PROVE  CredIInv'
    <3>1. cvp' \in CvpType /\ cvp'.pc = "none" /\ cvp'.sent = 0 /\ cvp'.granted = 0
      BY <2>1 DEF CvpOff, CvpType
    <3>2. pre.hw \in Nat /\ ~mgr.reg /\ altera_cvp_state(user, en) \in FpgaMgrStates
      BY <1>0, <1>1, <2>1 DEF PreType, fpga_mgr_register_full, altera_cvp_state
    <3>3. pre' = pre /\ cvp'.sent <= cvp'.granted
      BY <2>1, <3>1
    <3>4. pre \in PreType /\ pre.pc = "none" /\ ~pre.on /\ altera_cvp_ops \in MgrOps
      BY <1>0, <1>1, <1>4, <3>2
    <3>5. pre' \in PreType /\ pre'.pc = "none" /\ pre'.hw \in Nat /\ ~pre'.on
      BY <3>2, <3>3, <3>4
    <3> QED BY <1>3, <2>1, <3>1, <3>2, <3>3, <3>4, <3>5
  <2>2. CASE ~mgr.reg /\ cvp' = CvpOff /\ UNCHANGED mgr_vars /\ UNCHANGED pre
    <3>1. MgrIInv'
      BY <1>0, <2>2, MgrNextIInv
    <3> QED BY <1>0, <1>2, <1>4, <2>2, <3>1
            DEF mgr_vars, CredIInv, CredInv, CredMatches, CreditLoadTrue, CvpNoOverrun, CvpOperatingUser,
                FmeNoOverrun, FmeFreshStart, FmeErrorSeen
  <2> QED BY <1>5, <2>1, <2>2 DEF altera_cvp_probe
<1>6. CASE fme_mgr_probe
  <2>1. pre' \in PreType /\ pre'.pc = "none" /\ pre'.hw = 0
    <3>1. PICK sts, hwerr \in BOOLEAN : pre' = [PreOff EXCEPT !.on = TRUE, !.sts = sts, !.hwerr = hwerr]
      BY <1>6 DEF fme_mgr_probe
    <3> QED BY <3>1 DEF PreOff, PreType
  <2>2. ~mgr.reg /\ UNCHANGED cvp /\ fpga_mgr_register_full(fme_mgr_ops, "unknown")
    BY <1>6 DEF fme_mgr_probe, fpga_mgr_register_full
  <2>3. ~cvp.on
    BY <1>4, <2>2
  <2>4. MgrIInv'
    BY <1>0, <1>1, <2>2, RegisterKeeps
  <2>5. mgr'.reg /\ mgr'.ops = fme_mgr_ops /\ load'.pc = "none" /\ load'.ret = "none"
    BY <1>0, <2>2 DEF fpga_mgr_register_full, NoLoad
  <2> QED BY <1>0, <1>4, <2>1, <2>2, <2>3, <2>4, <2>5
          DEF CredIInv, CredInv, CredMatches, CreditLoadTrue, CvpNoOverrun, CvpOperatingUser,
              FmeNoOverrun, FmeFreshStart, FmeErrorSeen, LoadDone
<1>7. ASSUME fpga_mgr_unregister, cvp' \in CvpType, pre' \in PreType, ~cvp'.on, ~pre'.on,
             cvp'.pc = "none", pre'.pc = "none"
      PROVE  CredIInv'
  <2>1. MgrIInv'
    BY <1>0, <1>7, HoldersKeep
  <2> QED BY <1>7, <2>1 DEF CredIInv, CredInv, CredMatches, CreditLoadTrue, CvpNoOverrun, CvpOperatingUser,
                            FmeNoOverrun, FmeFreshStart, FmeErrorSeen
<1>8. CASE altera_cvp_remove
  BY <1>0, <1>2, <1>7, <1>8 DEF altera_cvp_remove, CredMatches
<1>9. CASE fpga_mgr_unregister /\ pre.on /\ pre' = PreOff /\ UNCHANGED cvp
  BY <1>0, <1>2, <1>7, <1>9 DEF CredMatches
<1> QED BY <1>5, <1>6, <1>8, <1>9

\* Every step keeps the invariant of framework and drivers.
LEMMA CredNextIInv == CredIInv /\ [CredNext]_cred_vars => CredIInv'
<1> SUFFICES ASSUME CredIInv, [CredNext]_cred_vars PROVE CredIInv'
  OBVIOUS
<1>1. CASE MgrFramework(BOOLEAN) /\ UNCHANGED <<cvp, pre>> /\ mgr'.reg = mgr.reg
  <2>1. MgrIInv'
    BY <1>1, FrameworkKeeps DEF CredIInv
  <2>2. /\ mgr'.ops = mgr.ops
        /\ \/ load' = load
           \/ load.pc \notin {"write_init", "write", "write_complete"} /\ load'.pc # "write" /\ ~LoadDone'
    BY <1>1, FrameworkFrame DEF CredIInv
  <2> QED BY <1>1, <2>1, <2>2
          DEF CredIInv, CredInv, CredMatches, CreditLoadTrue, CvpNoOverrun, CvpOperatingUser,
              FmeNoOverrun, FmeFreshStart, FmeErrorSeen, LoadDone
<1>2. CASE UNCHANGED cred_vars
  <2>1. MgrIInv'
    BY <1>2, MgrNextIInv DEF cred_vars, CredIInv
  <2> QED BY <1>2, <2>1
          DEF cred_vars, mgr_vars, CredIInv, CredInv, CredMatches, CreditLoadTrue, CvpNoOverrun,
              CvpOperatingUser, FmeNoOverrun, FmeFreshStart, FmeErrorSeen, LoadDone
<1> QED BY <1>1, <1>2, CredRegisters, CvpKeeps, PreKeeps DEF CredNext

\* CvP and the partial reconfiguration engine in the framework, for any users and images,
\* any credits and wrap of the credit register: no block is sent without room for it, the
\* engine holds no data of an earlier load when data is pushed, and a load that succeeds
\* left the device in user mode, or the engine with no error that its status bit reports.
\* Whether an error without that bit, or of an earlier load, is left is not said.
THEOREM CreditIsTrue == CredSpec => []CreditLoadTrue /\ []MgrLoadTrue
<1>1. CredInit => CredIInv
  <2> SUFFICES ASSUME CredInit PROVE CredIInv
    OBVIOUS
  <2>1. MgrIInv
    BY MgrInitIInv DEF CredInit
  <2> QED BY <2>1 DEF CredInit, MgrInit, CvpOff, PreOff, CvpType, PreType, CredIInv, CredInv, CredMatches,
                      CreditLoadTrue, CvpNoOverrun, CvpOperatingUser, FmeNoOverrun, FmeFreshStart, FmeErrorSeen
<1>2. CredIInv => CreditLoadTrue /\ MgrLoadTrue
  BY MgrImplies DEF CredIInv, CredInv
<1> QED BY <1>1, <1>2, CredNextIInv, PTL DEF CredSpec

-----------------------------------------------------------------------------
(* The managers of Cyclone V and Arria 10.                                 *)

SocType ==
  [kind : {"none", "socfpga", "a10"}, pc : {"none", "wait", "finish"}, en : BOOLEAN, axi : BOOLEAN,
   irq : BOOLEAN, done : BOOLEAN, pr : BOOLEAN, sel : BOOLEAN, ratio : Nat]
FabType == [mode : {"off", "reset", "cfg", "user"}, confdone : BOOLEAN]

\* The operations registered are the driver's, and a wait for the device is a part of
\* write_complete.
SocMatches ==
  /\ soc.kind = "socfpga" => mgr.ops = socfpga_fpga_ops
  /\ soc.kind = "a10" => mgr.ops = socfpga_a10_fpga_mgr_ops
  /\ soc.pc # "none" => soc.kind = "socfpga" /\ load.pc = "write_complete"

\* A load is done only on a device in user mode.
SocRuns == LoadDone /\ soc.kind # "none" => fab.mode = "user"

SocInv == soc \in SocType /\ fab \in FabType /\ SocMatches /\ SocRuns /\ SocIrqOnlyInWait /\ A10Released
SocIInv == MgrIInv /\ SocInv

\* A driver registers on a device in some mode.
LEMMA SocRegisters ==
  ASSUME SocIInv, socfpga_fpga_probe \/ socfpga_a10_fpga_probe
  PROVE  SocIInv'
<1>1. ASSUME NEW ops \in MgrOps, NEW s \in FpgaMgrStates, fpga_mgr_register_full(ops, s),
             NEW kind \in {"socfpga", "a10"}, soc' = [SocOff EXCEPT !.kind = kind], fab' \in FabType,
             kind = "socfpga" => ops = socfpga_fpga_ops, kind = "a10" => ops = socfpga_a10_fpga_mgr_ops
      PROVE  SocIInv'
  <2>1. MgrIInv'
    BY <1>1, RegisterKeeps DEF SocIInv
  <2>2. mgr'.ops = ops /\ load'.pc = "none" /\ load'.ret = "none" /\ load'.user = NoUser
    BY <1>1 DEF fpga_mgr_register_full, NoLoad, SocIInv, MgrIInv, MgrTyped
  <2>3. soc' \in SocType /\ soc'.kind = kind /\ soc'.pc = "none" /\ ~soc'.irq
    BY <1>1 DEF SocOff, SocType
  <2> QED BY <1>1, <2>1, <2>2, <2>3
          DEF SocIInv, SocInv, SocMatches, SocRuns, SocIrqOnlyInWait, A10Released, LoadDone
<1>2. /\ socfpga_fpga_ops \in MgrOps /\ socfpga_a10_fpga_mgr_ops \in MgrOps
      /\ \A mode \in {"off", "cfg", "user"} : socfpga_state_to_framework_state(mode) \in FpgaMgrStates
      /\ \A mode \in {"cfg", "user"} : socfpga_a10_fpga_state(mode) \in FpgaMgrStates
      /\ \A mode \in {"off", "cfg", "user"} : [mode |-> mode, confdone |-> mode = "user"] \in FabType
  BY DEF socfpga_fpga_ops, socfpga_a10_fpga_mgr_ops, NoOps, MgrOps, FpgaMgrStates,
         socfpga_state_to_framework_state, socfpga_a10_fpga_state, FabType
<1>3. CASE socfpga_fpga_probe
  BY <1>1, <1>2, <1>3 DEF socfpga_fpga_probe
<1>4. CASE socfpga_a10_fpga_probe
  BY <1>1, <1>2, <1>4 DEF socfpga_a10_fpga_probe
<1> QED BY <1>3, <1>4

\* A step of the driver that is not the end of an operation, or of the device.
LEMMA SocMoves ==
  ASSUME SocIInv, load.pc = "write_complete", UNCHANGED mgr_vars, soc' \in SocType, fab' \in FabType,
         soc'.kind = soc.kind, soc'.pc # "none" => soc.kind = "socfpga", soc'.irq => soc'.pc = "wait"
  PROVE  SocIInv'
<1>1. MgrIInv'
  BY MgrNextIInv DEF SocIInv
<1> QED BY <1>1 DEF mgr_vars, SocIInv, SocInv, SocMatches, SocRuns, SocIrqOnlyInWait, A10Released, LoadDone

\* The end of an operation: the interrupt is off, a load that is done runs, and behind a
\* write_complete of Arria 10 there is no request.
LEMMA SocEnds ==
  ASSUME SocIInv, MgrIInv', mgr'.ops = mgr.ops, soc' \in SocType, fab' \in FabType, soc'.kind = soc.kind,
         soc'.pc = "none", ~soc'.irq, LoadDone' => fab'.mode = "user",
         soc.kind = "a10" /\ PastComplete' => ~soc'.pr /\ ~soc'.sel
  PROVE  SocIInv'
BY DEF SocIInv, SocInv, SocMatches, SocRuns, SocIrqOnlyInWait, A10Released, PastComplete

\* Cyclone V: write_init, write, and the wait for the end of the configuration.
LEMMA SocfpgaKeeps ==
  ASSUME SocIInv,
         \/ socfpga_fpga_ops_configure_init \/ socfpga_fpga_ops_configure_write \/ fab_conf_done
         \/ socfpga_fpga_wait_for_config_done \/ socfpga_fpga_isr \/ socfpga_config_wait_end
         \/ socfpga_fpga_ops_configure_complete
  PROVE  SocIInv'
<1>0. /\ soc \in SocType /\ fab \in FabType /\ MgrIInv /\ SocMatches /\ SocIrqOnlyInWait
      /\ soc.kind = "socfpga" => mgr.ops.complete
  BY DEF SocIInv, SocInv, SocMatches, socfpga_fpga_ops, NoOps
<1>1. CASE socfpga_fpga_ops_configure_init
  <2>1. soc.kind = "socfpga" /\ soc.pc = "none" /\ ~soc.irq
    BY <1>0, <1>1 DEF socfpga_fpga_ops_configure_init, SocIs, SocIrqOnlyInWait
  <2>2. ASSUME NEW ok \in BOOLEAN, MgrWriteInit(ok), soc' \in SocType, fab' \in FabType,
               soc'.kind = soc.kind, soc'.pc = "none", ~soc'.irq
        PROVE  SocIInv'
    BY <1>0, <2>1, <2>2, SocEnds, WriteInitFrame, MgrWriteInitKeeps
  <2>3. CASE MgrWriteInit(FALSE) /\ UNCHANGED <<soc, fab>>
    BY <1>0, <2>1, <2>2, <2>3
  <2>4. ASSUME NEW cfg \in BOOLEAN, NEW reset \in BOOLEAN, socfpga_fpga_reset(cfg, reset), MgrWriteInit(FALSE)
        PROVE  SocIInv'
    <3>1. soc' \in SocType /\ fab' \in FabType /\ soc'.kind = soc.kind /\ soc'.pc = "none" /\ ~soc'.irq
      BY <1>0, <2>1, <2>4 DEF socfpga_fpga_reset, SocType, FabType
    <3> QED BY <2>2, <2>4, <3>1
  <2>5. CASE /\ soc' = [soc EXCEPT !.en = TRUE, !.axi = TRUE] /\ fab' = [mode |-> "cfg", confdone |-> FALSE]
             /\ MgrWriteInit(TRUE)
    <3>1. soc' \in SocType /\ fab' \in FabType /\ soc'.kind = soc.kind /\ soc'.pc = "none" /\ ~soc'.irq
      BY <1>0, <2>1, <2>5 DEF SocType, FabType
    <3> QED BY <2>2, <2>5, <3>1
  <2> QED BY <1>1, <2>3, <2>4, <2>5
          DEF socfpga_fpga_ops_configure_init, socfpga_fpga_cfg_mode_set, socfpga_fpga_wait_for_state
<1>2. CASE socfpga_fpga_ops_configure_write
  <2>1. /\ soc.kind = "socfpga" /\ soc.pc = "none" /\ ~soc.irq /\ UNCHANGED <<soc, fab>>
        /\ MgrWrite(MgrChunk > 0)
    BY <1>0, <1>2 DEF socfpga_fpga_ops_configure_write, SocIs, SocIrqOnlyInWait
  <2>2. (MgrChunk > 0) \in BOOLEAN
    OBVIOUS
  <2> QED BY <1>0, <2>1, <2>2, SocEnds, WriteFrame, MgrWriteKeeps
<1>3. CASE fab_conf_done
  <2>1. fab' \in FabType
    BY <1>0, <1>3 DEF fab_conf_done, FabType
  <2> QED BY <1>0, <1>3, <2>1, SocMoves DEF fab_conf_done, SocIrqOnlyInWait, SocMatches
<1>4. CASE socfpga_fpga_wait_for_config_done
  <2>1. soc' \in SocType /\ soc'.kind = soc.kind /\ soc'.pc = "wait"
    BY <1>0, <1>4 DEF socfpga_fpga_wait_for_config_done, SocType
  <2> QED BY <1>0, <1>4, <2>1, SocMoves DEF socfpga_fpga_wait_for_config_done, SocIs
<1>5. CASE socfpga_fpga_isr
  <2>1. soc.pc = "wait"
    BY <1>0, <1>5 DEF socfpga_fpga_isr, SocIrqOnlyInWait
  <2>2. soc' \in SocType /\ soc'.kind = soc.kind /\ ~soc'.irq
    BY <1>0, <1>5 DEF socfpga_fpga_isr, SocType
  <2> QED BY <1>0, <1>5, <2>1, <2>2, SocMoves DEF socfpga_fpga_isr, SocMatches
<1>6. ASSUME NEW ok \in BOOLEAN, MgrWriteComplete(ok), soc.kind = "socfpga", soc' \in SocType, fab' \in FabType,
             soc'.kind = soc.kind, soc'.pc = "none", ~soc'.irq, ok => fab'.mode = "user"
      PROVE  SocIInv'
  BY <1>0, <1>6, SocEnds, WriteCompleteFrame, MgrWriteCompleteKeeps
<1>7. CASE socfpga_config_wait_end
  <2>1. soc.kind = "socfpga" /\ load.pc = "write_complete" /\ UNCHANGED fab
    BY <1>0, <1>7 DEF socfpga_config_wait_end, SocMatches
  <2>2. CASE soc' = [soc EXCEPT !.pc = "none", !.irq = FALSE] /\ MgrWriteComplete(FALSE)
    <3>1. soc' \in SocType /\ soc'.kind = soc.kind /\ soc'.pc = "none" /\ ~soc'.irq
      BY <1>0, <2>2 DEF SocType
    <3> QED BY <1>0, <1>6, <2>1, <2>2, <3>1
  <2>3. CASE soc' = [soc EXCEPT !.pc = "finish", !.irq = FALSE] /\ UNCHANGED mgr_vars
    <3>1. soc' \in SocType /\ soc'.kind = soc.kind /\ ~soc'.irq
      BY <1>0, <2>3 DEF SocType
    <3> QED BY <1>0, <2>1, <2>3, <3>1, SocMoves
  <2> QED BY <1>7, <2>2, <2>3 DEF socfpga_config_wait_end
<1>8. CASE socfpga_fpga_ops_configure_complete
  <2>1. soc.kind = "socfpga" /\ ~soc.irq
    BY <1>0, <1>8 DEF socfpga_fpga_ops_configure_complete, SocMatches, SocIrqOnlyInWait
  <2>2. PICK up \in BOOLEAN :
          /\ soc' = [soc EXCEPT !.pc = "none", !.axi = FALSE, !.en = soc.en /\ ~up]
          /\ fab' = [fab EXCEPT !.mode = IF up THEN "user" ELSE fab.mode]
          /\ MgrWriteComplete(up)
    BY <1>0, <1>8 DEF socfpga_fpga_ops_configure_complete, FabType
  <2>3. soc' \in SocType /\ soc'.kind = soc.kind /\ soc'.pc = "none" /\ ~soc'.irq
    BY <1>0, <2>1, <2>2 DEF SocType
  <2>4. fab' \in FabType /\ (up => fab'.mode = "user")
    BY <1>0, <2>2 DEF FabType
  <2> QED BY <1>6, <2>1, <2>2, <2>3, <2>4
<1> QED BY <1>1, <1>2, <1>3, <1>4, <1>5, <1>7, <1>8

\* Arria 10: write_init with its request, write, and write_complete which withdraws it.
LEMMA A10Keeps ==
  ASSUME SocIInv, socfpga_a10_fpga_write_init \/ socfpga_a10_fpga_write \/ socfpga_a10_fpga_write_complete
  PROVE  SocIInv'
<1>0. /\ soc \in SocType /\ fab \in FabType /\ MgrIInv /\ SocMatches /\ SocIrqOnlyInWait
      /\ soc.kind = "a10" /\ soc.pc = "none" /\ ~soc.irq /\ mgr.ops.complete
  BY DEF SocIInv, SocInv, SocMatches, SocIrqOnlyInWait, socfpga_a10_fpga_mgr_ops, NoOps, SocIs,
         socfpga_a10_fpga_write_init, socfpga_a10_fpga_write, socfpga_a10_fpga_write_complete
<1>1. CASE socfpga_a10_fpga_write_init
  <2>1. ASSUME NEW ok \in BOOLEAN, MgrWriteInit(ok), soc' \in SocType, soc'.kind = soc.kind, soc'.pc = "none",
               ~soc'.irq, UNCHANGED fab
        PROVE  SocIInv'
    BY <1>0, <2>1, SocEnds, WriteInitFrame, MgrWriteInitKeeps
  <2>2. CASE MgrWriteInit(FALSE) /\ UNCHANGED soc /\ UNCHANGED fab
    BY <1>0, <2>1, <2>2
  <2>3. ASSUME NEW encrypt \in BOOLEAN, NEW compress \in BOOLEAN, NEW ready \in BOOLEAN,
               soc' = [soc EXCEPT !.sel = TRUE, !.pr = TRUE,
                                  !.ratio = socfpga_a10_fpga_set_cdratio(encrypt, compress)],
               MgrWriteInit(ready), UNCHANGED fab
        PROVE  SocIInv'
    <3>1. socfpga_a10_fpga_set_cdratio(encrypt, compress) \in Nat
      BY DEF socfpga_a10_fpga_set_cdratio, socfpga_a10_fpga_get_cd_ratio
    <3>2. soc' \in SocType /\ soc'.kind = soc.kind /\ soc'.pc = "none" /\ ~soc'.irq
      BY <1>0, <2>3, <3>1 DEF SocType
    <3> QED BY <2>1, <2>3, <3>2
  <2> QED BY <1>1, <2>2, <2>3 DEF socfpga_a10_fpga_write_init, socfpga_a10_fpga_wait_for_pr_ready
<1>2. CASE socfpga_a10_fpga_write
  <2>1. fab' \in FabType /\ UNCHANGED soc /\ MgrWrite(MgrChunk > 0)
    BY <1>0, <1>2 DEF socfpga_a10_fpga_write, FabType
  <2>2. (MgrChunk > 0) \in BOOLEAN
    OBVIOUS
  <2> QED BY <1>0, <2>1, <2>2, SocEnds, WriteFrame, MgrWriteKeeps
<1>3. CASE socfpga_a10_fpga_write_complete
  <2>1. PICK ok \in BOOLEAN, mode \in {"cfg", "user"} :
          /\ fab' = [mode |-> mode, confdone |-> mode = "user"]
          /\ MgrWriteComplete(ok) /\ (ok => mode = "user")
    BY <1>3 DEF socfpga_a10_fpga_write_complete, socfpga_a10_fpga_wait_for_pr_done
  <2>2. soc' \in SocType /\ soc'.kind = soc.kind /\ soc'.pc = "none" /\ ~soc'.irq /\ ~soc'.pr /\ ~soc'.sel
    BY <1>0, <1>3 DEF socfpga_a10_fpga_write_complete, SocType
  <2>3. fab' \in FabType /\ (ok => fab'.mode = "user")
    BY <2>1 DEF FabType
  <2> QED BY <1>0, <2>1, <2>2, <2>3, SocEnds, WriteCompleteFrame, MgrWriteCompleteKeeps
<1> QED BY <1>1, <1>2, <1>3

\* Every step keeps the invariant of framework and drivers.
LEMMA SocNextIInv == SocIInv /\ [SocNext]_soc_vars => SocIInv'
<1> SUFFICES ASSUME SocIInv, [SocNext]_soc_vars PROVE SocIInv'
  OBVIOUS
<1>1. CASE MgrFramework(BOOLEAN) /\ UNCHANGED <<soc, fab>>
  <2>1. MgrIInv'
    BY <1>1, FrameworkKeeps DEF SocIInv
  <2>2. /\ mgr'.ops = mgr.ops
        /\ \/ load' = load /\ mgr'.state = mgr.state
           \/ load.pc # "write_complete" /\ ~LoadDone' /\ (mgr.ops.write => ~PastComplete')
    BY <1>1, FrameworkFrame DEF SocIInv
  <2>3. soc.kind = "a10" => mgr.ops.write
    BY DEF SocIInv, SocInv, SocMatches, socfpga_a10_fpga_mgr_ops, NoOps
  <2> QED BY <1>1, <2>1, <2>2, <2>3
          DEF SocIInv, SocInv, SocMatches, SocRuns, SocIrqOnlyInWait, A10Released, LoadDone, PastComplete
<1>2. CASE UNCHANGED soc_vars
  <2>1. MgrIInv'
    BY <1>2, MgrNextIInv DEF soc_vars, SocIInv
  <2> QED BY <1>2, <2>1
          DEF soc_vars, mgr_vars, SocIInv, SocInv, SocMatches, SocRuns, SocIrqOnlyInWait, A10Released, LoadDone
<1> QED BY <1>1, <1>2, SocRegisters, SocfpgaKeeps, A10Keeps DEF SocNext

\* Cyclone V and Arria 10 in the framework, for any users and images: a load that succeeds
\* left the device in user mode, also when a signal ended the wait for the interrupt; no
\* interrupt is enabled behind a wait; and a write_complete leaves no request behind.
THEOREM SocIsTrue == SocSpec => []SocLoadTrue /\ []MgrLoadTrue
<1>1. SocInit => SocIInv
  <2> SUFFICES ASSUME SocInit PROVE SocIInv
    OBVIOUS
  <2>1. MgrIInv
    BY MgrInitIInv DEF SocInit
  <2> QED BY <2>1 DEF SocInit, SocOff, SocType, FabType, SocIInv, SocInv, SocMatches, SocRuns,
                      SocIrqOnlyInWait, A10Released
<1>2. SocIInv => SocLoadTrue /\ MgrLoadTrue
  BY MgrImplies DEF SocIInv, SocInv, SocRuns, SocLoadTrue, SocOperatingUser
<1> QED BY <1>1, <1>2, SocNextIInv, PTL DEF SocSpec

-----------------------------------------------------------------------------
(* The DMA queue of the Zynq manager.                                      *)

PcapBits == {"dma_done", "dp_done", "error"}
ZqType ==
  [pc : {"none", "wait", "timedout"}, cur : Nat, elm : Nat, done : BOOLEAN, isr : BOOLEAN, clk : Nat,
   mapped : BOOLEAN]
PcapType ==
  [sts : SUBSET PcapBits, mask : SUBSET PcapBits, queue : Seq(Nat), taken : Seq(Nat), lvl : {"all", "ps"},
   rst : BOOLEAN, live : BOOLEAN]

\* The elements taken and then those queued are the first of the list, in its order.
InOrder(taken, queue) ==
  /\ \A i \in 1..Len(taken) : taken[i] = i
  /\ \A i \in 1..Len(queue) : queue[i] = Len(taken) + i

\* Without an error, all in front of the element to come next is taken or queued, and the
\* end of it all is shown when the last one is taken.
ZynqOrder(cur, p) ==
  /\ InOrder(p.taken, p.queue)
  /\ cur <= Elements
  /\ Len(p.taken) + Len(p.queue) = IF cur = 0 THEN Elements ELSE cur - 1
  /\ "dp_done" \in p.sts => Len(p.taken) = Elements

\* While the writer waits: the queue holds no more than it can, it is empty once the
\* handler stopped or the engine halted, and the interrupt that is on is the one of the
\* end of a transfer as long as elements are left.
ZynqWaits ==
  /\ Len(pcap.queue) <= DmaQueue
  /\ zq.isr \/ zq.done \/ "error" \in pcap.sts => pcap.queue = <<>>
  /\ zq.done => pcap.mask = {} /\ ~zq.isr
  /\ pcap.mask # {} => pcap.mask = IF zq.cur = 0 THEN {"dp_done", "error"} ELSE {"dma_done", "error"}
  /\ "error" \notin pcap.sts => ZynqOrder(zq.cur, pcap)

\* Outside of a wait interrupts are off, and the engine is idle unless the time was up.
ZynqMatches ==
  /\ zq.pc = "wait" => load.pc = "write" /\ ZynqWaits
  /\ zq.pc # "wait" => ~zq.isr /\ pcap.mask = {}
  /\ zq.pc = "none" => pcap.queue = <<>>

ZynqInv == zq \in ZqType /\ pcap \in PcapType /\ ZynqMatches /\ ZynqAllTaken /\ ZynqClkBalanced /\ ZynqIsolated
ZynqIInv == MgrIInv /\ ZynqInv

\* The image has elements.
LEMMA ElementsIs == MgrIInv => Elements \in Nat \ {0}
<1> SUFFICES ASSUME MgrIInv PROVE Elements \in Nat \ {0}
  OBVIOUS
<1>1. load.image \in MgrImages \cup {NoImage}
  BY DEF MgrIInv, MgrTyped, LoadType, Images
<1>2. CASE load.image \in MgrImages
  BY <1>2, MgrAssumption DEF Elements
<1>3. CASE load.image = NoImage
  BY <1>3 DEF NoImage, Elements
<1> QED BY <1>1, <1>2, <1>3

\* Elements are put behind what is queued.
LEMMA QueueGrows ==
  ASSUME NEW s \in Seq(Nat), NEW k \in Nat, NEW c \in Nat \ {0}, NEW r, r = s \o [i \in 1..k |-> c + i - 1]
  PROVE  /\ r \in Seq(Nat) /\ Len(r) = Len(s) + k
         /\ \A i \in 1..Len(r) : r[i] = IF i <= Len(s) THEN s[i] ELSE c + (i - Len(s)) - 1
<1> DEFINE e(i) == c + i - 1
           t == [i \in 1..k |-> e(i)]
<1>1. \A i \in 1..k : e(i) \in Nat
  OBVIOUS
<1>2. t \in Seq(Nat) /\ Len(t) = k /\ \A i \in 1..k : t[i] = c + i - 1
  <2>1. t \in [1..k -> Nat]
    BY <1>1
  <2> QED BY <2>1
<1> HIDE DEF t
<1>3. Len(s) \in Nat
  BY LenProperties
<1>4. /\ s \o t \in Seq(Nat) /\ Len(s \o t) = Len(s) + k
      /\ \A i \in 1..(Len(s) + k) : (s \o t)[i] = IF i <= Len(s) THEN s[i] ELSE t[i - Len(s)]
  BY <1>2, ConcatProperties
<1>5. \A i \in 1..(Len(s) + k) : i > Len(s) => i - Len(s) \in 1..k
  BY <1>3
<1>6. \A i \in 1..(Len(s) + k) : i > Len(s) => t[i - Len(s)] = c + (i - Len(s)) - 1
  BY <1>2, <1>5
<1>7. \A i \in 1..(Len(s) + k) : (s \o t)[i] = IF i <= Len(s) THEN s[i] ELSE c + (i - Len(s)) - 1
  BY <1>3, <1>4, <1>6
<1> QED BY <1>4, <1>7 DEF t, e

\* The engine takes the first of the queue.
LEMMA QueueShrinks ==
  ASSUME NEW q \in Seq(Nat), NEW s \in Seq(Nat), q # <<>>, InOrder(s, q)
  PROVE  /\ Tail(q) \in Seq(Nat) /\ Append(s, Head(q)) \in Seq(Nat) /\ InOrder(Append(s, Head(q)), Tail(q))
         /\ Len(Tail(q)) = Len(q) - 1 /\ Len(Append(s, Head(q))) = Len(s) + 1 /\ Head(q) = Len(s) + 1
         /\ Len(q) >= 1
<1>1. /\ Len(q) \in Nat /\ Len(q) >= 1 /\ Head(q) = q[1] /\ Len(s) \in Nat
      /\ Tail(q) \in Seq(Nat) /\ Len(Tail(q)) = Len(q) - 1
      /\ \A i \in 1..Len(Tail(q)) : Tail(q)[i] = q[i + 1]
  BY HeadTailProperties, LenProperties
<1>2. Head(q) = Len(s) + 1
  BY <1>1 DEF InOrder
<1>3. /\ Append(s, Head(q)) \in Seq(Nat) /\ Len(Append(s, Head(q))) = Len(s) + 1
      /\ \A i \in 1..(Len(s) + 1) : Append(s, Head(q))[i] = IF i <= Len(s) THEN s[i] ELSE Head(q)
  BY <1>1, <1>2
<1>4. \A i \in 1..(Len(s) + 1) : Append(s, Head(q))[i] = i
  BY <1>1, <1>2, <1>3 DEF InOrder
<1>5. \A i \in 1..Len(Tail(q)) : Tail(q)[i] = Len(s) + 1 + i
  BY <1>1 DEF InOrder
<1> QED BY <1>1, <1>2, <1>3, <1>4, <1>5 DEF InOrder

\* Where the list goes on when k more elements are queued.
LEMMA NextElement ==
  ASSUME NEW e \in Nat \ {0}, NEW c \in 1..e, NEW k \in Nat, k <= e - c + 1,
         NEW cur, cur = IF c + k > e THEN 0 ELSE c + k
  PROVE  cur \in Nat /\ cur <= e /\ (IF cur = 0 THEN e ELSE cur - 1) = c - 1 + k
<1>1. CASE c + k > e
  BY <1>1
<1>2. CASE ~(c + k > e)
  BY <1>2
<1> QED BY <1>1, <1>2

\* Elements are queued by the writer, or by the handler: the order is kept, and the
\* interrupt is the one that fits what is left.
LEMMA StepDmaKeeps ==
  ASSUME MgrIInv, UNCHANGED mgr_vars, NEW z \in ZqType, NEW p \in PcapType, zynq_step_dma(z, p),
         z.pc = "wait", ~z.isr, ~z.done, z.cur \in 1..Elements, Len(p.queue) <= DmaQueue,
         "error" \notin p.sts, ZynqOrder(z.cur, p), p.mask = {"dma_done", "error"} \/ z.elm = 0
  PROVE  /\ zq' \in ZqType /\ pcap' \in PcapType
         /\ zq'.pc = z.pc /\ zq'.clk = z.clk /\ pcap'.lvl = p.lvl /\ pcap'.rst = p.rst /\ pcap'.live = p.live
         /\ ZynqWaits'
<1> DEFINE room == DmaQueue - Len(p.queue)
           k == IF Elements - z.cur + 1 < room THEN Elements - z.cur + 1 ELSE room
           cur == IF z.cur + k > Elements THEN 0 ELSE z.cur + k
           queue == p.queue \o [i \in 1..k |-> z.cur + i - 1]
           elm == IF cur = 0 THEN Elements - 1 ELSE z.elm + k
           mask == IF cur = 0 THEN {"dp_done", "error"}
                   ELSE IF z.elm = 0 THEN {"dma_done", "error"} ELSE p.mask
<1>1. /\ zq' = [z EXCEPT !.cur = cur, !.elm = elm]
      /\ pcap' = [p EXCEPT !.queue = queue, !.mask = mask]
  BY DEF zynq_step_dma
<1>2. /\ Elements \in Nat \ {0} /\ DmaQueue \in Nat /\ z.cur \in Nat \ {0} /\ z.elm \in Nat
      /\ p.queue \in Seq(Nat) /\ p.taken \in Seq(Nat) /\ Len(p.queue) \in Nat /\ Len(p.taken) \in Nat
  BY ElementsIs, ZynqAssumption, LenProperties DEF ZqType, PcapType
<1>3. k \in Nat /\ k <= Elements - z.cur + 1 /\ k <= DmaQueue - Len(p.queue)
  BY <1>2
<1> HIDE DEF k
<1>4. /\ cur \in Nat /\ cur <= Elements /\ elm \in Nat
      /\ (IF cur = 0 THEN Elements ELSE cur - 1) = z.cur - 1 + k
  <2>1. cur = IF z.cur + k > Elements THEN 0 ELSE z.cur + k
    OBVIOUS
  <2>2. elm = IF cur = 0 THEN Elements - 1 ELSE z.elm + k
    OBVIOUS
  <2> HIDE DEF cur, elm
  <2>3. cur \in Nat /\ cur <= Elements /\ (IF cur = 0 THEN Elements ELSE cur - 1) = z.cur - 1 + k
    BY <1>2, <1>3, <2>1, NextElement
  <2>4. Elements - 1 \in Nat /\ z.elm + k \in Nat
    BY <1>2, <1>3
  <2>5. elm \in Nat
    BY <2>2, <2>4
  <2> QED BY <2>3, <2>5
<1>5. /\ queue \in Seq(Nat) /\ Len(queue) = Len(p.queue) + k
      /\ \A i \in 1..Len(queue) :
           queue[i] = IF i <= Len(p.queue) THEN p.queue[i] ELSE z.cur + (i - Len(p.queue)) - 1
  BY <1>2, <1>3, QueueGrows
<1>6. mask = (IF cur = 0 THEN {"dp_done", "error"} ELSE {"dma_done", "error"}) /\ mask \in SUBSET PcapBits
  BY DEF PcapBits
<1> HIDE DEF cur, queue, elm, mask
<1>7. /\ zq' \in ZqType /\ zq'.pc = z.pc /\ zq'.clk = z.clk /\ zq'.cur = cur /\ ~zq'.isr /\ ~zq'.done
  BY <1>1, <1>4 DEF ZqType
<1>8. /\ pcap' \in PcapType /\ pcap'.lvl = p.lvl /\ pcap'.rst = p.rst /\ pcap'.live = p.live
      /\ pcap'.queue = queue /\ pcap'.mask = mask /\ pcap'.sts = p.sts /\ pcap'.taken = p.taken
  BY <1>1, <1>5, <1>6 DEF PcapType
<1>9. Len(p.taken) + Len(p.queue) = z.cur - 1
  BY <1>2 DEF ZynqOrder
<1>10. InOrder(p.taken, queue)
  <2>1. \A i \in 1..Len(queue) : queue[i] = Len(p.taken) + i
    <3> SUFFICES ASSUME NEW i \in 1..Len(queue) PROVE queue[i] = Len(p.taken) + i
      OBVIOUS
    <3>1. CASE i <= Len(p.queue)
      BY <1>2, <1>3, <1>5, <3>1 DEF ZynqOrder, InOrder
    <3>2. CASE ~(i <= Len(p.queue))
      <4>1. queue[i] = z.cur + (i - Len(p.queue)) - 1 /\ i \in Nat
        BY <1>5, <3>2
      <4>2. PICK t \in Nat, q \in Nat, c \in Nat : t = Len(p.taken) /\ q = Len(p.queue) /\ c = z.cur
        BY <1>2
      <4>3. t + q = c - 1 /\ queue[i] = c + (i - q) - 1
        BY <1>9, <4>1, <4>2
      <4>4. i \in Nat
        BY <4>1
      <4>5. c + (i - q) - 1 = t + i
        BY <4>3, <4>4
      <4> QED BY <4>2, <4>3, <4>5
    <3> QED BY <3>1, <3>2
  <2> QED BY <2>1 DEF ZynqOrder, InOrder
<1>11. Elements' = Elements
  BY DEF Elements, mgr_vars
<1>12. ZynqOrder(zq.cur, pcap)'
  <2>1. /\ Len(p.taken) + Len(queue) = IF cur = 0 THEN Elements ELSE cur - 1
        /\ "dp_done" \in p.sts => Len(p.taken) = Elements
    <3>1. Len(p.taken) + Len(queue) = z.cur - 1 + k
      <4>1. PICK t \in Nat, q \in Nat, c \in Nat : t = Len(p.taken) /\ q = Len(p.queue) /\ c = z.cur
        BY <1>2
      <4>2. t + q = c - 1 /\ Len(queue) = q + k
        BY <1>5, <1>9, <4>1
      <4>3. t + Len(queue) = c - 1 + k
        BY <1>3, <4>2
      <4> QED BY <4>1, <4>3
    <3> QED BY <1>4, <3>1 DEF ZynqOrder
  <2> QED BY <1>4, <1>7, <1>8, <1>10, <1>11, <2>1 DEF ZynqOrder
<1>13. Len(queue) <= DmaQueue
  BY <1>2, <1>3, <1>5
<1> QED BY <1>6, <1>7, <1>8, <1>12, <1>13 DEF ZynqWaits

\* The driver probes on a manager that is not registered.
LEMMA ZynqRegisters ==
  ASSUME ZynqIInv, zynq_fpga_probe
  PROVE  ZynqIInv'
<1>1. PICK live \in BOOLEAN, clk \in BOOLEAN :
        /\ pcap' = [sts |-> {}, mask |-> {}, queue |-> <<>>, taken |-> <<>>, rst |-> FALSE,
                    lvl |-> IF live THEN "all" ELSE "ps", live |-> live]
        /\ fpga_mgr_register_full(zynq_fpga_ops, zynq_fpga_ops_state(live, clk))
  BY DEF zynq_fpga_probe
<1>2. zynq_fpga_ops \in MgrOps /\ zynq_fpga_ops_state(live, clk) \in FpgaMgrStates
  BY DEF zynq_fpga_ops, NoOps, MgrOps, zynq_fpga_ops_state, FpgaMgrStates
<1>3. MgrIInv' /\ load'.pc = "none"
  BY <1>1, <1>2, RegisterKeeps DEF ZynqIInv, fpga_mgr_register_full, NoLoad
<1>4. zq.pc # "wait"
  BY <1>1 DEF ZynqIInv, ZynqInv, ZynqMatches, MgrIInv, MgrHeld, fpga_mgr_register_full
<1>5. /\ pcap' \in PcapType /\ pcap'.queue = <<>> /\ pcap'.mask = {}
      /\ pcap'.lvl = "all" => pcap'.live /\ ~pcap'.rst
  BY <1>1, EmptySeq DEF PcapType
<1>6. zq' \in ZqType /\ zq'.pc = "none" /\ ~zq'.isr /\ zq'.clk = zq.clk
  BY DEF zynq_fpga_probe, ZqType, ZynqIInv, ZynqInv
<1> QED BY <1>3, <1>4, <1>5, <1>6
        DEF ZynqIInv, ZynqInv, ZynqMatches, ZynqAllTaken, ZynqClkBalanced, ZynqIsolated

\* A step while the writer waits, of the handler or of the engine.
LEMMA ZynqMoves ==
  ASSUME ZynqIInv, UNCHANGED mgr_vars, zq' \in ZqType, pcap' \in PcapType, zq.pc \in {"none", "wait"},
         load.pc = "write", zq'.pc = "wait", zq'.clk = 1, ZynqWaits',
         pcap'.lvl = pcap.lvl, pcap'.rst = pcap.rst, pcap'.live = pcap.live
  PROVE  ZynqIInv'
<1>1. MgrIInv'
  BY MgrNextIInv DEF ZynqIInv
<1> QED BY <1>1 DEF mgr_vars, ZynqIInv, ZynqInv, ZynqMatches, ZynqAllTaken, ZynqClkBalanced, ZynqIsolated

\* The writer starts the list.
LEMMA ZynqStarts ==
  ASSUME ZynqIInv, zynq_write_start
  PROVE  ZynqIInv'
<1> DEFINE clk == zq.clk + 1
           z == [zq EXCEPT !.pc = "wait", !.done = FALSE, !.cur = 1, !.elm = 0, !.clk = clk, !.mapped = TRUE]
           p == [pcap EXCEPT !.sts = {}, !.taken = <<>>]
<1>1. load.pc = "write" /\ zq.pc = "none" /\ zynq_step_dma(z, p) /\ UNCHANGED mgr_vars
  BY DEF zynq_write_start
<1>2. /\ zq \in ZqType /\ pcap \in PcapType /\ MgrIInv /\ zq.clk = 0 /\ ~zq.isr /\ pcap.queue = <<>>
  BY <1>1 DEF ZynqIInv, ZynqInv, ZynqMatches, ZynqClkBalanced
<1>3. clk = 1
  BY <1>2
<1> HIDE DEF clk
<1>4. z \in ZqType /\ z.pc = "wait" /\ ~z.isr /\ ~z.done /\ z.cur = 1 /\ z.elm = 0 /\ z.clk = 1
  BY <1>2, <1>3 DEF ZqType
<1>5. /\ p \in PcapType /\ p.sts = {} /\ p.taken = <<>> /\ p.queue = <<>>
      /\ p.lvl = pcap.lvl /\ p.rst = pcap.rst /\ p.live = pcap.live
  BY <1>2, EmptySeq DEF PcapType
<1> HIDE DEF z, p
<1>6. Elements \in Nat \ {0} /\ DmaQueue \in Nat /\ 1 \in 1..Elements
  BY <1>2, ElementsIs, ZynqAssumption
<1>7. ZynqOrder(z.cur, p) /\ Len(p.queue) <= DmaQueue
  BY <1>4, <1>5, <1>6 DEF ZynqOrder, InOrder
<1>8. /\ zq' \in ZqType /\ pcap' \in PcapType
      /\ zq'.pc = z.pc /\ zq'.clk = z.clk /\ pcap'.lvl = p.lvl /\ pcap'.rst = p.rst /\ pcap'.live = p.live
      /\ ZynqWaits'
  BY <1>1, <1>2, <1>4, <1>5, <1>6, <1>7, StepDmaKeeps
<1> QED BY <1>1, <1>4, <1>5, <1>8, ZynqMoves

\* The handler goes on with the list, or stops: then nothing is queued.
LEMMA ZynqHandles ==
  ASSUME ZynqIInv, zynq_fpga_isr \/ zynq_isr_complete
  PROVE  ZynqIInv'
<1>1. /\ zq.pc = "wait" /\ load.pc = "write" /\ ZynqWaits /\ zq \in ZqType /\ pcap \in PcapType /\ MgrIInv
      /\ zq.clk = 1 /\ UNCHANGED mgr_vars
  BY DEF ZynqIInv, ZynqInv, ZynqMatches, ZynqClkBalanced, zynq_fpga_isr, zynq_isr_complete
<1>2. /\ Elements \in Nat \ {0} /\ zq.cur \in Nat /\ pcap.queue \in Seq(Nat) /\ pcap.taken \in Seq(Nat)
      /\ Len(pcap.queue) \in Nat /\ Len(pcap.taken) \in Nat
  BY <1>1, ElementsIs, LenProperties DEF ZqType, PcapType
<1>3. CASE zynq_isr_complete
  <2>1. zq' \in ZqType /\ zq'.pc = "wait" /\ zq'.clk = 1 /\ ~zq'.isr /\ zq'.done /\ zq'.cur = zq.cur
    BY <1>1, <1>3 DEF zynq_isr_complete, ZqType
  <2>2. /\ pcap' \in PcapType /\ pcap'.lvl = pcap.lvl /\ pcap'.rst = pcap.rst /\ pcap'.live = pcap.live
        /\ pcap'.mask = {} /\ pcap'.sts = pcap.sts /\ pcap'.queue = pcap.queue /\ pcap'.taken = pcap.taken
    BY <1>1, <1>3 DEF zynq_isr_complete, PcapType
  <2>3. zq.isr /\ Elements' = Elements
    BY <1>1, <1>3 DEF zynq_isr_complete, Elements, mgr_vars
  <2>4. ZynqWaits'
    BY <1>1, <2>1, <2>2, <2>3 DEF ZynqWaits, ZynqOrder
  <2> QED BY <1>1, <2>1, <2>2, <2>4, ZynqMoves
<1>4. CASE zynq_fpga_isr /\ "error" \notin pcap.sts /\ "dma_done" \in pcap.sts /\ zq.cur # 0
  <2> DEFINE p == [pcap EXCEPT !.sts = pcap.sts \ {"dma_done"}]
  <2>1. zynq_step_dma(zq, p) /\ pcap.mask # {} /\ ~zq.isr
    BY <1>4 DEF zynq_fpga_isr
  <2>2. /\ p \in PcapType /\ p.sts = pcap.sts \ {"dma_done"} /\ p.taken = pcap.taken /\ p.queue = pcap.queue
        /\ p.mask = pcap.mask /\ p.lvl = pcap.lvl /\ p.rst = pcap.rst /\ p.live = pcap.live
    BY <1>1 DEF PcapType
  <2> HIDE DEF p
  <2>3. /\ ~zq.done /\ pcap.mask = {"dma_done", "error"} /\ ZynqOrder(zq.cur, pcap)
        /\ Len(pcap.queue) <= DmaQueue
    BY <1>1, <1>4, <2>1 DEF ZynqWaits
  <2>4. ZynqOrder(zq.cur, p)
    BY <2>2, <2>3 DEF ZynqOrder
  <2>5. zq.cur \in 1..Elements
    BY <1>2, <1>4, <2>3 DEF ZynqOrder
  <2>6. /\ zq' \in ZqType /\ pcap' \in PcapType
        /\ zq'.pc = zq.pc /\ zq'.clk = zq.clk /\ pcap'.lvl = p.lvl /\ pcap'.rst = p.rst /\ pcap'.live = p.live
        /\ ZynqWaits'
    <3>1. "error" \notin p.sts /\ Len(p.queue) <= DmaQueue /\ p.mask = {"dma_done", "error"}
      BY <1>4, <2>2, <2>3
    <3> QED BY <1>1, <2>1, <2>2, <2>3, <2>4, <2>5, <3>1, StepDmaKeeps
  <2> QED BY <1>1, <2>2, <2>6, ZynqMoves
<1>5. CASE zynq_fpga_isr /\ ~("error" \notin pcap.sts /\ "dma_done" \in pcap.sts /\ zq.cur # 0)
  <2>1. zq' = [zq EXCEPT !.isr = TRUE] /\ UNCHANGED pcap /\ pcap.sts \cap pcap.mask # {}
    BY <1>5 DEF zynq_fpga_isr
  <2>2. zq' \in ZqType /\ zq'.pc = "wait" /\ zq'.clk = 1 /\ zq'.isr /\ zq'.done = zq.done /\ zq'.cur = zq.cur
    BY <1>1, <2>1 DEF ZqType
  <2>3. pcap.queue = <<>>
    <3>1. CASE "error" \in pcap.sts
      BY <1>1, <3>1 DEF ZynqWaits
    <3>2. CASE "error" \notin pcap.sts
      <4>1. zq.cur = 0 /\ "dp_done" \in pcap.sts
        BY <1>1, <1>5, <2>1, <3>2 DEF ZynqWaits
      <4>2. Len(pcap.taken) = Elements /\ Len(pcap.taken) + Len(pcap.queue) = Elements
        BY <1>1, <3>2, <4>1 DEF ZynqWaits, ZynqOrder
      <4>3. Len(pcap.queue) = 0
        BY <1>2, <4>2
      <4> QED BY <1>2, <4>3, EmptySeq
    <3> QED BY <3>1, <3>2
  <2>4. ~zq.done /\ Elements' = Elements
    BY <1>1, <2>1 DEF ZynqWaits, Elements, mgr_vars
  <2>5. ZynqWaits'
    BY <1>1, <2>1, <2>2, <2>3, <2>4 DEF ZynqWaits, ZynqOrder
  <2> QED BY <1>1, <2>1, <2>2, <2>5, ZynqMoves
<1> QED BY <1>3, <1>4, <1>5

\* The engine takes an element, or halts on an error.
LEMMA ZynqTransfers ==
  ASSUME ZynqIInv, pcap_transfer
  PROVE  ZynqIInv'
<1>1. /\ zq.pc = "wait" /\ load.pc = "write" /\ ZynqWaits /\ zq \in ZqType /\ pcap \in PcapType /\ MgrIInv
      /\ zq.clk = 1 /\ UNCHANGED <<mgr_vars, zq>> /\ pcap.queue # <<>>
  BY DEF ZynqIInv, ZynqInv, ZynqMatches, ZynqClkBalanced, pcap_transfer
<1>2. Elements' = Elements /\ Elements \in Nat \ {0} /\ DmaQueue \in Nat
  BY <1>1, ElementsIs, ZynqAssumption DEF Elements, mgr_vars
<1>3. CASE pcap' = [pcap EXCEPT !.queue = <<>>, !.sts = pcap.sts \cup {"error"}]
  <2>1. /\ pcap' \in PcapType /\ pcap'.lvl = pcap.lvl /\ pcap'.rst = pcap.rst /\ pcap'.live = pcap.live
        /\ pcap'.queue = <<>> /\ pcap'.mask = pcap.mask /\ "error" \in pcap'.sts
    BY <1>1, <1>3, EmptySeq DEF PcapType, PcapBits
  <2>2. Len(pcap'.queue) <= DmaQueue
    BY <1>2, <2>1
  <2>3. ZynqWaits'
    BY <1>1, <2>1, <2>2 DEF ZynqWaits
  <2> QED BY <1>1, <2>1, <2>3, ZynqMoves
<1>4. CASE pcap' = [pcap EXCEPT !.queue = Tail(pcap.queue), !.taken = Append(pcap.taken, Head(pcap.queue)),
                                !.sts = pcap.sts \cup {"dma_done"}
                                          \cup IF Head(pcap.queue) = Elements THEN {"dp_done"} ELSE {}]
  <2> DEFINE queue == Tail(pcap.queue)
             taken == Append(pcap.taken, Head(pcap.queue))
             sts == pcap.sts \cup {"dma_done"} \cup IF Head(pcap.queue) = Elements THEN {"dp_done"} ELSE {}
  <2>1. /\ ~zq.isr /\ ~zq.done /\ "error" \notin pcap.sts /\ ZynqOrder(zq.cur, pcap)
        /\ pcap.queue \in Seq(Nat) /\ pcap.taken \in Seq(Nat)
        /\ Len(pcap.queue) <= DmaQueue
    BY <1>1 DEF ZynqWaits, PcapType
  <2>2. /\ queue \in Seq(Nat) /\ taken \in Seq(Nat) /\ InOrder(taken, queue)
        /\ Len(queue) = Len(pcap.queue) - 1 /\ Len(taken) = Len(pcap.taken) + 1
        /\ Head(pcap.queue) = Len(pcap.taken) + 1 /\ Len(pcap.queue) >= 1
    BY <1>1, <2>1, QueueShrinks DEF ZynqOrder
  <2>3. Len(pcap.queue) \in Nat /\ Len(pcap.taken) \in Nat
    BY <2>1, LenProperties
  <2>4. Len(pcap.taken) < Elements /\ "dp_done" \notin pcap.sts
    <3>1. PICK t \in Nat, q \in Nat, c \in Nat : t = Len(pcap.taken) /\ q = Len(pcap.queue) /\ c = zq.cur
      BY <1>1, <2>3 DEF ZqType
    <3>2. t + q = (IF c = 0 THEN Elements ELSE c - 1) /\ c <= Elements /\ q >= 1
      BY <2>1, <2>2, <3>1 DEF ZynqOrder
    <3>3. t < Elements
      BY <1>2, <3>2
    <3>4. Len(pcap.taken) < Elements
      BY <3>1, <3>3
    <3> QED BY <1>2, <2>1, <3>4 DEF ZynqOrder
  <2>5. /\ sts \in SUBSET PcapBits /\ "error" \notin sts /\ ("dp_done" \in sts => Head(pcap.queue) = Elements)
    BY <1>1, <2>1, <2>4 DEF PcapType, PcapBits
  <2> HIDE DEF queue, taken, sts
  <2>6. /\ Len(taken) + Len(queue) = Len(pcap.taken) + Len(pcap.queue) /\ Len(queue) <= DmaQueue
    <3>1. PICK t \in Nat, q \in Nat : t = Len(pcap.taken) /\ q = Len(pcap.queue)
      BY <2>3
    <3>2. Len(taken) = t + 1 /\ Len(queue) = q - 1 /\ q <= DmaQueue
      BY <2>1, <2>2, <3>1
    <3>3. (t + 1) + (q - 1) = t + q /\ q - 1 <= DmaQueue
      BY <1>2, <3>2
    <3> QED BY <3>1, <3>2, <3>3
  <2>7. pcap' = [pcap EXCEPT !.queue = queue, !.taken = taken, !.sts = sts]
    BY <1>4 DEF queue, taken, sts
  <2>8. /\ pcap' \in PcapType /\ pcap'.lvl = pcap.lvl /\ pcap'.rst = pcap.rst /\ pcap'.live = pcap.live
        /\ pcap'.queue = queue /\ pcap'.taken = taken /\ pcap'.mask = pcap.mask /\ pcap'.sts = sts
    BY <1>1, <2>2, <2>5, <2>7 DEF PcapType
  <2>9. zq'.cur = zq.cur /\ zq'.isr = zq.isr /\ zq'.done = zq.done
    BY <1>1
  <2>10. ZynqOrder(zq.cur, pcap)'
    BY <1>2, <2>1, <2>2, <2>5, <2>6, <2>8, <2>9 DEF ZynqOrder
  <2>11. /\ ~zq'.isr /\ ~zq'.done /\ "error" \notin pcap'.sts /\ Len(pcap'.queue) <= DmaQueue
    BY <2>1, <2>5, <2>6, <2>8, <2>9
  <2>12. ZynqWaits'
    BY <1>1, <2>8, <2>9, <2>10, <2>11 DEF ZynqWaits
  <2> QED BY <1>1, <2>8, <2>12, ZynqMoves
<1> QED BY <1>3, <1>4 DEF pcap_transfer

\* The wait ends: whoever was through wakes the writer with an idle engine, and a write
\* that succeeds has seen the last element taken.
LEMMA ZynqEnds ==
  ASSUME ZynqIInv, zynq_write_end
  PROVE  ZynqIInv'
<1> DEFINE ok == "error" \notin pcap.sts /\ "dp_done" \in pcap.sts
           clk == zq.clk - 1
           pc == IF zq.done THEN "none" ELSE "timedout"
<1>1. /\ zq.pc = "wait" /\ load.pc = "write" /\ ZynqWaits /\ zq \in ZqType /\ pcap \in PcapType /\ MgrIInv
      /\ ZynqIsolated /\ zq.clk = 1 /\ MgrWrite(ok) /\ ok \in BOOLEAN /\ (zq.done \/ ~zq.isr)
  BY DEF ZynqIInv, ZynqInv, ZynqMatches, ZynqClkBalanced, zynq_write_end
<1>2. clk = 0 /\ pc \in {"none", "timedout"} /\ (pc = "none" => zq.done)
  BY <1>1
<1>3. zq' = [zq EXCEPT !.pc = pc, !.cur = 0, !.clk = clk, !.mapped = FALSE]
  BY DEF zynq_write_end
<1> HIDE DEF clk, pc, ok
<1>4. zq' \in ZqType /\ zq'.pc = pc /\ zq'.clk = 0 /\ zq'.isr = zq.isr
  BY <1>1, <1>2, <1>3 DEF ZqType
<1>5. /\ pcap' \in PcapType /\ pcap'.mask = {} /\ pcap'.queue = pcap.queue /\ pcap'.taken = pcap.taken
      /\ pcap'.lvl = pcap.lvl /\ pcap'.live = pcap.live /\ pcap'.rst = pcap.rst
  BY <1>1 DEF zynq_write_end, PcapType
<1>6. /\ MgrIInv' /\ Elements' = Elements /\ (load'.pc = "write_complete" => ok)
  BY <1>1, MgrWriteKeeps, WriteFrame DEF Elements
<1>7. ~zq.isr /\ (zq.done => pcap.queue = <<>>)
  BY <1>1 DEF ZynqWaits
<1>8. ok => pcap.taken = [i \in 1..Elements |-> i]
  <2> SUFFICES ASSUME ok PROVE pcap.taken = [i \in 1..Elements |-> i]
    OBVIOUS
  <2>1. Len(pcap.taken) = Elements /\ \A i \in 1..Len(pcap.taken) : pcap.taken[i] = i
    BY <1>1 DEF ok, ZynqWaits, ZynqOrder, InOrder
  <2>2. pcap.taken \in [1..Len(pcap.taken) -> Nat]
    BY <1>1, LenProperties DEF PcapType
  <2> QED BY <2>1, <2>2
<1> QED BY <1>1, <1>2, <1>4, <1>5, <1>6, <1>7, <1>8
        DEF ZynqIInv, ZynqInv, ZynqMatches, ZynqAllTaken, ZynqClkBalanced, ZynqIsolated

\* The operations of which the framework sees the end, and the engine that halts by itself.
LEMMA ZynqOperates ==
  ASSUME ZynqIInv,
         \/ zynq_fpga_ops_write_init \/ zynq_write_refused \/ zynq_engine_halts \/ zynq_fpga_ops_write_complete
  PROVE  ZynqIInv'
<1>0. /\ zq \in ZqType /\ pcap \in PcapType /\ MgrIInv /\ ZynqMatches /\ ZynqAllTaken /\ ZynqClkBalanced
      /\ ZynqIsolated
  BY DEF ZynqIInv, ZynqInv
<1>1. ASSUME MgrIInv', UNCHANGED zq, zq.pc # "wait", pcap' \in PcapType, pcap'.queue = pcap.queue,
             pcap'.mask = pcap.mask, pcap'.lvl = "all" => pcap'.live /\ ~pcap'.rst,
             ~(mgr'.ops.sg /\ load'.pc = "write_complete")
      PROVE  ZynqIInv'
  <2>1. mgr'.ops # zynq_fpga_ops \/ load'.pc # "write_complete"
    BY <1>1 DEF zynq_fpga_ops, NoOps
  <2> QED BY <1>0, <1>1, <2>1 DEF ZynqIInv, ZynqInv, ZynqMatches, ZynqAllTaken, ZynqClkBalanced, ZynqIsolated
<1>2. CASE zynq_fpga_ops_write_init
  <2>1. load.pc = "write_init" /\ zq.pc # "wait" /\ UNCHANGED zq
    BY <1>0, <1>2 DEF zynq_fpga_ops_write_init, ZynqMatches
  <2>2. PICK ok \in BOOLEAN : MgrWriteInit(ok)
    BY <1>2 DEF zynq_fpga_ops_write_init
  <2>3. MgrIInv' /\ ~(mgr'.ops.sg /\ load'.pc = "write_complete")
    BY <1>0, <2>2, MgrWriteInitKeeps, WriteInitFrame
  <2>4. /\ pcap' \in PcapType /\ pcap'.queue = pcap.queue /\ pcap'.mask = pcap.mask
        /\ pcap'.lvl = "all" => pcap'.live /\ ~pcap'.rst
    <3>1. CASE UNCHANGED pcap
      BY <1>0, <3>1 DEF ZynqIsolated
    <3>2. CASE pcap' = [pcap EXCEPT !.rst = TRUE, !.lvl = "ps", !.live = FALSE]
      BY <1>0, <3>2 DEF PcapType
    <3> QED BY <1>2, <3>1, <3>2 DEF zynq_fpga_ops_write_init
  <2> QED BY <1>1, <2>1, <2>3, <2>4
<1>3. CASE zynq_write_refused
  <2>1. MgrWrite(FALSE) /\ UNCHANGED <<zq, pcap>> /\ zq.pc # "wait"
    BY <1>3 DEF zynq_write_refused
  <2>2. MgrIInv' /\ load'.pc # "write_complete"
    BY <1>0, <2>1, MgrWriteKeeps, WriteFrame
  <2> QED BY <1>0, <1>1, <2>1, <2>2 DEF ZynqIsolated
<1>4. CASE zynq_engine_halts
  <2>1. zq' \in ZqType /\ zq'.pc = "none" /\ zq'.isr = zq.isr /\ zq'.clk = zq.clk /\ zq.pc # "wait"
    BY <1>0, <1>4 DEF zynq_engine_halts, ZqType
  <2>2. /\ pcap' \in PcapType /\ pcap'.queue = <<>> /\ pcap'.mask = pcap.mask /\ pcap'.taken = pcap.taken
        /\ pcap'.lvl = pcap.lvl /\ pcap'.live = pcap.live /\ pcap'.rst = pcap.rst
    BY <1>0, <1>4, EmptySeq DEF zynq_engine_halts, PcapType
  <2>3. MgrIInv' /\ Elements' = Elements /\ mgr' = mgr /\ load' = load
    BY <1>0, <1>4, MgrNextIInv DEF zynq_engine_halts, mgr_vars, Elements
  <2> QED BY <1>0, <2>1, <2>2, <2>3
          DEF ZynqIInv, ZynqInv, ZynqMatches, ZynqAllTaken, ZynqClkBalanced, ZynqIsolated
<1>5. CASE zynq_fpga_ops_write_complete
  <2>1. load.pc = "write_complete" /\ zq.pc # "wait" /\ UNCHANGED zq
    BY <1>0, <1>5 DEF zynq_fpga_ops_write_complete, ZynqMatches
  <2>2. PICK ok \in BOOLEAN : MgrWriteComplete(ok)
    BY <1>5 DEF zynq_fpga_ops_write_complete
  <2>3. MgrIInv' /\ load'.pc # "write_complete"
    BY <1>0, <2>2, MgrWriteCompleteKeeps, WriteCompleteFrame
  <2>4. /\ pcap' \in PcapType /\ pcap'.queue = pcap.queue /\ pcap'.mask = pcap.mask
        /\ pcap'.lvl = "all" => pcap'.live /\ ~pcap'.rst
    <3>1. CASE UNCHANGED pcap
      BY <1>0, <3>1 DEF ZynqIsolated
    <3>2. CASE pcap' = [pcap EXCEPT !.live = TRUE, !.lvl = "all", !.rst = FALSE]
      BY <1>0, <3>2 DEF PcapType
    <3> QED BY <1>5, <3>1, <3>2 DEF zynq_fpga_ops_write_complete
  <2> QED BY <1>1, <2>1, <2>3, <2>4
<1> QED BY <1>2, <1>3, <1>4, <1>5

\* Every step keeps the invariant of framework, driver and engine.
LEMMA ZynqNextIInv == ZynqIInv /\ [ZynqNext]_zynq_vars => ZynqIInv'
<1> SUFFICES ASSUME ZynqIInv, [ZynqNext]_zynq_vars PROVE ZynqIInv'
  OBVIOUS
<1>1. ASSUME MgrIInv', UNCHANGED <<zq, pcap>>, mgr'.ops = mgr.ops,
             load' = load \/ (load.pc # "write" /\ load'.pc # "write_complete")
      PROVE  ZynqIInv'
  <2>1. load' = load => Elements' = Elements
    BY DEF Elements
  <2>2. zq.pc = "wait" => load' = load
    BY <1>1 DEF ZynqIInv, ZynqInv, ZynqMatches
  <2>3. ZynqMatches'
    BY <1>1, <2>1, <2>2 DEF ZynqIInv, ZynqInv, ZynqMatches, ZynqWaits, ZynqOrder
  <2> QED BY <1>1, <2>1, <2>3 DEF ZynqIInv, ZynqInv, ZynqAllTaken, ZynqClkBalanced, ZynqIsolated
<1>2. CASE MgrFramework(BOOLEAN) /\ UNCHANGED <<zq, pcap>>
  BY <1>1, <1>2, FrameworkKeeps, FrameworkFrame DEF ZynqIInv
<1>3. CASE UNCHANGED zynq_vars
  BY <1>1, <1>3, MgrNextIInv DEF zynq_vars, mgr_vars, ZynqIInv
<1> QED BY <1>2, <1>3, ZynqRegisters, ZynqStarts, ZynqHandles, ZynqTransfers, ZynqEnds, ZynqOperates
        DEF ZynqNext

\* The Zynq manager in the framework, for any images and queue of the engine and whenever
\* the handler comes, an error or the timeout: a write that succeeds has put every element
\* into the device in the order of the list, the writer gives up the mapping only when
\* the engine is idle or its time was up, the clock is off after every operation, and the
\* processor is connected only to a PL that is configured.
THEOREM ZynqIsTrue == ZynqSpec => []ZynqLoadTrue /\ []MgrLoadTrue
<1>1. ZynqInit => ZynqIInv
  <2> SUFFICES ASSUME ZynqInit PROVE ZynqIInv
    OBVIOUS
  <2>1. MgrIInv /\ load.pc = "none"
    BY MgrInitIInv DEF ZynqInit, MgrInit, NoLoad
  <2>2. zq \in ZqType /\ pcap \in PcapType
    BY EmptySeq DEF ZynqInit, ZqType, PcapType
  <2> QED BY <2>1, <2>2
          DEF ZynqInit, ZynqIInv, ZynqInv, ZynqMatches, ZynqAllTaken, ZynqClkBalanced, ZynqIsolated
<1>2. ZynqIInv => ZynqLoadTrue
  BY DEF ZynqIInv, ZynqInv, ZynqMatches, ZynqLoadTrue, ZynqUnmapQuiet
<1>3. ZynqIInv => MgrLoadTrue
  BY MgrImplies DEF ZynqIInv
<1> QED BY <1>1, <1>2, <1>3, ZynqNextIInv, PTL DEF ZynqSpec

-----------------------------------------------------------------------------
(* The service layer of the Stratix 10 manager.                            *)

S10Type == [pc : {"none", "init", "loop", "wait", "again", "completing"}, count : Nat]
SlotType == [buf : SvcPool \cup {NoBuf}, lock : BOOLEAN]
SvcBits == {"ok", "error", "completed", "buffer_done", "buffer_submitted"}
SvcMsgs == [cmd : {"reconfig", "submit", "claim", "status"}, buf : SvcPool \cup {NoBuf}]
SvcType ==
  [status : SUBSET SvcBits, done : BOOLEAN, queue : Seq(SvcMsgs), thread : BOOLEAN,
   held : SUBSET SvcPool, pool : SUBSET SvcPool]
S10Typed == s10 \in S10Type /\ slot \in [SvcBufs -> SlotType] /\ svc \in SvcType

\* A slot has a buffer that is allocated, and no other slot has it.
S10Slots ==
  /\ \A i \in SvcBufs : slot[i].buf # NoBuf => slot[i].buf \in svc.pool
  /\ \A i, j \in SvcBufs : slot[i].buf = slot[j].buf /\ slot[i].buf # NoBuf => i = j

\* The place of the driver fits the one of the load.
S10Matches ==
  /\ ~mgr.ops.skip
  /\ s10.pc = "init" => load.pc = "write_init"
  /\ s10.pc \in {"loop", "wait"} => load.pc = "write"
  /\ s10.pc \in {"again", "completing"} => load.pc = "write_complete"

\* From write_init on a slot that is not in use has its buffer.
S10Filled == load.pc \in {"write", "write_complete"} => \A i \in SvcBufs : ~slot[i].lock => slot[i].buf # NoBuf

S10Inv == S10Typed /\ S10Slots /\ S10Matches /\ S10Filled /\ S10NoFreeInUse /\ S10AllTaken
S10IInv == MgrIInv /\ S10Inv

\* The driver registers, with a service layer that holds nothing of it.
LEMMA S10Registers ==
  ASSUME S10IInv, s10_probe
  PROVE  S10IInv'
<1>1. s10_ops \in MgrOps /\ ~s10_ops.skip /\ "unknown" \in FpgaMgrStates
  BY DEF s10_ops, NoOps, MgrOps, FpgaMgrStates
<1>2. MgrIInv'
  BY <1>1, RegisterKeeps DEF S10IInv, s10_probe
<1>3. ~mgr'.ops.skip /\ load'.pc = "none"
  BY <1>1 DEF s10_probe, fpga_mgr_register_full, NoLoad, S10IInv, MgrIInv, MgrTyped
<1>4. /\ s10' \in S10Type /\ s10'.pc = "none" /\ slot' \in [SvcBufs -> SlotType]
      /\ \A i \in SvcBufs : slot'[i].buf = NoBuf
  BY DEF s10_probe, S10Type, SlotType
<1>5. svc' \in SvcType /\ svc'.held = {}
  BY EmptySeq DEF s10_probe, SvcType, S10IInv, S10Inv, S10Typed
<1> QED BY <1>2, <1>3, <1>4, <1>5
        DEF S10IInv, S10Inv, S10Typed, S10Slots, S10Matches, S10Filled, S10NoFreeInUse, S10AllTaken

\* A step of the driver that leaves the framework alone.
LEMMA S10Moves ==
  ASSUME S10IInv, UNCHANGED mgr_vars, S10Typed', S10Slots', S10NoFreeInUse', S10Filled',
         s10'.pc = "init" => load.pc = "write_init",
         s10'.pc \in {"loop", "wait"} => load.pc = "write",
         s10'.pc \in {"again", "completing"} => load.pc = "write_complete",
         load.pc = "write_complete" => \A i \in SvcBufs : slot'[i].buf = slot[i].buf
  PROVE  S10IInv'
<1>1. MgrIInv' /\ load' = load /\ mgr' = mgr
  BY MgrNextIInv DEF S10IInv, mgr_vars
<1>2. S10AllTaken'
  BY <1>1 DEF S10IInv, S10Inv, S10AllTaken, Owned
<1> QED BY <1>1, <1>2 DEF S10IInv, S10Inv, S10Matches

\* The end of an operation.
LEMMA S10Ends ==
  ASSUME S10IInv, MgrIInv', mgr'.ops = mgr.ops, s10'.pc = "none",
         S10Typed', S10Slots', S10NoFreeInUse', S10Filled',
         load'.pc = "write_complete" => \A i \in SvcBufs : slot'[i].buf = NoBuf
  PROVE  S10IInv'
<1>1. S10AllTaken'
  BY DEF S10AllTaken, Owned
<1> QED BY <1>1 DEF S10IInv, S10Inv, S10Matches

\* A change of status, completion, queue or thread leaves the buffers where they are.
LEMMA SvcKeeps ==
  ASSUME S10IInv, UNCHANGED slot, svc'.held = svc.held, svc'.pool = svc.pool, s10' \in S10Type, svc' \in SvcType
  PROVE  /\ S10Typed' /\ S10Slots' /\ S10NoFreeInUse'
         /\ (load'.pc \in {"write", "write_complete"} => load.pc \in {"write", "write_complete"}) => S10Filled'
BY DEF S10IInv, S10Inv, S10Typed, S10Slots, S10NoFreeInUse, S10Filled

\* Buffers that are not in use are freed, and at least their slots emptied; the slots
\* that are empty then are locked.
LEMMA SlotsEmpty ==
  ASSUME S10IInv, NEW freed \in SUBSET s10_free_buffers, svc'.held = svc.held, svc' \in SvcType, s10' \in S10Type,
         slot' = [i \in SvcBufs |-> slot'[i]],
         \A i \in SvcBufs : slot'[i] = FreeSlots[i] \/ slot'[i] = [buf |-> NoBuf, lock |-> TRUE],
         svc'.pool = svc.pool \ {slot[i].buf : i \in freed}
  PROVE  /\ S10Typed' /\ S10Slots' /\ S10NoFreeInUse'
         /\ (load'.pc \in {"write", "write_complete"} => load.pc \in {"write", "write_complete"}) => S10Filled'
<1>1. /\ slot \in [SvcBufs -> SlotType] /\ S10Slots /\ S10NoFreeInUse
  BY DEF S10IInv, S10Inv, S10Typed
<1>2. \A i \in SvcBufs :
        \/ slot'[i] = [buf |-> NoBuf, lock |-> TRUE]
        \/ slot'[i] = slot[i] /\ ~(slot[i].buf # NoBuf /\ ~slot[i].lock)
  BY DEF FreeSlots, s10_free_buffers
<1>3. slot' \in [SvcBufs -> SlotType]
  <2>1. [buf |-> NoBuf, lock |-> TRUE] \in SlotType /\ \A i \in SvcBufs : slot[i] \in SlotType
    BY <1>1 DEF SlotType
  <2>2. \A i \in SvcBufs : slot'[i] \in SlotType
    BY <1>2, <2>1
  <2> QED BY <2>2
<1>4. \A i \in SvcBufs : \/ slot'[i].buf = NoBuf /\ slot'[i].lock
                         \/ slot'[i] = slot[i] /\ (slot[i].buf = NoBuf \/ slot[i].lock)
  BY <1>1, <1>2 DEF SlotType
<1>5. S10Slots'
  <2>1. \A i \in SvcBufs : slot'[i].buf # NoBuf => slot'[i].buf \in svc'.pool
    <3> SUFFICES ASSUME NEW i \in SvcBufs, slot'[i].buf # NoBuf PROVE slot'[i].buf \in svc'.pool
      OBVIOUS
    <3>1. slot'[i] = slot[i] /\ slot[i].lock /\ slot[i].buf \in svc.pool /\ slot[i].buf # NoBuf
      BY <1>1, <1>4 DEF S10Slots
    <3>2. \A j \in freed : slot[j].buf # slot[i].buf
      BY <1>1, <3>1 DEF s10_free_buffers, S10Slots
    <3> QED BY <3>1, <3>2
  <2>2. \A i, j \in SvcBufs : slot'[i].buf = slot'[j].buf /\ slot'[i].buf # NoBuf => i = j
    BY <1>1, <1>4 DEF S10Slots
  <2> QED BY <2>1, <2>2 DEF S10Slots
<1>6. S10NoFreeInUse'
  <2>1. \A j \in freed : slot[j].buf \notin svc.held
    BY <1>1 DEF s10_free_buffers, S10NoFreeInUse
  <2>2. NoBuf \notin svc.held
    BY S10Assumption DEF S10IInv, S10Inv, S10Typed, SvcType
  <2>3. svc'.held \subseteq svc'.pool
    BY <1>1, <2>1 DEF S10NoFreeInUse
  <2> QED BY <1>1, <1>4, <2>2, <2>3 DEF S10NoFreeInUse
<1>7. (load'.pc \in {"write", "write_complete"} => load.pc \in {"write", "write_complete"}) => S10Filled'
  BY <1>4 DEF S10IInv, S10Inv, S10Filled
<1> QED BY <1>3, <1>5, <1>6, <1>7 DEF S10Typed

\* What s10_free_buffers frees is not in use.
LEMMA FreeKeeps ==
  ASSUME S10IInv, slot' = FreeSlots, svc'.held = svc.held, svc' \in SvcType, s10' \in S10Type,
         svc'.pool = svc.pool \ {slot[i].buf : i \in s10_free_buffers}
  PROVE  /\ S10Typed' /\ S10Slots' /\ S10NoFreeInUse'
         /\ (load'.pc \in {"write", "write_complete"} => load.pc \in {"write", "write_complete"}) => S10Filled'
<1>1. slot' = [i \in SvcBufs |-> slot'[i]] /\ \A i \in SvcBufs : slot'[i] = FreeSlots[i]
  BY DEF FreeSlots
<1> QED BY <1>1, SlotsEmpty

\* A message is queued, with the buffer it hands over.
LEMMA SendIs ==
  ASSUME NEW s \in SvcType, NEW cmd \in {"reconfig", "submit", "claim", "status"},
         NEW buf \in SvcPool \cup {NoBuf}
  PROVE  /\ s10_svc_send_msg(s, cmd, buf) \in SvcType /\ s10_svc_send_msg(s, cmd, buf).pool = s.pool
         /\ s10_svc_send_msg(s, cmd, buf).held = IF buf = NoBuf THEN s.held ELSE s.held \cup {buf}
<1> DEFINE msg == [cmd |-> cmd, buf |-> buf]
           q == Append(s.queue, msg)
           h == IF buf = NoBuf THEN s.held ELSE s.held \cup {buf}
<1>1. msg \in SvcMsgs /\ s.queue \in Seq(SvcMsgs)
  BY DEF SvcMsgs, SvcType
<1>2. q \in Seq(SvcMsgs)
  BY <1>1
<1>3. h \in SUBSET SvcPool
  BY DEF SvcType
<1>4. s10_svc_send_msg(s, cmd, buf) = [s EXCEPT !.queue = q, !.thread = TRUE, !.held = h]
  BY DEF s10_svc_send_msg
<1> HIDE DEF q, h
<1> QED BY <1>2, <1>3, <1>4 DEF SvcType, h

\* The other changes of the service layer's state keep its type and the buffers.
LEMMA SvcIs ==
  ASSUME NEW s \in SvcType
  PROVE  /\ svc_done(s) \in SvcType /\ svc_done(s).pool = s.pool /\ svc_done(s).held = s.held
         /\ reinit_completion(s) \in SvcType /\ reinit_completion(s).pool = s.pool
         /\ reinit_completion(s).held = s.held
         /\ FreeSvc(s) \in SvcType /\ FreeSvc(s).held = s.held
         /\ FreeSvc(s).pool = s.pool \ {slot[i].buf : i \in s10_free_buffers}
         /\ \A bits \in SUBSET SvcBits :
              /\ [s EXCEPT !.status = bits] \in SvcType /\ [s EXCEPT !.status = bits].pool = s.pool
              /\ [s EXCEPT !.status = bits].held = s.held
<1>1. s.pool \ {slot[i].buf : i \in s10_free_buffers} \in SUBSET SvcPool
  BY DEF SvcType
<1> DEFINE left == s.pool \ {slot[i].buf : i \in s10_free_buffers}
<1>2. FreeSvc(s) = [s EXCEPT !.pool = left]
  BY DEF FreeSvc
<1> HIDE DEF left
<1>3. /\ [s EXCEPT !.pool = left] \in SvcType /\ [s EXCEPT !.pool = left].held = s.held
      /\ [s EXCEPT !.pool = left].pool = left
  BY <1>1 DEF SvcType, left
<1>4. FreeSvc(s) \in SvcType /\ FreeSvc(s).held = s.held /\ FreeSvc(s).pool = left
  BY <1>2, <1>3
<1>5. /\ svc_done(s) \in SvcType /\ svc_done(s).pool = s.pool /\ svc_done(s).held = s.held
      /\ reinit_completion(s) \in SvcType /\ reinit_completion(s).pool = s.pool
      /\ reinit_completion(s).held = s.held
  BY DEF svc_done, reinit_completion, SvcType
<1>6. ASSUME NEW bits \in SUBSET SvcBits
      PROVE  /\ [s EXCEPT !.status = bits] \in SvcType /\ [s EXCEPT !.status = bits].pool = s.pool
             /\ [s EXCEPT !.status = bits].held = s.held
  BY DEF SvcType
<1> QED BY <1>4, <1>5, <1>6 DEF left

\* A load with data goes to its first write when write_init succeeds.
LEMMA S10InitEnds ==
  ASSUME S10IInv, ImagesFilled, NEW ok \in BOOLEAN, MgrWriteInit(ok)
  PROVE  /\ MgrIInv' /\ mgr'.ops = mgr.ops /\ load.pc = "write_init" /\ load'.pc # "write_complete"
         /\ load'.pc = "write" => ok
<1>1. Total(load.image) > 0
  <2>1. Total(NoImage) > 0
    BY DEF NoImage, Total
  <2>2. load.image \in MgrImages \cup {NoImage}
    BY DEF S10IInv, MgrIInv, MgrTyped, LoadType, Images
  <2> QED BY <2>1, <2>2 DEF ImagesFilled
<1> QED BY <1>1, WriteInitFrame, MgrWriteInitKeeps DEF S10IInv, S10Inv, S10Matches

\* write_init: the request, its answer, and the buffers.
LEMMA S10Inits ==
  ASSUME S10IInv, ImagesFilled, s10_init_send \/ s10_init_refused \/ s10_init_alloc
  PROVE  S10IInv'
<1>0. s10 \in S10Type /\ slot \in [SvcBufs -> SlotType] /\ svc \in SvcType /\ S10Slots /\ S10NoFreeInUse
  BY DEF S10IInv, S10Inv, S10Typed
<1>1. ASSUME NEW ok \in BOOLEAN, MgrWriteInit(ok), s10' \in S10Type, s10'.pc = "none", S10Typed', S10Slots',
             S10NoFreeInUse', ok => S10Filled'
      PROVE  S10IInv'
  <2>1. /\ MgrIInv' /\ mgr'.ops = mgr.ops /\ load'.pc # "write_complete" /\ (load'.pc = "write" => ok)
    BY <1>1, S10InitEnds
  <2>2. S10Filled'
    BY <1>1, <2>1 DEF S10Filled
  <2> QED BY <1>1, <2>1, <2>2, S10Ends
<1>2. CASE s10_init_send
  <2>1. load.pc = "write_init" /\ s10.pc = "none" /\ UNCHANGED slot
    BY <1>2 DEF s10_init_send
  <2>2. CASE /\ s10' = [s10 EXCEPT !.pc = "init"] /\ UNCHANGED mgr_vars
             /\ svc' = s10_svc_send_msg(reinit_completion(svc), "reconfig", NoBuf)
    <3>1. s10' \in S10Type /\ s10'.pc = "init"
      BY <1>0, <2>2 DEF S10Type
    <3>2. svc' \in SvcType /\ svc'.held = svc.held /\ svc'.pool = svc.pool
      <4>1. reinit_completion(svc) \in SvcType /\ NoBuf \in SvcPool \cup {NoBuf}
        BY <1>0, SvcIs
      <4> QED BY <1>0, <2>2, <4>1, SendIs, SvcIs
    <3>3. S10Typed' /\ S10Slots' /\ S10NoFreeInUse' /\ S10Filled'
      BY <2>1, <2>2, <3>1, <3>2, SvcKeeps DEF mgr_vars
    <3> QED BY <2>1, <2>2, <3>1, <3>3, S10Moves
  <2>3. CASE MgrWriteInit(FALSE) /\ UNCHANGED s10 /\ svc' = svc_done(reinit_completion(svc))
    <3>1. svc' \in SvcType /\ svc'.held = svc.held /\ svc'.pool = svc.pool
      BY <1>0, <2>3, SvcIs
    <3> QED BY <1>0, <1>1, <2>1, <2>3, <3>1, SvcKeeps
  <2> QED BY <1>2, <2>2, <2>3 DEF s10_init_send
<1>3. CASE s10_init_refused
  <2>1. MgrWriteInit(FALSE) /\ svc' = svc_done(svc) /\ UNCHANGED slot
    BY <1>3 DEF s10_init_refused
  <2>2. s10' \in S10Type /\ s10'.pc = "none"
    BY <1>0, <1>3 DEF s10_init_refused, S10Type
  <2>3. svc' \in SvcType /\ svc'.held = svc.held /\ svc'.pool = svc.pool
    BY <1>0, <2>1, SvcIs
  <2> QED BY <1>1, <2>1, <2>2, <2>3, SvcKeeps
<1>4. CASE s10_init_alloc
  <2>1. s10' \in S10Type /\ s10'.pc = "none"
    BY <1>0, <1>4 DEF s10_init_alloc, S10Type
  <2>2. svc.status \ {"ok"} \in SUBSET SvcBits
    BY <1>0 DEF SvcType
  <2>3. ASSUME NEW f \in [SvcBufs -> SvcPool \ svc.pool], \A i, j \in SvcBufs : i # j => f[i] # f[j],
               slot' = [i \in SvcBufs |-> [buf |-> f[i], lock |-> FALSE]],
               svc' = svc_done([svc EXCEPT !.status = svc.status \ {"ok"},
                                           !.pool = svc.pool \cup {f[i] : i \in SvcBufs}]),
               MgrWriteInit(TRUE)
        PROVE  S10IInv'
    <3> DEFINE pool == svc.pool \cup {f[i] : i \in SvcBufs}
               bits == svc.status \ {"ok"}
               s == [svc EXCEPT !.status = bits, !.pool = pool]
    <3>1. pool \in SUBSET SvcPool
      BY <1>0 DEF SvcType
    <3>2. s \in SvcType /\ s.pool = pool /\ s.held = svc.held
      <4> HIDE DEF pool, bits
      <4>1. bits \in SUBSET SvcBits
        BY <2>2 DEF bits
      <4> QED BY <1>0, <3>1, <4>1 DEF SvcType
    <3>3. svc' = svc_done(s)
      BY <2>3
    <3> HIDE DEF s
    <3>4. svc' \in SvcType /\ svc'.pool = pool /\ svc'.held = svc.held
      BY <3>2, <3>3, SvcIs
    <3>5. slot' \in [SvcBufs -> SlotType] /\ \A i \in SvcBufs : slot'[i].buf = f[i] /\ ~slot'[i].lock
      BY <2>3 DEF SlotType
    <3>6. \A i \in SvcBufs : f[i] \in SvcPool /\ f[i] \notin svc.held /\ f[i] # NoBuf /\ f[i] \in pool
      BY <1>0, S10Assumption DEF S10NoFreeInUse
    <3>7. S10Slots' /\ S10NoFreeInUse' /\ S10Filled'
      BY <1>0, <2>3, <3>4, <3>5, <3>6 DEF S10Slots, S10NoFreeInUse, S10Filled
    <3>8. S10Typed'
      BY <2>1, <3>4, <3>5 DEF S10Typed
    <3> QED BY <1>1, <2>1, <2>3, <3>7, <3>8
  <2>4. ASSUME NEW n \in SvcBufs,
               slot' = [i \in SvcBufs |-> IF i < n THEN [buf |-> NoBuf, lock |-> TRUE] ELSE FreeSlots[i]],
               svc' = svc_done([svc EXCEPT !.status = svc.status \ {"ok"},
                                           !.pool = svc.pool \ {slot[i].buf : i \in {k \in s10_free_buffers : k >= n}}]),
               MgrWriteInit(FALSE)
        PROVE  S10IInv'
    <3> DEFINE freed == {k \in s10_free_buffers : k >= n}
               pool == svc.pool \ {slot[i].buf : i \in freed}
               bits == svc.status \ {"ok"}
               s == [svc EXCEPT !.status = bits, !.pool = pool]
    <3>1. freed \in SUBSET s10_free_buffers
      OBVIOUS
    <3>2. svc' = svc_done(s)
      BY <2>4
    <3> HIDE DEF freed
    <3>3. pool \in SUBSET SvcPool /\ bits \in SUBSET SvcBits
      BY <1>0, <2>2 DEF SvcType
    <3>4. s \in SvcType /\ s.pool = pool /\ s.held = svc.held
      <4> HIDE DEF pool, bits
      <4> QED BY <1>0, <3>3 DEF SvcType
    <3> HIDE DEF s
    <3>5. svc' \in SvcType /\ svc'.held = svc.held /\ svc'.pool = svc.pool \ {slot[i].buf : i \in freed}
      BY <3>2, <3>4, SvcIs
    <3>6. /\ slot' = [i \in SvcBufs |-> slot'[i]]
          /\ \A i \in SvcBufs : slot'[i] = FreeSlots[i] \/ slot'[i] = [buf |-> NoBuf, lock |-> TRUE]
      BY <2>4
    <3>7. S10Typed' /\ S10Slots' /\ S10NoFreeInUse'
      BY <2>1, <3>1, <3>5, <3>6, SlotsEmpty
    <3> QED BY <1>1, <2>1, <2>4, <3>7
  <2> QED BY <1>4, <2>3, <2>4 DEF s10_init_alloc
<1> QED BY <1>2, <1>3, <1>4

\* write: a buffer is handed over only from a slot that has one nobody uses; the write
\* succeeds when every buffer is back.
LEMMA S10Writes ==
  ASSUME S10IInv, s10_write_begin \/ s10_send_buf \/ s10_write_free \/ s10_write_wait
  PROVE  S10IInv'
<1>0. /\ s10 \in S10Type /\ slot \in [SvcBufs -> SlotType] /\ svc \in SvcType /\ S10Slots /\ S10NoFreeInUse
      /\ S10Filled /\ MgrIInv /\ S10Matches
  BY DEF S10IInv, S10Inv, S10Typed
<1>1. load.pc = "write"
  BY <1>0 DEF s10_write_begin, s10_send_buf, s10_write_free, s10_write_wait, S10Matches
<1>2. ASSUME NEW ok \in BOOLEAN, MgrWrite(ok), s10'.pc = "none",
             S10Typed', S10Slots', S10NoFreeInUse', S10Filled',
             ok => \A i \in SvcBufs : slot'[i].buf = NoBuf
      PROVE  S10IInv'
  <2>1. MgrIInv' /\ mgr'.ops = mgr.ops /\ (load'.pc = "write_complete" => ok)
    BY <1>0, <1>2, WriteFrame, MgrWriteKeeps
  <2> QED BY <1>2, <2>1, S10Ends
<1>3. ASSUME UNCHANGED mgr_vars, UNCHANGED slot, svc' \in SvcType, svc'.held = svc.held, svc'.pool = svc.pool,
             s10' \in S10Type, s10'.pc \in {"loop", "wait"}
      PROVE  S10IInv'
  <2>1. S10Typed' /\ S10Slots' /\ S10NoFreeInUse' /\ S10Filled'
    BY <1>1, <1>3, SvcKeeps
  <2> QED BY <1>1, <1>3, <2>1, S10Moves
<1>4. CASE s10_write_begin
  <2>1. s10' \in S10Type /\ s10'.pc = "loop"
    BY <1>0, <1>1, <1>4, ChunkIs DEF s10_write_begin, S10Type
  <2> QED BY <1>0, <1>3, <1>4, <2>1 DEF s10_write_begin
<1>5. CASE s10_send_buf
  <2> DEFINE s == reinit_completion(svc)
             free == {i \in SvcBufs : ~slot[i].lock}
             i == CHOOSE k \in free : TRUE
  <2>1. s \in SvcType /\ s.pool = svc.pool /\ s.held = svc.held
    BY <1>0, SvcIs
  <2>2. CASE svc' = s /\ UNCHANGED <<s10, slot>>
    BY <1>0, <1>3, <1>5, <2>1, <2>2 DEF s10_send_buf
  <2>3. CASE /\ free # {} /\ slot' = [slot EXCEPT ![i].lock = TRUE]
             /\ svc' = s10_svc_send_msg(s, "submit", slot[i].buf)
             /\ s10' = [pc |-> "wait", count |-> s10.count - 1]
    <3>1. i \in SvcBufs /\ ~slot[i].lock
      BY <2>3
    <3>2. s10' \in S10Type /\ s10'.pc = "wait"
      BY <1>0, <1>5, <2>3 DEF s10_send_buf, S10Type
    <3> HIDE DEF s, i, free
    <3>3. slot[i].buf # NoBuf /\ slot[i].buf \in svc.pool /\ slot[i].buf \in SvcPool
      BY <1>0, <1>1, <3>1 DEF S10Filled, S10Slots, SvcType
    <3>4. svc' \in SvcType /\ svc'.pool = svc.pool /\ svc'.held = svc.held \cup {slot[i].buf}
      <4>1. \A b \in SvcPool \cup {NoBuf} :
              /\ s10_svc_send_msg(s, "submit", b) \in SvcType /\ s10_svc_send_msg(s, "submit", b).pool = s.pool
              /\ s10_svc_send_msg(s, "submit", b).held = IF b = NoBuf THEN s.held ELSE s.held \cup {b}
        BY <2>1, SendIs
      <4>2. slot[i].buf \in SvcPool \cup {NoBuf} /\ slot[i].buf # NoBuf
        BY <3>3
      <4>3. svc' = s10_svc_send_msg(s, "submit", slot[i].buf)
        BY <2>3
      <4> QED BY <2>1, <4>1, <4>2, <4>3
    <3>5. /\ slot' \in [SvcBufs -> SlotType] /\ \A j \in SvcBufs : slot'[j].buf = slot[j].buf
          /\ slot'[i].lock /\ \A j \in SvcBufs : j # i => slot'[j].lock = slot[j].lock
      BY <1>0, <2>3, <3>1 DEF SlotType
    <3>6. S10Typed' /\ S10Slots'
      BY <1>0, <3>2, <3>4, <3>5 DEF S10Typed, S10Slots
    <3>7. S10NoFreeInUse'
      BY <1>0, <3>1, <3>3, <3>4, <3>5 DEF S10NoFreeInUse, S10Slots
    <3>8. S10Filled'
      BY <1>0, <1>1, <3>1, <3>3, <3>5 DEF S10Filled
    <3> QED BY <1>1, <1>5, <3>2, <3>5, <3>6, <3>7, <3>8, S10Moves DEF s10_send_buf
  <2> QED BY <1>5, <2>2, <2>3 DEF s10_send_buf
<1>6. CASE s10_write_free
  <2> DEFINE s == FreeSvc(reinit_completion(svc))
  <2>1. s \in SvcType /\ s.held = svc.held /\ s.pool = svc.pool \ {slot[i].buf : i \in s10_free_buffers}
    BY <1>0, SvcIs
  <2>2. slot' = FreeSlots
    BY <1>6 DEF s10_write_free
  <2> HIDE DEF s
  <2>3. ASSUME svc' \in SvcType, svc'.held = s.held, svc'.pool = s.pool, s10' \in S10Type
        PROVE  S10Typed' /\ S10Slots' /\ S10NoFreeInUse' /\ S10Filled'
    BY <1>1, <2>1, <2>2, <2>3, FreeKeeps
  <2>4. CASE svc' = s /\ s10' = [s10 EXCEPT !.pc = "none"] /\ AllFreed /\ MgrWrite(TRUE)
    <3>1. s10' \in S10Type /\ s10'.pc = "none"
      BY <1>0, <2>4 DEF S10Type
    <3>2. \A i \in SvcBufs : slot'[i].buf = NoBuf
      BY <2>2, <2>4 DEF AllFreed
    <3> QED BY <1>2, <2>1, <2>3, <2>4, <3>1, <3>2
  <2>5. CASE svc' = s /\ s10' = [s10 EXCEPT !.pc = "none"] /\ MgrWrite(FALSE)
    <3>1. s10' \in S10Type /\ s10'.pc = "none"
      BY <1>0, <2>5 DEF S10Type
    <3> QED BY <1>2, <2>1, <2>3, <2>5, <3>1
  <2>6. CASE /\ svc' = s10_svc_send_msg(s, "claim", NoBuf) /\ s10' = [s10 EXCEPT !.pc = "wait"]
             /\ UNCHANGED mgr_vars
    <3>1. s10' \in S10Type /\ s10'.pc = "wait"
      BY <1>0, <2>6 DEF S10Type
    <3>2. NoBuf \in SvcPool \cup {NoBuf}
      OBVIOUS
    <3>3. svc' \in SvcType /\ svc'.held = s.held /\ svc'.pool = s.pool
      BY <2>1, <2>6, <3>2, SendIs
    <3> QED BY <1>1, <2>3, <2>6, <3>1, <3>3, S10Moves
  <2> QED BY <1>6, <2>4, <2>5, <2>6 DEF s10_write_free, s
<1>7. CASE s10_write_wait
  <2>1. CASE /\ slot' = FreeSlots /\ svc' = FreeSvc([svc EXCEPT !.status = svc.status \ {"error"}])
             /\ MgrWrite(FALSE) /\ s10' = [s10 EXCEPT !.pc = "none"]
    <3> DEFINE bits == svc.status \ {"error"}
               s == [svc EXCEPT !.status = bits]
    <3>1. bits \in SUBSET SvcBits
      BY <1>0 DEF SvcType
    <3>2. s \in SvcType /\ s.held = svc.held /\ s.pool = svc.pool
      BY <1>0, <3>1, SvcIs
    <3>3. svc' = FreeSvc(s)
      BY <2>1
    <3> HIDE DEF s
    <3>4. s10' \in S10Type /\ s10'.pc = "none"
      BY <1>0, <2>1 DEF S10Type
    <3>5. S10Typed' /\ S10Slots' /\ S10NoFreeInUse' /\ S10Filled'
      BY <1>1, <2>1, <3>2, <3>3, <3>4, SvcIs, FreeKeeps
    <3> QED BY <1>2, <2>1, <3>4, <3>5
  <2>2. ASSUME NEW bit, svc' = [svc EXCEPT !.status = svc.status \ {bit}], s10' = [s10 EXCEPT !.pc = "loop"],
               UNCHANGED <<mgr_vars, slot>>
        PROVE  S10IInv'
    <3>1. svc.status \ {bit} \in SUBSET SvcBits
      BY <1>0 DEF SvcType
    <3>2. svc' \in SvcType /\ svc'.held = svc.held /\ svc'.pool = svc.pool
      BY <1>0, <2>2, <3>1, SvcIs
    <3>3. s10' \in S10Type /\ s10'.pc = "loop"
      BY <1>0, <2>2 DEF S10Type
    <3> QED BY <1>3, <2>2, <3>2, <3>3
  <2> QED BY <1>7, <2>1, <2>2 DEF s10_write_wait
<1> QED BY <1>4, <1>5, <1>6, <1>7

\* write_complete: messages and status bits, no buffers.
LEMMA S10Completes ==
  ASSUME S10IInv, s10_complete_send \/ s10_complete_wait
  PROVE  S10IInv'
<1>0. /\ s10 \in S10Type /\ slot \in [SvcBufs -> SlotType] /\ svc \in SvcType /\ MgrIInv /\ S10Matches
      /\ S10AllTaken
  BY DEF S10IInv, S10Inv, S10Typed
<1>1. load.pc = "write_complete" /\ UNCHANGED slot
  BY <1>0 DEF s10_complete_send, s10_complete_wait, S10Matches
<1>2. ASSUME NEW ok \in BOOLEAN, MgrWriteComplete(ok), s10' = [s10 EXCEPT !.pc = "none"],
             svc' \in SvcType, svc'.held = svc.held, svc'.pool = svc.pool
      PROVE  S10IInv'
  <2>1. MgrIInv' /\ mgr'.ops = mgr.ops /\ load'.pc = "none"
    BY <1>0, <1>2, WriteCompleteFrame, MgrWriteCompleteKeeps
  <2>2. s10' \in S10Type /\ s10'.pc = "none"
    BY <1>0, <1>2 DEF S10Type
  <2>3. S10Typed' /\ S10Slots' /\ S10NoFreeInUse' /\ S10Filled'
    BY <1>1, <1>2, <2>1, <2>2, SvcKeeps
  <2> QED BY <2>1, <2>2, <2>3, S10Ends
<1>3. ASSUME UNCHANGED mgr_vars, NEW pc \in {"again", "completing"}, s10' = [s10 EXCEPT !.pc = pc],
             svc' \in SvcType, svc'.held = svc.held, svc'.pool = svc.pool
      PROVE  S10IInv'
  <2>1. s10' \in S10Type /\ s10'.pc = pc
    BY <1>0, <1>3 DEF S10Type
  <2>2. S10Typed' /\ S10Slots' /\ S10NoFreeInUse' /\ S10Filled'
    BY <1>1, <1>3, <2>1, SvcKeeps
  <2> QED BY <1>1, <1>3, <2>1, <2>2, S10Moves
<1>4. CASE s10_complete_send
  <2>1. reinit_completion(svc) \in SvcType /\ NoBuf \in SvcPool \cup {NoBuf}
    BY <1>0, SvcIs
  <2>2. CASE /\ svc' = s10_svc_send_msg(reinit_completion(svc), "status", NoBuf)
             /\ s10' = [s10 EXCEPT !.pc = "completing"] /\ UNCHANGED mgr_vars
    <3>1. svc' \in SvcType /\ svc'.held = svc.held /\ svc'.pool = svc.pool
      BY <1>0, <2>1, <2>2, SendIs, SvcIs
    <3> QED BY <1>3, <2>2, <3>1
  <2>3. CASE /\ svc' = svc_done(reinit_completion(svc))
             /\ MgrWriteComplete(FALSE) /\ s10' = [s10 EXCEPT !.pc = "none"]
    <3>1. svc' \in SvcType /\ svc'.held = svc.held /\ svc'.pool = svc.pool
      BY <1>0, <2>1, <2>3, SvcIs
    <3> QED BY <1>2, <2>3, <3>1
  <2> QED BY <1>4, <2>2, <2>3 DEF s10_complete_send
<1>5. CASE s10_complete_wait
  <2>1. ASSUME NEW bits \in SUBSET SvcBits, NEW ok \in BOOLEAN, svc' = svc_done([svc EXCEPT !.status = bits]),
               MgrWriteComplete(ok), s10' = [s10 EXCEPT !.pc = "none"]
        PROVE  S10IInv'
    <3> DEFINE s == [svc EXCEPT !.status = bits]
    <3>1. s \in SvcType /\ s.held = svc.held /\ s.pool = svc.pool /\ svc' = svc_done(s)
      BY <1>0, <2>1, SvcIs
    <3> HIDE DEF s
    <3>2. svc' \in SvcType /\ svc'.held = svc.held /\ svc'.pool = svc.pool
      BY <3>1, SvcIs
    <3> QED BY <1>2, <2>1, <3>2
  <2>2. /\ svc.status \in SUBSET SvcBits /\ svc.status \ {"completed"} \in SUBSET SvcBits
        /\ svc.status \ {"error"} \in SUBSET SvcBits
    BY <1>0 DEF SvcType
  <2>3. CASE svc' = svc_done([svc EXCEPT !.status = svc.status \ {"completed"}]) /\ MgrWriteComplete(TRUE)
             /\ s10' = [s10 EXCEPT !.pc = "none"]
    BY <2>1, <2>2, <2>3
  <2>4. CASE svc' = svc_done([svc EXCEPT !.status = IF Answered THEN svc.status \ {"error"} ELSE svc.status])
             /\ MgrWriteComplete(FALSE) /\ s10' = [s10 EXCEPT !.pc = "none"]
    <3>1. (IF Answered THEN svc.status \ {"error"} ELSE svc.status) \in SUBSET SvcBits
      BY <2>2
    <3> QED BY <2>1, <2>4, <3>1
  <2>5. CASE s10' = [s10 EXCEPT !.pc = "again"] /\ UNCHANGED <<mgr_vars, svc>>
    BY <1>0, <1>3, <2>5
  <2> QED BY <1>5, <2>3, <2>4, <2>5 DEF s10_complete_wait
<1> QED BY <1>4, <1>5

\* The callback gives back only buffers of which the service layer lets go.
LEMMA S10Answers ==
  ASSUME S10IInv, s10_receive_callback
  PROVE  S10IInv'
<1>0. /\ s10 \in S10Type /\ slot \in [SvcBufs -> SlotType] /\ svc \in SvcType /\ S10Slots /\ S10NoFreeInUse
      /\ S10Filled /\ S10Matches
  BY DEF S10IInv, S10Inv, S10Typed
<1>1. svc.queue \in Seq(SvcMsgs) /\ svc.queue # <<>> /\ UNCHANGED <<mgr_vars, s10>>
  BY <1>0 DEF SvcType, s10_receive_callback
<1>2. Tail(svc.queue) \in Seq(SvcMsgs)
  BY <1>1
<1>3. ASSUME NEW bits \in SUBSET SvcBits, NEW back \in SUBSET svc.held, s10_unlock_bufs(back),
             svc' = [svc EXCEPT !.queue = Tail(svc.queue), !.status = svc.status \cup bits, !.done = TRUE,
                                !.held = svc.held \ back]
      PROVE  S10IInv'
  <2> DEFINE q == Tail(svc.queue)
             st == svc.status \cup bits
             held == svc.held \ back
  <2>1. q \in Seq(SvcMsgs) /\ st \in SUBSET SvcBits /\ held \in SUBSET SvcPool
    BY <1>0, <1>2 DEF SvcType
  <2>2. svc' = [svc EXCEPT !.queue = q, !.status = st, !.done = TRUE, !.held = held]
    BY <1>3
  <2> HIDE DEF q, st
  <2>3. svc' \in SvcType /\ svc'.held = held /\ svc'.pool = svc.pool
    <3> HIDE DEF held
    <3> QED BY <1>0, <2>1, <2>2 DEF SvcType
  <2>4. /\ slot' \in [SvcBufs -> SlotType] /\ \A i \in SvcBufs : slot'[i].buf = slot[i].buf
        /\ \A i \in SvcBufs : slot'[i].lock = (slot[i].lock /\ slot[i].buf \notin back)
    BY <1>0, <1>3 DEF s10_unlock_bufs, SlotType
  <2>5. S10Typed' /\ S10Slots'
    BY <1>0, <1>1, <2>3, <2>4 DEF S10Typed, S10Slots
  <2>6. S10NoFreeInUse'
    BY <1>0, <2>3, <2>4 DEF S10NoFreeInUse
  <2>7. \A i \in SvcBufs : slot[i].buf \in back => slot[i].buf # NoBuf
    BY <1>0, S10Assumption DEF SvcType
  <2>8. S10Filled'
    BY <1>0, <1>1, <2>4, <2>7 DEF S10Filled, mgr_vars
  <2> QED BY <1>0, <1>1, <2>4, <2>5, <2>6, <2>8, S10Moves DEF S10Matches
<1>4. \A b \in SvcBits : {b} \in SUBSET SvcBits
  OBVIOUS
<1>5. {} \in SUBSET svc.held
  OBVIOUS
<1>6. PICK b \in SvcBits, back \in SUBSET svc.held :
        /\ s10_unlock_bufs(back)
        /\ svc' = [svc EXCEPT !.queue = Tail(svc.queue), !.status = svc.status \cup {b}, !.done = TRUE,
                               !.held = svc.held \ back]
  BY <1>5 DEF s10_receive_callback, SvcBits
<1> QED BY <1>3, <1>4, <1>6

\* Every step keeps the invariant of framework, driver and service layer.
LEMMA S10NextIInv == ImagesFilled /\ S10IInv /\ [S10Next]_s10_vars => S10IInv'
<1> SUFFICES ASSUME ImagesFilled, S10IInv, [S10Next]_s10_vars PROVE S10IInv'
  OBVIOUS
<1>1. CASE MgrFramework({FALSE}) /\ UNCHANGED <<s10, slot, svc>>
  <2>1. {FALSE} \in SUBSET BOOLEAN /\ MgrIInv
    BY DEF S10IInv
  <2>2. MgrIInv'
    BY <1>1, <2>1, FrameworkKeeps
  <2>3. /\ mgr'.ops = mgr.ops
        /\ \/ load' = load
           \/ /\ load.pc \notin {"write_init", "write", "write_complete"}
              /\ load'.pc \notin {"write", "write_complete"}
    BY <1>1, <2>1, FrameworkFrame
  <2> QED BY <1>1, <2>2, <2>3
          DEF S10IInv, S10Inv, S10Typed, S10Slots, S10Matches, S10Filled, S10NoFreeInUse, S10AllTaken, Owned
<1>2. CASE UNCHANGED s10_vars
  <2>1. MgrIInv' /\ load' = load /\ mgr' = mgr
    BY <1>2, MgrNextIInv DEF s10_vars, mgr_vars, S10IInv
  <2> QED BY <1>2, <2>1
          DEF s10_vars, S10IInv, S10Inv, S10Typed, S10Slots, S10Matches, S10Filled, S10NoFreeInUse,
              S10AllTaken, Owned
<1> QED BY <1>1, <1>2, S10Registers, S10Inits, S10Writes, S10Completes, S10Answers DEF S10Next

\* The Stratix 10 manager in the framework, for any slots, pool and answers of the service
\* layer, also when they come late: no buffer the service layer reads from is freed or
\* filled, a write that succeeded has all its buffers back, and a slot taken for sending
\* has a buffer.  An empty image would be complete before a write gave the buffers back.
THEOREM S10IsSafe ==
  ASSUME ImagesFilled
  PROVE  S10Spec => []S10BuffersSafe /\ []MgrLoadTrue
<1>1. S10Init => S10IInv
  <2> SUFFICES ASSUME S10Init PROVE S10IInv
    OBVIOUS
  <2>1. MgrIInv /\ load.pc = "none" /\ ~mgr.ops.skip
    BY MgrInitIInv DEF S10Init, MgrInit, NoLoad, NoOps
  <2>2. S10Typed
    BY EmptySeq DEF S10Init, S10Typed, S10Type, SlotType, SvcType
  <2> QED BY <2>1, <2>2
          DEF S10Init, S10IInv, S10Inv, S10Slots, S10Matches, S10Filled, S10NoFreeInUse, S10AllTaken
<1>2. S10IInv => S10BuffersSafe
  BY DEF S10IInv, S10Inv, S10Matches, S10Filled, S10BuffersSafe, S10FreeSlotFilled
<1>3. S10IInv => MgrLoadTrue
  BY MgrImplies DEF S10IInv
<1> QED BY <1>1, <1>2, <1>3, S10NextIInv, PTL DEF S10Spec
=============================================================================
