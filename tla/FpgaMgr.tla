------------------------------- MODULE FpgaMgr -------------------------------
(***************************************************************************)
(* The FPGA manager framework: a manager is registered with the operations *)
(* of a low level driver, users lock it and load an image through it.  An  *)
(* image arrives scattered (fragments) or mapped, and the driver is shown  *)
(* its header, then given its data piece by piece.  The steps that end a   *)
(* driver operation, MgrWriteInit, MgrWrite and MgrWriteComplete, take its *)
(* result; the driver modules conjoin them with what their operation does. *)
(* Lengths are in units of the smallest piece that matters.                *)
(***************************************************************************)
EXTENDS Integers, Sequences, Functions

CONSTANTS
  MgrUsers,    \* regions that share the manager
  MgrImages,   \* images: where their fragments end, header size and data size they declare
  MgrHeaders   \* header sizes a driver of which nothing is known may ask for

NoUser == "nobody"
Sources == {"sg", "buf", "fw"}
ASSUME MgrAssumption ==
  /\ NoUser \notin MgrUsers
  /\ MgrHeaders \subseteq Nat
  /\ \A im \in MgrImages :
       /\ im.ends \in Seq(Nat) /\ im.ends # <<>> /\ im.hdr \in Nat /\ im.data \in Nat
       /\ \A i, j \in 1..Len(im.ends) : i < j => im.ends[i] < im.ends[j]

VARIABLES
  mgr,    \* struct fpga_manager: operations, state, lock holder, references
  load    \* the load under way, or what the last one left

mgr_vars == <<mgr, load>>

FpgaMgrStates ==
  {"unknown", "reset", "power off", "power up", "firmware request", "firmware request error", "parse header",
   "parse header error", "write init", "write init error", "write", "write error",
   "write complete", "write complete error", "operating"}

\* hdr: initial_header_size; parse, skip, sg, write, complete: what is provided.
NoOps == [hdr |-> 0, parse |-> FALSE, skip |-> FALSE, sg |-> FALSE, write |-> FALSE, complete |-> FALSE]
MgrOps == [hdr : Nat, parse : BOOLEAN, skip : BOOLEAN, sg : BOOLEAN, write : BOOLEAN, complete : BOOLEAN]
NoImage == [ends |-> <<1>>, hdr |-> 0, data |-> 0]
NoLoad ==
  [pc |-> "none", user |-> NoUser, src |-> "sg", image |-> NoImage,
   partial |-> FALSE, hdr |-> 0, data |-> 0, seen |-> 0, pos |-> 0, sent |-> 0, dirty |-> FALSE, ret |-> "none"]

MgrInit ==
  /\ mgr = [reg |-> FALSE, ops |-> NoOps, state |-> "unknown", lock |-> NoUser, refs |-> {}]
  /\ load = NoLoad

Total(im) == im.ends[Len(im.ends)]
\* Where the fragment that holds position p ends.
FragEnd(im, p) == CHOOSE e \in Range(im.ends) : e > p /\ \A d \in Range(im.ends) : d > p => e <= d

-----------------------------------------------------------------------------
(* Registration, references and the lock.                                  *)

\* The state is read from the device by the driver's state operation.
fpga_mgr_register_full(ops, state) ==
  /\ ~mgr.reg
  /\ mgr' = [mgr EXCEPT !.reg = TRUE, !.ops = ops, !.state = state]
  /\ load' = NoLoad

\* The module of the driver cannot go while someone has got the manager.
fpga_mgr_unregister ==
  /\ mgr.reg /\ mgr.refs = {}
  /\ mgr' = [mgr EXCEPT !.reg = FALSE]
  /\ UNCHANGED load

fpga_mgr_get(u) ==
  /\ mgr.reg /\ u \notin mgr.refs
  /\ mgr' = [mgr EXCEPT !.refs = @ \cup {u}]
  /\ UNCHANGED load

fpga_mgr_put(u) ==
  /\ u \in mgr.refs /\ mgr.lock # u
  /\ mgr' = [mgr EXCEPT !.refs = @ \ {u}]
  /\ UNCHANGED load

fpga_mgr_lock(u) ==
  /\ u \in mgr.refs /\ mgr.lock = NoUser
  /\ mgr' = [mgr EXCEPT !.lock = u]
  /\ UNCHANGED load

fpga_mgr_unlock(u) ==
  /\ mgr.lock = u /\ load.pc = "none"
  /\ mgr' = [mgr EXCEPT !.lock = NoUser]
  /\ UNCHANGED load

-----------------------------------------------------------------------------
(* The load.                                                               *)

MgrState(s) == mgr' = [mgr EXCEPT !.state = s]
MgrGoto(pc, s) == MgrState(s) /\ load' = [load EXCEPT !.pc = pc]
MgrFails(s) == MgrState(s) /\ load' = [load EXCEPT !.pc = "none", !.ret = "err"]

fpga_mgr_load(u, src, im, partial) ==
  /\ mgr.lock = u /\ load.pc = "none"
  /\ load' = [NoLoad EXCEPT !.pc = IF src = "sg" THEN "prepare_sg" ELSE IF src = "buf" THEN "buf" ELSE "fw",
                            !.user = u, !.src = src, !.image = im, !.partial = partial,
                            !.hdr = mgr.ops.hdr, !.dirty = load.dirty]
  /\ mgr' = [mgr EXCEPT !.state = IF src = "fw" THEN "firmware request" ELSE @]

fpga_mgr_firmware_load ==
  /\ load.pc = "fw"
  /\ MgrGoto("buf", mgr.state) \/ MgrFails("firmware request error")

\* A driver with write takes the mapped buffer; for the others its pages are
\* listed, which can fail before anything happened to the device.
fpga_mgr_buf_load ==
  /\ load.pc = "buf"
  /\ IF mgr.ops.write THEN MgrGoto("parse_mapped", mgr.state)
     ELSE MgrGoto("prepare_sg", mgr.state) \/ MgrFails(mgr.state)

\* write_init_buf, entered with the first `count' units of the image; the
\* operation itself is the driver's, ended by MgrWriteInit.
fpga_mgr_write_init_buf(hdr, data, count) ==
  IF hdr > count THEN MgrFails("write init error")
  ELSE /\ MgrState("write init")
       /\ load' = [load EXCEPT !.pc = "write_init", !.hdr = hdr, !.data = data, !.seen = IF hdr = 0 THEN 0 ELSE count]

\* The driver's parse_header on `count' units: it asks for more, finds the
\* sizes, or refuses the image.
ParseHeader(count) ==
  LET im == load.image IN
  IF ~mgr.ops.parse THEN {[ret |-> "ok", hdr |-> load.hdr, data |-> load.data]}
  ELSE {[ret |-> IF count < im.hdr THEN "again" ELSE "ok", hdr |-> im.hdr, data |-> IF count < im.hdr THEN 0 ELSE im.data],
        [ret |-> "err", hdr |-> load.hdr, data |-> 0]}

fpga_mgr_parse_header_mapped ==
  LET count == Total(load.image) IN
  /\ load.pc = "parse_mapped"
  /\ \E p \in ParseHeader(count) :
       IF p.ret # "ok" \/ p.hdr + p.data > count THEN MgrFails("parse header error")
       ELSE fpga_mgr_write_init_buf(p.hdr, p.data, count)

ParseSgFirst(p, count) ==
  CASE p.ret = "ok" -> fpga_mgr_write_init_buf(p.hdr, p.data, count)
    [] p.ret = "again" -> MgrState("parse header") /\ load' = [load EXCEPT !.pc = "parse_sg", !.hdr = p.hdr, !.seen = 0]
    [] OTHER -> MgrFails("parse header error")

\* The short path; the first fragment when the header fits it; or a copy.
fpga_mgr_prepare_sg ==
  LET first == load.image.ends[1] IN
  /\ load.pc = "prepare_sg"
  /\ IF mgr.ops.hdr = 0 /\ ~mgr.ops.parse THEN fpga_mgr_write_init_buf(0, load.data, 0)
     ELSE IF first >= load.hdr THEN \E p \in ParseHeader(first) : ParseSgFirst(p, first)
     ELSE ParseSgFirst([ret |-> "again", hdr |-> load.hdr, data |-> 0], first)

\* One round of the copy: the header grows until the driver has enough.
fpga_mgr_parse_header_sg ==
  /\ load.pc = "parse_sg"
  /\ IF load.hdr <= load.seen \/ load.hdr > Total(load.image) THEN MgrFails("parse header error")
     ELSE \E p \in ParseHeader(load.hdr) :
            CASE p.ret = "ok" -> fpga_mgr_write_init_buf(p.hdr, p.data, load.hdr)
              [] p.ret = "again" -> UNCHANGED mgr /\ load' = [load EXCEPT !.hdr = p.hdr, !.seen = load.hdr]
              [] OTHER -> MgrFails("parse header error")

Mapped == load.src # "sg" /\ mgr.ops.write
\* Fault: the last piece is not cut at the size of the data.
MgrChunk_Uncut ==
  LET rest == Total(load.image) - load.pos IN
  IF mgr.ops.sg \/ Mapped THEN rest ELSE FragEnd(load.image, load.pos) - load.pos

\* The length of the piece the driver is given.
MgrChunk ==
  LET rest == Total(load.image) - load.pos
      left == load.data - load.sent
      frag == FragEnd(load.image, load.pos) - load.pos
  IN  IF mgr.ops.sg THEN rest
      ELSE IF Mapped THEN IF load.data > 0 THEN load.data ELSE rest
      ELSE IF load.data > 0 /\ left < frag THEN left ELSE frag

\* The loop over the fragments, or the one mapped write, ends at pos.
WriteEnds(pos, sent) ==
  \/ mgr.ops.sg \/ Mapped
  \/ pos = Total(load.image) \/ (load.data > 0 /\ sent >= load.data)

\* The write_complete phase; a driver may have no such operation.
EnterComplete(l) ==
  /\ MgrState(IF mgr.ops.complete THEN "write complete" ELSE "operating")
  /\ load' = IF mgr.ops.complete THEN [l EXCEPT !.pc = "write_complete"]
             ELSE [l EXCEPT !.pc = "none", !.ret = "ok", !.dirty = FALSE]

\* End of write_init; the scatter list is then moved past a skipped header.
MgrWriteInit(ok) ==
  LET from == IF mgr.ops.skip THEN load.hdr ELSE 0
      l == [load EXCEPT !.pc = "write", !.dirty = TRUE, !.pos = from]
  IN
  /\ load.pc = "write_init"
  /\ IF ~ok THEN MgrState("write init error") /\ load' = [l EXCEPT !.pc = "none", !.ret = "err"]
     ELSE IF mgr.ops.sg \/ Mapped \/ from < Total(load.image) THEN MgrState("write") /\ load' = l
     ELSE IF from > Total(load.image) THEN MgrState("write error") /\ load' = [l EXCEPT !.pc = "none", !.ret = "err"]
     ELSE EnterComplete(l)

\* End of one write or of write_sg.
MgrWrite(ok) ==
  LET l == [load EXCEPT !.pos = @ + MgrChunk, !.sent = @ + MgrChunk] IN
  /\ load.pc = "write"
  /\ IF ~ok THEN MgrFails("write error")
     ELSE IF WriteEnds(l.pos, l.sent) THEN EnterComplete(l)
     ELSE load' = l /\ UNCHANGED mgr

MgrWriteComplete(ok) ==
  /\ load.pc = "write_complete"
  /\ IF ok THEN MgrState("operating") /\ load' = [load EXCEPT !.pc = "none", !.ret = "ok", !.dirty = FALSE]
     ELSE MgrFails("write complete error")

\* What the framework and its users do between the operations of the driver.
MgrFramework(partials) ==
  \/ fpga_mgr_unregister
  \/ \E u \in MgrUsers : fpga_mgr_get(u) \/ fpga_mgr_put(u) \/ fpga_mgr_lock(u) \/ fpga_mgr_unlock(u)
  \/ \E u \in MgrUsers, src \in Sources, im \in MgrImages, p \in partials : fpga_mgr_load(u, src, im, p)
  \/ fpga_mgr_firmware_load \/ fpga_mgr_buf_load
  \/ fpga_mgr_parse_header_mapped \/ fpga_mgr_prepare_sg \/ fpga_mgr_parse_header_sg

\* A driver of which nothing is known but the operations it provides.
AnyOps ==
  [hdr : MgrHeaders, parse : BOOLEAN, skip : BOOLEAN, sg : {FALSE}, write : {TRUE}, complete : BOOLEAN]
AnyDriver ==
  \/ \E ops \in AnyOps, s \in {"unknown", "power up", "operating"} : fpga_mgr_register_full(ops, s)
  \/ MgrFramework({FALSE})
  \/ \E ok \in BOOLEAN : MgrWriteInit(ok) \/ MgrWrite(ok) \/ MgrWriteComplete(ok)

MgrSpec == MgrInit /\ [][AnyDriver]_mgr_vars

-----------------------------------------------------------------------------
(* Properties.                                                             *)

MgrTypeOK ==
  /\ mgr \in [reg : BOOLEAN, ops : MgrOps, state : FpgaMgrStates,
              lock : MgrUsers \cup {NoUser}, refs : SUBSET MgrUsers]
  /\ load.pc \in {"none", "fw", "buf", "prepare_sg", "parse_mapped", "parse_sg", "write_init", "write", "write_complete"}
  /\ load.hdr \in Nat /\ load.data \in Nat /\ load.pos \in Nat /\ load.sent \in Nat

LoadDone == load.pc = "none" /\ load.ret = "ok"
LoadFrom == IF mgr.ops.skip THEN load.hdr ELSE 0
LoadRest == Total(load.image) - LoadFrom
\* A load that succeeded gave the driver the declared data, or all that follows
\* the skipped header, whatever the cuts between fragments and the path taken
\* through fpga_mgr_buf_load_sg or fpga_mgr_buf_load_mapped.
MgrDataSent ==
  LoadDone /\ ~mgr.ops.sg
    => load.sent = IF load.data > 0 /\ load.data <= LoadRest THEN load.data ELSE LoadRest

\* The driver's write_init sees the whole header it asked for.
MgrSeesHeader == load.pc = "write_init" /\ mgr.ops.hdr > 0 => load.seen >= load.hdr

\* The state shown to user space is operating only if the last load that touched
\* the device went to its end, across failed and repeated loads.
MgrOperatingTrue == load.pc = "none" /\ mgr.state = "operating" => ~load.dirty

\* A load runs only for the user that holds the lock and a reference, so the
\* driver stays and no other load interferes.
MgrLoadExclusive ==
  load.pc # "none" => /\ mgr.lock = load.user /\ load.user \in mgr.refs
                      /\ mgr.reg

\* Taken together: a load is exclusive, hands over what it should, and the state
\* shown afterwards is true.
MgrLoadTrue == MgrTypeOK /\ MgrDataSent /\ MgrSeesHeader /\ MgrOperatingTrue /\ MgrLoadExclusive
=============================================================================
