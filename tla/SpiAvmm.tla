------------------------------- MODULE SpiAvmm -------------------------------
(***************************************************************************)
(* Register access over SPI: a request is put into a packet, escaped,      *)
(* padded to whole words and sent; the answer comes in words between idle  *)
(* bytes and is parsed byte by byte.  Bytes have their real values; the    *)
(* slave's bridge (external) answers when it likes, or never.              *)
(***************************************************************************)
EXTENDS Integers, Sequences, FiniteSets, SequencesExt

CONSTANTS
  AvAddrs,    \* register addresses the host asks for, as four bytes
  AvVals,     \* values written, as four bytes
  AvNext,     \* address -> the address behind it
  MaxIdle     \* bound: idle bytes the slave puts into an answer

SOP == 122
EOP == 123
CHANNEL == 124
PKT_ESC == 125
IDLE == 74
PHY_ESC == 77
TRANS_CODE_WRITE == 0
TRANS_CODE_READ == 16
TRANS_CODE_SEQ_READ == 20
TRANS_TX_MAX == 12
PHY_TX_MAX == ((2 * TRANS_TX_MAX + 4 + 3) \div 4) * 4
TRANS_BUF_SIZE == 1024

VARIABLES
  av,    \* the bridge: request, bytes still to send, parser, timeout, result
  slv    \* the slave: bytes taken, answer, registers, and what it last did

avmm_vars == <<av, slv>>

RxStart == [tb |-> <<>>, sop |-> FALSE, eop |-> FALSE, chan |-> FALSE, esc |-> FALSE, valid |-> FALSE, res |-> "none"]
NoOp == [read |-> TRUE, addr |-> <<>>, n |-> 0, val |-> <<>>]
AvmmInit ==
  /\ av = [pc |-> "setup", word |-> 0, op |-> NoOp, phy |-> <<>>, rx |-> RxStart, last_try |-> FALSE, expired |-> FALSE,
           idleAfter |-> FALSE, res |-> "none", val |-> <<>>, fault |-> FALSE]
  /\ slv = [raw |-> <<>>, stale |-> FALSE, out |-> <<>>, hold |-> FALSE, idle |-> 0, mem |-> [a \in AvAddrs |-> <<0, 0, 0, 0>>], ran |-> 0, did |-> <<>>]

\* 32 bits per word first, then 8.
spi_avmm_bridge_ctx_gen ==
  /\ av.pc = "setup"
  /\ \E w \in {1, 4} : av' = [av EXCEPT !.pc = "idle", !.word = w]
  /\ UNCHANGED slv

-----------------------------------------------------------------------------
(* From request to bytes.                                                  *)

Xor20(b) == IF (b \div 32) % 2 = 1 THEN b - 32 ELSE b + 32
Escape(b) ==
  IF b \in {SOP, EOP, CHANNEL, PKT_ESC} THEN <<PKT_ESC, Xor20(b)>>
  ELSE IF b \in {IDLE, PHY_ESC} THEN <<PHY_ESC, Xor20(b)>> ELSE <<b>>
EscapeAll(s) == FlattenSeq([k \in DOMAIN s |-> Escape(s[k])])

\* Code, a reserved byte, the size, the address, and the data of a write.
br_trans_tx_prepare(op) ==
  <<IF ~op.read THEN TRANS_CODE_WRITE ELSE IF op.n = 1 THEN TRANS_CODE_READ ELSE TRANS_CODE_SEQ_READ, 0, 0, 4 * op.n>>
  \o op.addr \o (IF op.read THEN <<>> ELSE op.val)

\* Fault: idle bytes are put at the end.
PadTo_Tail(head, tail, w) ==
  LET n == Len(head) + Len(tail) IN head \o tail \o [k \in 1..((w - (n % w)) % w) |-> IDLE]
\* Idle bytes go before the end of the packet, so that the slave has no packet
\* before the last byte was sent.
PadTo(head, tail, w) ==
  LET n == Len(head) + Len(tail) IN head \o [k \in 1..((w - (n % w)) % w) |-> IDLE] \o tail

\* EOP stands before the last byte of the request.
br_pkt_phy_tx_prepare(t, w) ==
  PadTo(<<SOP, CHANNEL, 0>> \o EscapeAll(SubSeq(t, 1, Len(t) - 1)), <<EOP>> \o Escape(t[Len(t)]), w)

\* A word is swapped, and the host sends its last byte first.
br_swap_words_32(wd) == Reverse(wd)
altera_spi_tx_word(wd) == Reverse(wd)
altera_spi_rx_word(wd) == Reverse(wd)
OnWire(wd) == IF Len(wd) = 4 THEN altera_spi_tx_word(br_swap_words_32(wd)) ELSE wd
OffWire(wd) == IF Len(wd) = 4 THEN br_swap_words_32(altera_spi_rx_word(wd)) ELSE wd

\* A read or write of the register map starts: buffers are invalidated first.
do_reg_access ==
  /\ av.pc = "idle"
  /\ \E op \in [read : {TRUE}, addr : AvAddrs, n : {1, 2}, val : {<<>>}] \cup [read : {FALSE}, addr : AvAddrs, n : {1}, val : AvVals] :
       LET phy == br_pkt_phy_tx_prepare(br_trans_tx_prepare(op), av.word) IN
       av' = [av EXCEPT !.pc = IF Len(phy) > PHY_TX_MAX THEN "idle" ELSE "tx", !.op = op, !.phy = phy, !.rx = RxStart,
                        !.last_try = FALSE, !.expired = FALSE, !.idleAfter = FALSE, !.val = <<>>,
                        !.fault = FALSE,
                        !.res = IF Len(phy) > PHY_TX_MAX THEN "nomem" ELSE "none"]
  /\ slv' = [slv EXCEPT !.ran = 0]

-----------------------------------------------------------------------------
(* The slave (external).                                                   *)

\* The packet is complete with the byte, or the escaped byte, behind EOP.
Packed(raw) ==
  LET n == Len(raw) IN
  \/ n >= 2 /\ raw[n - 1] = EOP /\ raw[n] \notin {PKT_ESC, PHY_ESC}
  \/ n >= 3 /\ raw[n - 2] = EOP /\ raw[n - 1] \in {PKT_ESC, PHY_ESC}
Unescape(s) ==
  FoldLeft(LAMBDA a, b : IF a.esc THEN [out |-> Append(a.out, Xor20(b)), esc |-> FALSE]
                         ELSE IF b \in {PKT_ESC, PHY_ESC} THEN [a EXCEPT !.esc = TRUE]
                         ELSE IF b \in {SOP, EOP} THEN a ELSE [a EXCEPT !.out = Append(@, b)],
           [out |-> <<>>, esc |-> FALSE], s).out
SlavePacket(t) == <<SOP, CHANNEL, 0>> \o EscapeAll(SubSeq(t, 1, Len(t) - 1)) \o <<EOP>> \o Escape(t[Len(t)])

\* One byte comes in and one goes out; a complete request is carried out.
SlaveByte(s, b) ==
  LET raw == IF b = SOP THEN <<b>> ELSE IF b = IDLE THEN s.raw ELSE Append(s.raw, b)
      t == Unescape(SubSeq(raw, 4, Len(raw)))
      addr == SubSeq(t, 5, 8)
      data == IF t[1] = TRANS_CODE_READ THEN s.mem[addr]
              ELSE IF t[1] = TRANS_CODE_SEQ_READ THEN s.mem[addr] \o s.mem[AvNext[addr]] ELSE <<>>
      sent == [s EXCEPT !.out = IF @ = <<>> \/ s.hold THEN @ ELSE Tail(@)]
  IN  IF b # IDLE /\ Packed(raw)
      THEN [sent EXCEPT !.raw = <<>>, !.stale = sent.out # <<>>, !.ran = @ + 1, !.idle = 0, !.did = data,
                        !.mem = IF t[1] = TRANS_CODE_WRITE THEN [@ EXCEPT ![addr] = SubSeq(t, 9, 12)] ELSE @,
                        !.out = @ \o SlavePacket(IF t[1] = TRANS_CODE_WRITE THEN <<128, 0, 0, 4>> ELSE data)]
      ELSE [sent EXCEPT !.raw = raw]

\* The words the slave may send next: its answer, idle bytes at will.
RECURSIVE SlaveWords(_, _)
SlaveWords(s, n) ==
  IF n = 0 THEN {<<<<>>, s>>}
  ELSE (IF s.out = <<>> \/ s.idle < MaxIdle
        THEN {<<<<IDLE>> \o r[1], r[2]>> : r \in SlaveWords([s EXCEPT !.idle = IF s.out = <<>> THEN @ ELSE @ + 1], n - 1)} ELSE {})
       \cup (IF s.out # <<>> THEN {<<<<s.out[1]>> \o r[1], r[2]>> : r \in SlaveWords([s EXCEPT !.out = Tail(@)], n - 1)} ELSE {})

\* The slave never answers.
SlaveFails ==
  /\ av.pc = "rx" /\ slv.out # <<>> /\ slv.idle = 0 /\ ~av.rx.sop /\ ~av.fault
  /\ slv' = [slv EXCEPT !.out = <<>>] /\ av' = [av EXCEPT !.fault = TRUE]

-----------------------------------------------------------------------------
(* Transfer.                                                               *)

\* A word goes out and one comes in.
altera_spi_txrx(s, w) == FoldLeft(SlaveByte, s, w)
\* Then the next one, until the transfer is over.
altera_spi_irq(a) ==
  LET rest == SubSeq(a.phy, a.word + 1, Len(a.phy)) IN [a EXCEPT !.phy = rest, !.pc = IF rest = <<>> THEN "rx" ELSE "tx"]

\* The next word is sent; what comes back meanwhile is dropped.  A slave that
\* still owes the answer of an access that was given up may hold it back.
br_do_tx ==
  /\ av.pc = "tx"
  /\ \E hold \in {FALSE, slv.out # <<>>} :
       /\ slv' = [altera_spi_txrx([slv EXCEPT !.hold = hold], OnWire(SubSeq(av.phy, 1, av.word))) EXCEPT !.hold = FALSE]
       /\ av' = altera_spi_irq(av)

\* The transfer itself fails.
spi_fails ==
  /\ av.pc \in {"tx", "rx"}
  /\ av' = [av EXCEPT !.pc = "idle", !.res = "error", !.fault = TRUE]
  /\ UNCHANGED slv

br_unescape(esc, b) == IF esc THEN Xor20(b) ELSE b

\* The parser takes byte b.
br_pkt_phy_parse(p, b) ==
  IF p.res # "none" \/ (~p.sop /\ b # SOP) \/ b = IDLE THEN p
  ELSE LET v == [p EXCEPT !.valid = TRUE]
           x == [v EXCEPT !.tb = Append(@, br_unescape(v.esc, b)), !.esc = FALSE]
       IN  CASE v.chan -> IF b # 0 THEN [v EXCEPT !.res = "error"] ELSE [v EXCEPT !.chan = FALSE]
             [] ~v.chan /\ b = SOP -> [RxStart EXCEPT !.sop = TRUE, !.valid = TRUE]
             [] ~v.chan /\ b = EOP -> IF v.esc \/ v.eop THEN [v EXCEPT !.res = "error"] ELSE [v EXCEPT !.eop = TRUE]
             [] ~v.chan /\ b = CHANNEL -> IF v.esc \/ v.eop THEN [v EXCEPT !.res = "error"] ELSE [v EXCEPT !.chan = TRUE]
             [] ~v.chan /\ b \in {PKT_ESC, PHY_ESC} -> IF v.esc THEN [v EXCEPT !.res = "error"] ELSE [v EXCEPT !.esc = TRUE]
             [] OTHER -> IF v.eop THEN [x EXCEPT !.res = "done"] ELSE x

\* Registers of a read come as they are, a write is confirmed by a header.
br_rd_trans_rx_parse(t, op) == Len(t) = 4 * op.n
br_wr_trans_rx_parse(t, op) == Len(t) = 4 /\ t[4] = 4 * op.n /\ t[1] = 128 + TRANS_CODE_WRITE

\* A word without anything in it: once the deadline has passed, one more word is
\* read before the host gives up.
rx_idle_word(a, late) ==
  IF a.last_try THEN [a EXCEPT !.pc = "idle", !.res = "timeout"] ELSE [a EXCEPT !.last_try = late]

\* A word is read and parsed; the deadline may pass before it is looked at.
br_do_rx_and_pkt_phy_parse ==
  /\ av.pc = "rx"
  /\ \E r \in SlaveWords(slv, av.word), late \in {av.expired, TRUE} :
       LET p == FoldLeft(br_pkt_phy_parse, [av.rx EXCEPT !.valid = FALSE], OffWire(r[1]))
           ok == IF av.op.read THEN br_rd_trans_rx_parse(p.tb, av.op) ELSE br_wr_trans_rx_parse(p.tb, av.op)
           idle == [av EXCEPT !.rx = p, !.expired = late, !.idleAfter = av.expired]
       IN  /\ slv' = r[2]
           /\ av' = CASE p.res = "done" -> [av EXCEPT !.pc = "idle", !.rx = p, !.res = IF ok THEN "ok" ELSE "error", !.val = p.tb]
                      [] p.res = "error" -> [av EXCEPT !.pc = "idle", !.rx = p, !.res = "error"]
                      [] p.res = "none" /\ Len(p.tb) >= TRANS_BUF_SIZE -> [av EXCEPT !.pc = "idle", !.rx = p, !.res = "error"]
                      [] p.res = "none" /\ p.valid /\ Len(p.tb) < TRANS_BUF_SIZE -> [av EXCEPT !.rx = p, !.last_try = FALSE, !.expired = FALSE]
                      [] OTHER -> rx_idle_word(idle, late)

AvmmNext ==
  \/ spi_avmm_bridge_ctx_gen \/ do_reg_access \/ br_do_tx \/ br_do_rx_and_pkt_phy_parse \/ spi_fails \/ SlaveFails

AvmmSpec == AvmmInit /\ [][AvmmNext]_avmm_vars

-----------------------------------------------------------------------------
(* Properties.                                                             *)

\* A register access that succeeds was carried out by the slave exactly once, and
\* what a read returns is what the registers held, whatever bytes the address and
\* the values are made of.  (An answer that the slave kept back over a whole new
\* request cannot be told from the answer to it.)
AvmmTrue ==
  av.pc = "idle" /\ av.res = "ok" /\ ~slv.stale =>
    /\ slv.ran = 1
    /\ IF av.op.read THEN av.val = slv.did ELSE slv.mem[av.op.addr] = av.op.val

\* An access fails only when the slave or the bus did: no byte of an answer is
\* lost while the request is being sent, and no request is too long to send.  (A
\* slave that has not begun to answer when the deadline passes has failed.)
AvmmAnswered ==
  av.pc = "idle" /\ av.res \in {"error", "timeout", "nomem"} =>
    av.fault \/ slv.stale \/ (av.res = "timeout" /\ slv.out # <<>>)

\* The host gives up only after an idle word it read when the deadline had
\* already passed, so being scheduled out does not fail an access.
AvmmLastTry == av.res = "timeout" => av.idleAfter

\* Taken together: an access does what it says, and fails only if the slave did.
AvmmAccessTrue == AvmmTrue /\ AvmmAnswered /\ AvmmLastTry
=============================================================================
