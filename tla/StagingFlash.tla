---------------------------- MODULE StagingFlash ----------------------------
(***************************************************************************)
(* The bytes of an image on their way into the staging area, through the   *)
(* registers of an N3000 or the FIFO of an N6000 board, and of a flash     *)
(* read on their way back.  Byte k of an image is the number k, and byte a *)
(* of the flash that is read is the number a.                              *)
(***************************************************************************)
EXTENDS Integers, Sequences, SequencesExt

CONSTANTS
  StWord,      \* bytes of a word, and register stride
  StBlock,     \* WRITE_BLOCK_SIZE, a multiple of it
  StFifo,      \* M10BMC_N6000_FIFO_MAX_WORDS
  StReadBlock, \* M10BMC_N6000_READ_BLOCK_SIZE, a multiple of StWord
  StSizes      \* sizes of images and reads

ASSUME StagingAssumption ==
  /\ StWord \in Nat \ {0} /\ StFifo \in Nat \ {0} /\ StSizes \subseteq Nat
  /\ StBlock \in Nat /\ StBlock % StWord = 0 /\ StReadBlock \in Nat /\ StReadBlock % StWord = 0

VARIABLE
  sf    \* one transfer: what it is, how far it came, and what it left

staging_vars == <<sf>>

Bytes(n) == [k \in 1..n |-> k]
Slice(b, o, n) == SubSeq(b, o + 1, o + n)
Least(a, b) == IF a < b THEN a ELSE b
Word0(b) == b \o [k \in 1..(StWord - Len(b)) |-> 0]

StagingInit ==
  \E kind \in {"n3000", "n6000", "read"}, n \in StSizes :
    sf = [kind |-> kind, n |-> n, pc |-> IF kind = "read" THEN "read" ELSE "next", offset |-> 0, size |-> n, at |-> 0,
          fifo |-> 0, flash |-> <<>>, rdMode |-> FALSE, words |-> <<>>, res |-> "none"]

-----------------------------------------------------------------------------
(* Writing.  offset is the part of the image that was written, size what   *)
(* is left of the image or, inside of a bulk write, of the block, and at    *)
(* the offset in the block.                                                *)

\* The next block of the image.
m10bmc_sec_fw_write ==
  /\ sf.pc = "next"
  /\ sf' = IF sf.offset = sf.n THEN [sf EXCEPT !.pc = "end", !.res = "ok"]
           ELSE [sf EXCEPT !.pc = IF sf.kind = "n3000" THEN "regs" ELSE "bulk", !.size = Least(StBlock, sf.n - sf.offset), !.at = 0]

\* Fault: every block is taken from the start of the image.
BlockWords_Start(b, offset, size) == Slice(b, 0, size - (size % StWord))
\* The whole words of the block at offset.
BlockWords(b, offset, size) == Slice(b, offset, size - (size % StWord))
\* What is left is looked for in the block's first bytes behind the start of the image.
Leftover(b, size) == IF size % StWord = 0 THEN <<>> ELSE Word0(Slice(b, size - (size % StWord), size % StWord))

\* Whole words, then the rest, through registers.
m10bmc_sec_write ==
  /\ sf.pc = "regs"
  /\ sf' = [sf EXCEPT !.flash = @ \o BlockWords(Bytes(sf.n), sf.offset, sf.size) \o Leftover(Bytes(sf.n), sf.size),
                      !.offset = @ + sf.size, !.pc = "next"]
regmap_fails ==
  /\ sf.pc = "regs"
  /\ \E left \in BOOLEAN :
       sf' = [sf EXCEPT !.pc = "end", !.res = "error",
                        !.flash = @ \o (IF left THEN BlockWords(Bytes(sf.n), sf.offset, sf.size) ELSE <<>>)]

\* The space is that of an empty FIFO, or 0 when it did not become empty in time.
pmci_get_write_space(fifo) == IF fifo = 0 THEN {StFifo * StWord} ELSE {0}

\* One turn of the loop: the words of a part of the block go into the FIFO.
pmci_flash_bulk_write ==
  /\ sf.pc = "bulk" /\ sf.size > 0
  /\ \E space \in pmci_get_write_space(sf.fifo) :
       LET blk == Least(space, sf.size)
           count == blk \div StWord
       IN  sf' = IF blk = 0 THEN [sf EXCEPT !.pc = "end", !.res = "error"]
                 ELSE IF sf.size < StWord THEN [sf EXCEPT !.pc = "rest"]
                 ELSE [sf EXCEPT !.flash = @ \o Slice(Bytes(sf.n), sf.offset + sf.at, count * StWord),
                                 !.fifo = @ + count, !.size = @ - blk, !.at = @ + blk]
\* Less than a word is left.
pmci_write_remainder ==
  /\ sf.pc = "rest"
  /\ sf' = [sf EXCEPT !.flash = @ \o Word0(Slice(Bytes(sf.n), sf.offset + sf.at, sf.size)), !.fifo = @ + 1,
                      !.at = @ + sf.size, !.size = 0, !.pc = "bulk"]
pmci_write_returns ==
  /\ sf.pc = "bulk" /\ sf.size = 0
  /\ sf' = [sf EXCEPT !.offset = @ + sf.at, !.pc = "next"]
\* The BMC takes words out of the FIFO.
FifoDrains == sf.fifo > 0 /\ sf.pc # "end" /\ sf' = [sf EXCEPT !.fifo = @ - 1]

-----------------------------------------------------------------------------
(* Reading the flash from byte 0.  words is what the FIFO offers.          *)

FlashAddr(addr, offset) == addr + offset

\* A block is asked for: whole words that hold it.
pmci_flash_bulk_read ==
  /\ sf.pc = "read"
  /\ IF sf.size = 0 THEN sf' = [sf EXCEPT !.pc = "end", !.res = "ok"]
     ELSE LET blk == Least(sf.size, StReadBlock)
              count == (blk + StWord - 1) \div StWord
          IN  sf' = [sf EXCEPT !.pc = "poll", !.rdMode = TRUE,
                               !.words = [k \in 1..(count * StWord) |-> FlashAddr(0, sf.at) + k]]
\* The flash is no longer busy: the whole words of the block are read.
pmci_read_fifo ==
  /\ sf.pc = "poll"
  /\ LET blk == Least(sf.size, StReadBlock)
         full == (blk \div StWord) * StWord
         left == SubSeq(sf.words, full + 1, Len(sf.words))
         nxt == [sf EXCEPT !.flash = @ \o Slice(sf.words, 0, full), !.words = left, !.size = @ - blk, !.at = @ + blk]
     IN  sf' = IF left = <<>> THEN [nxt EXCEPT !.pc = "read", !.rdMode = FALSE] ELSE [nxt EXCEPT !.pc = "readrest"]
\* A rest that the loop left over would be read here; the loop leaves none.
pmci_read_remainder ==
  /\ sf.pc = "readrest"
  /\ sf' = IF sf.size = 0 THEN [sf EXCEPT !.pc = "end", !.res = "ok"]
           ELSE [sf EXCEPT !.flash = @ \o Slice(sf.words, 0, sf.size), !.rdMode = FALSE, !.pc = "end", !.res = "ok"]
pmci_read_timeout == sf.pc = "poll" /\ sf' = [sf EXCEPT !.pc = "end", !.res = "error"]

StagingNext ==
  \/ m10bmc_sec_fw_write \/ m10bmc_sec_write \/ regmap_fails \/ pmci_flash_bulk_write \/ pmci_write_remainder
  \/ pmci_write_returns \/ FifoDrains \/ pmci_flash_bulk_read \/ pmci_read_fifo \/ pmci_read_remainder \/ pmci_read_timeout

StagingSpec == StagingInit /\ [][StagingNext]_staging_vars

-----------------------------------------------------------------------------
(* Properties.                                                             *)

\* An update whose every block was written without an error has put the whole
\* image, its bytes in order, into the staging area: for images of whole words.
StagingAligned ==
  sf.kind # "read" /\ sf.res = "ok" /\ sf.n % StWord = 0 => sf.flash = Bytes(sf.n)

\* The same for images of every size, but for padding behind the last byte.
StagingWhole ==
  sf.kind # "read" /\ sf.res = "ok" => IsPrefix(Bytes(sf.n), sf.flash)

\* No more words are put into the FIFO than it has room for.
StagingNoOverrun == sf.fifo <= StFifo

\* A flash read of whole words that succeeds returns the bytes from the address on, and
\* leaves the controller out of read mode.
StagingReadTrue ==
  sf.kind = "read" /\ sf.res = "ok" /\ sf.n % StWord = 0 => sf.flash = Bytes(sf.n) /\ ~sf.rdMode

\* Taken together: transfers of whole words arrive whole, in order and without
\* overrunning the FIFO, in either direction.
StagingTransferTrue == StagingAligned /\ StagingNoOverrun /\ StagingReadTrue
=============================================================================
