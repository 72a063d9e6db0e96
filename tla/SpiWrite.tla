------------------------------ MODULE SpiWrite ------------------------------
(***************************************************************************)
(* A register write over SPI, down to the bits: lcdreg_write_buf32 and     *)
(* lcdreg_write of src/core/lcdreg.c, src/core/lcdreg-spi.c.               *)
(*                                                                         *)
(* A write is a command (the register number) and its data, each of which  *)
(* becomes one or more transfers:                                          *)
(*                                                                         *)
(*   - words of a size the master supports go out as they are in memory;   *)
(*     16 and 24 bits are else cut into bytes, high byte first, in chunks  *)
(*     of a buffer of one page;                                            *)
(*   - in 3-wire mode each byte becomes a word of 9 bits that says whether *)
(*     it is data; eight of those are packed into nine bytes if the master *)
(*     has no words of 9 bits, padded with no-ops for data of 8 bits;      *)
(*   - a transfer goes out in messages of at most 4 entries, a page each;  *)
(*     with a start byte every message begins with it.                     *)
(*                                                                         *)
(* The chip is modelled as it sees the bus: the bits of each message, its  *)
(* D/C line, its chip select.  A page has P bytes.                         *)
(***************************************************************************)
EXTENDS Integers, Sequences, FiniteSetsExt, SequencesExt

CONSTANTS Setups,     \* the interfaces of the instance, see SetupAssumption
          Calls,      \* the writes of the instance, see CallAssumption
          P,          \* PAGE_SIZE, which is also txbuflen
          DmaMin,     \* a transfer of more bytes uses DMA (128 in the code)
          Behind,     \* the u16 found behind the data in the buffer of 9-bit words
          MayFail,    \* whether a message or an allocation may fail
          None

Modes == {"4wire", "3wire", "startbyte"}
Sizes == {8, 9, 16, 24}

ASSUME SetupAssumption ==
  \A s \in Setups : /\ s.mode \in Modes             \* config->mode
                    /\ s.param \subseteq Sizes      \* module_param bits_per_word_mask
                    /\ s.master \subseteq Sizes     \* master->bits_per_word_mask
                    /\ s.defWidth \in {8, 16}       \* reg->def_width
                    /\ s.fetches \in BOOLEAN        \* DMA, and the master uses tx_dma

\* "write_buf32" is given u32 values, "write" an array of words of `width` at offset
\* `off` of a page, in memory of vmalloc if off is not None.
ASSUME CallAssumption ==
  \A c \in Calls : /\ c.op \in {"write_buf32", "write"}
                   /\ c.regnr \in 1 .. 255
                   /\ c.width \in {0, 8, 16, 24}
                   /\ c.data \in Seq(Nat)
                   /\ c.off \in {None} \cup (0 .. P - 1)

ASSUME PageAssumption == /\ P \in Nat /\ P >= 16 /\ P % 16 = 0
                         /\ DmaMin \in Nat /\ Behind \in 0 .. 511 /\ MayFail \in BOOLEAN

ASSUME NoneAssumption == None \notin Nat   \* no offset, no start byte

-----------------------------------------------------------------------------
(* Words.                                                                     *)
BytesPerWord(width) == IF width <= 8 THEN 1 ELSE IF width <= 16 THEN 2 ELSE 4
Hi(w) == (w \div 256) % 256
Lo(w) == w % 256
Ceil(n, d) == (n + d - 1) \div d
Least(a, b) == IF a < b THEN a ELSE b

\* A width of 0 is the default.
Width(s, c) == IF c.op = "write_buf32" \/ c.width = 0 THEN s.defWidth ELSE c.width

\* An array of u8, of u16, or of u32 with 24 bits each.
ASSUME DataAssumption ==
  \A s \in Setups, c \in Calls :
    c.op = "write" => \A i \in DOMAIN c.data : c.data[i] < 2 ^ Width(s, c)

\* Mutation: lcdreg_write_buf32 hands its u32 values on as they are.
WordsWhole(s, c) == c.data

\* The words of a write: lcdreg_write_buf32 truncates to u8 or u16.
Words(s, c) == [i \in DOMAIN c.data |->
                  IF c.op = "write" THEN c.data[i] ELSE c.data[i] % (2 ^ s.defWidth)]
Offset(c) == IF c.op = "write" THEN c.off ELSE None

\* What devm_lcdreg_spi_init takes for the words of the master.  With the module
\* parameter set, the mask of the device stays 0.
Supported(s) == IF s.param # {} THEN {} ELSE IF s.master # {} THEN s.master ELSE {8}

\* words in chunks of at most n
Chunked(words, n) ==
  [k \in 1 .. Ceil(Len(words), n) |-> SubSeq(words, (k - 1) * n + 1, Least(k * n, Len(words)))]

\* A transfer out of the caller's memory, or out of a conversion buffer.
Direct(index, width, words, off) ==
  [index |-> index, width |-> width, words |-> words, off |-> off, converted |-> FALSE]
Converted(index, width, words) ==
  [index |-> index, width |-> width, words |-> words, off |-> None, converted |-> TRUE]

Bit(w, k) == (w \div 2 ^ k) % 2 = 1

\* The bits that are set of the u64, which takes the words from its highest bit on: of
\* each its D/C bit, then its byte, and of the eighth the D/C bit only.
Tmp(w) == {b \in 0 .. 63 : Bit(w[(63 - b) \div 9 + 1], 8 - ((63 - b) % 9))}

\* Mutation: the D/C bit of a word is put behind its byte.
TmpBehind(w) == {b \in 0 .. 63 : Bit(w[(63 - b) \div 9 + 1], (16 - ((63 - b) % 9)) % 9)}

\* Byte i of it, the highest first.
TmpByte(tmp, i) ==
  MapThenSumSet(LAMBDA b : 2 ^ b, {b \in 0 .. 7 : 64 - 8 * i + b \in tmp})

Pack8Behind(w) == [i \in 1 .. 8 |-> TmpByte(TmpBehind(w), i)] \o <<Lo(w[8])>>

\* Eight words of 9 bits as nine bytes: that u64, and the last word without its D/C bit.
Pack8(w) == [i \in 1 .. 8 |-> TmpByte(Tmp(w), i)] \o <<Lo(w[8])>>

-----------------------------------------------------------------------------
(* The transfers of one half of a write, [todo |-> transfers, ok |-> TRUE] or *)
(* with ok FALSE where it is refused after them.                              *)
Does(todo) == [todo |-> todo, ok |-> TRUE]
Refuses == [todo |-> <<>>, ok |-> FALSE]

\* Mutation: the buffer is taken for one of so many words.
TxArrayBytes(width) == P

\* How many words fit the conversion buffer.
TxArray(width) == IF width = 16 THEN P \div 2 ELSE P \div 4

AsBytes(width, words) ==
  FlattenSeq([i \in DOMAIN words |->
    IF width = 16 THEN <<Hi(words[i]), Lo(words[i])>>
                  ELSE <<(words[i] \div 65536) % 256, Hi(words[i]), Lo(words[i])>>])

\* lcdreg_spi_write_one
WriteOne(s, index, width, words, off) ==
  IF width \in Supported(s)
    THEN Does(<<IF width = 9 THEN Converted(index, 9, words)
                             ELSE Direct(index, width, words, off)>>)
  ELSE IF width = 9 /\ Len(words) % 8 = 0
    THEN LET eights == Chunked(words, 8)
         IN  Does(<<Converted(index, 8, FlattenSeq([k \in DOMAIN eights |-> Pack8(eights[k])]))>>)
  ELSE IF width \in {16, 24}
    THEN LET chunks == Chunked(words, TxArray(width))
         IN  Does([k \in DOMAIN chunks |-> Converted(index, 8, AsBytes(width, chunks[k]))])
  ELSE Refuses

NineBit(index, byte) == IF index = 1 THEN 256 + byte ELSE byte

\* No-ops before a command, or behind data, up to a multiple of 8.
Padded(index, bytes) ==
  LET pad == [i \in 1 .. (8 - (Len(bytes) % 8)) % 8 |-> 0]
      nine == [i \in DOMAIN bytes |-> NineBit(index, bytes[i])]
  IN  IF index = 0 THEN pad \o nine ELSE nine \o pad

\* Mutation: short data are not padded.
IsPaddedNot(s, width, words) == FALSE

\* "If we're emulating 9-bit": the parameter is asked, not the mask of the device.
IsPadded(s, width, words) == 9 \notin s.param /\ width = 8 /\ Len(words) < P \div 2

\* A chunk of the loop.  The count is twice the words also for words of 8 bits: then as
\* many are sent again from behind them, of whatever is there.
NineBitChunk(index, width, words) ==
  IF width = 16 THEN [i \in 1 .. 2 * Len(words) |->
                        NineBit(index, AsBytes(16, words)[i])]
  ELSE [i \in 1 .. 2 * Len(words) |->
          IF i <= Len(words) THEN NineBit(index, words[i]) ELSE Behind]

\* lcdreg_spi_write_9bit_dc: chunks are sent until one is refused.
Write9bitDc(s, index, width, words) ==
  IF width \notin {8, 16} THEN Refuses
  ELSE IF IsPadded(s, width, words) THEN WriteOne(s, index, 9, Padded(index, words), None)
  ELSE
    LET chunks == Chunked(words, IF width = 8 THEN P \div 2 ELSE P \div 4)
        one(k) == WriteOne(s, index, 9, NineBitChunk(index, width, chunks[k]), None)
        before(k) == \A i \in 1 .. k : one(i).ok
        sent == Cardinality({k \in DOMAIN chunks : before(k)})
    IN  [todo |-> FlattenSeq([k \in 1 .. sent |-> one(k).todo]), ok |-> sent = Len(chunks)]

WriteHalf(s, index, width, words, off) ==
  IF s.mode = "3wire" THEN Write9bitDc(s, index, width, words)
                      ELSE WriteOne(s, index, width, words, off)

\* lcdreg_spi_write: a u8 or a u16 for the register number, then the data.
Command(s, c) == WriteHalf(s, 0, s.defWidth, <<c.regnr>>, None)
Data(s, c) == WriteHalf(s, 1, Width(s, c), Words(s, c), Offset(c))

-----------------------------------------------------------------------------
VARIABLES
  setup,     \* the interface
  call,      \* the write that is under way
  pc,        \* "idle", "command", "data" or "end"
  todo,      \* the transfers that are left of this half
  piece,     \* how many pages of the first of them are sent
  refused,   \* lcdreg_spi_write_one or its callers end this half with -EINVAL
  startbuf,  \* spi->startbuf: "none", or how it was allocated: "kmalloc" or "dma"
  dc,        \* the D/C line
  wire,      \* what the chip got: messages of [dc, start, width, words]
  rc         \* what the write returns

vars == <<setup, call, pc, todo, piece, refused, startbuf, dc, wire, rc>>

TypeOK ==
  /\ setup \in Setups /\ call \in Calls
  /\ pc \in {"idle", "command", "data", "end"}
  /\ \A i \in DOMAIN todo : /\ todo[i].index \in {0, 1} /\ todo[i].width \in Sizes
                            /\ todo[i].words \in Seq(0 .. 2 ^ todo[i].width - 1)
                            /\ todo[i].off \in {None} \cup (0 .. P - 1)
  /\ piece \in Nat /\ refused \in BOOLEAN
  /\ startbuf \in {"none", "kmalloc", "dma"}
  /\ dc \in {0, 1}
  /\ \A i \in DOMAIN wire : wire[i].start \in {0, 112, 114, None}
  /\ rc \in {"ok", "EINVAL", "EIO", "ENOMEM"}

Init ==
  /\ setup \in Setups /\ call \in Calls
  /\ pc = "idle" /\ todo = <<>> /\ piece = 0 /\ refused = FALSE
  /\ startbuf = "none" /\ dc = 0 /\ wire = <<>> /\ rc = "ok"

SetDc(index) == dc' = IF setup.mode = "4wire" THEN index ELSE dc

Begin(half, index) ==
  /\ todo' = half.todo /\ refused' = ~half.ok /\ piece' = 0
  /\ SetDc(index)

BeginWrite(c) ==
  /\ pc = "idle" /\ pc' = "command"
  /\ call' = c
  /\ Begin(Command(setup, c), 0)
  /\ UNCHANGED <<setup, startbuf, wire, rc>>

BeginData ==
  /\ pc = "command" /\ todo = <<>> /\ ~refused /\ call.data # <<>>
  /\ pc' = "data"
  /\ Begin(Data(setup, call), 1)
  /\ UNCHANGED <<setup, call, startbuf, wire, rc>>

EndWrite ==
  /\ pc \in {"command", "data"} /\ todo = <<>>
  /\ pc = "command" /\ ~refused => call.data = <<>>
  /\ pc' = "end"
  /\ rc' = IF refused THEN "EINVAL" ELSE rc
  /\ UNCHANGED <<setup, call, todo, piece, refused, startbuf, dc, wire>>

Return ==
  /\ pc = "end" /\ pc' = "idle"
  /\ wire' = <<>> /\ rc' = "ok" /\ refused' = FALSE
  /\ UNCHANGED <<setup, call, todo, piece, startbuf, dc>>

-----------------------------------------------------------------------------
(* lcdreg_spi_transfer.                                                       *)
tr == Head(todo)
Length == Len(tr.words) * BytesPerWord(tr.width)
DoDma == tr.index = 1 /\ Length > DmaMin
Shift == IF tr.off = None THEN 0 ELSE tr.off
Pieces == Ceil(Length + Shift, P)

\* The bytes of the first k pages: all are whole but the first of a buffer that is
\* not on a page boundary, and the last.
Cut(k) == IF k = 0 THEN 0 ELSE Least(Length, k * P - Shift)

StartEntries == IF setup.mode = "startbyte" THEN 1 ELSE 0

\* while (len && i < 4)
MessagePieces == Least(Pieces - piece, 4 - StartEntries)

\* The start byte as the chip gets it.  A buffer of kmalloc has no address for DMA.
StartByte ==
  IF setup.mode # "startbyte" THEN 0
  ELSE IF DoDma /\ setup.fetches /\ startbuf' # "dma" THEN None
  ELSE 112 + 2 * tr.index

AllocStart ==
  startbuf' = IF setup.mode = "startbyte" /\ startbuf = "none"
              THEN (IF DoDma THEN "dma" ELSE "kmalloc") ELSE startbuf

Sent(last) ==
  LET word(bytes) == bytes \div BytesPerWord(tr.width)
  IN  [dc |-> dc, start |-> StartByte, width |-> tr.width,
       words |-> SubSeq(tr.words, word(Cut(piece)) + 1, word(Cut(last)))]

\* Mutation: the position in the buffer is not moved on.
MessageStays ==
  /\ pc \in {"command", "data"} /\ todo # <<>>
  /\ AllocStart
  /\ LET last == piece + MessagePieces
     IN  /\ wire' = Append(wire, Sent(last))
         /\ IF last < Pieces THEN UNCHANGED <<piece, todo>>
                             ELSE piece' = 0 /\ todo' = Tail(todo)
  /\ UNCHANGED <<setup, call, pc, refused, dc, rc>>

\* The next message of the transfer.
Message ==
  /\ pc \in {"command", "data"} /\ todo # <<>>
  /\ AllocStart
  /\ LET last == piece + MessagePieces
     IN  /\ wire' = Append(wire, Sent(last))
         /\ IF last < Pieces THEN piece' = last /\ todo' = todo
                             ELSE piece' = 0 /\ todo' = Tail(todo)
  /\ UNCHANGED <<setup, call, pc, refused, dc, rc>>

\* No more is sent: an allocation fails (transfers, buffer, start byte); or, after
\* that, a page of the buffer is not found, a page can not be mapped (-EINVAL), or
\* spi_sync returns an error, which may be any.
MessageFails ==
  /\ MayFail
  /\ pc \in {"command", "data"} /\ todo # <<>>
  /\ \/ rc' = "ENOMEM" /\ UNCHANGED startbuf
     \/ rc' \in {"ENOMEM", "EINVAL", "EIO"} /\ AllocStart
  /\ todo' = <<>> /\ piece' = 0 /\ pc' = "end" /\ refused' = FALSE
  /\ UNCHANGED <<setup, call, dc, wire>>

-----------------------------------------------------------------------------
Next ==
  \/ \E c \in Calls : BeginWrite(c)
  \/ BeginData \/ Message \/ MessageFails \/ EndWrite \/ Return

Spec == Init /\ [][Next]_vars

-----------------------------------------------------------------------------
(* The chip, and what it is to get.                                           *)
Bits(width, words) ==
  FlattenSeq([i \in DOMAIN words |->
    [k \in 1 .. width |-> IF Bit(words[i], width - k) THEN 1 ELSE 0]])

Number(bits) ==
  MapThenSumSet(LAMBDA i : bits[i] * 2 ^ (Len(bits) - i), DOMAIN bits)

\* What the chip makes of a message: bytes with their D/C, which is the line's, that of
\* the start byte, or the first of nine bits.  It forgets a byte that ends half way.
Decoded(m) ==
  LET size == IF setup.mode = "3wire" THEN 9 ELSE 8
      bits == Bits(m.width, m.words)
      group(k) == Number(SubSeq(bits, size * (k - 1) + 1, size * k))
      index(k) == CASE setup.mode = "3wire" -> group(k) \div 256
                    [] setup.mode = "4wire" -> m.dc
                    [] OTHER -> IF m.start = None THEN None ELSE (m.start \div 2) % 2
  IN  [k \in 1 .. Len(bits) \div size |-> <<index(k), group(k) % 256>>]

\* Nine bits that are 0 are a no-op.
WithoutNops(bytes) ==
  IF setup.mode # "3wire" THEN bytes
  ELSE FlattenSeq([i \in DOMAIN bytes |-> IF bytes[i] = <<0, 0>> THEN <<>> ELSE <<bytes[i]>>])

\* All it got.
Taken == WithoutNops(FlattenSeq([i \in DOMAIN wire |-> Decoded(wire[i])]))

InBytes(index, width, words) ==
  LET byte(w, k) == (w \div 2 ^ (width - 8 * k)) % 256
  IN  FlattenSeq([i \in DOMAIN words |->
        [k \in 1 .. width \div 8 |-> <<index, byte(words[i], k)>>]])

\* A register number of 16 bits begins with a byte that is 0, which is a no-op too.
Meant ==
  WithoutNops(InBytes(0, setup.defWidth, <<call.regnr>>)
                \o InBytes(1, Width(setup, call), Words(setup, call)))

\* What the code does not get right, whatever it returns: 9-bit data of 8-bit words
\* that fill the buffer, and a start byte fetched from a buffer that was not mapped.
Oversent ==
  /\ setup.mode = "3wire" /\ Width(setup, call) = 8
  /\ Len(call.data) >= P \div 2
StartLost ==
  /\ setup.mode = "startbyte" /\ setup.fetches
  /\ \E i \in DOMAIN wire : wire[i].start = None

\* At every moment, also after an error, the chip has got a prefix of the command and
\* the data it was to get, bit for bit, each taken for what it is, whatever words the
\* master supports and wherever chunks, pages and messages are cut.
Faithful == ~Oversent /\ ~StartLost => IsPrefix(Taken, Meant)

\* A write that returns success has sent all of it.  The interface itself refuses one with
\* -EINVAL only for a width that it has no words for, or because eight 9-bit words do not
\* come out; a page that can not be mapped or spi_sync may give the same error.
Complete ==
  pc = "end" /\ ~Oversent /\ ~StartLost =>
    /\ rc = "ok" => Taken = Meant
    /\ refused =>
         /\ rc = "EINVAL"
         /\ \/ setup.mode # "3wire" /\ 8 \notin Supported(setup)
            \/ setup.mode = "3wire" /\ 9 \in setup.param
            \/ setup.mode = "3wire" /\ Width(setup, call) = 24
            \/ setup.mode = "3wire" /\ 9 \notin Supported(setup)
                 /\ \/ setup.defWidth = 16
                    \/ Width(setup, call) = 16 /\ Len(call.data) % 4 # 0

\* What is converted fits the page it is converted in, and a message the array of
\* transfers, which has room for the pages of the data and one more - unless a start
\* byte comes before a buffer of vmalloc that begins within a page.
FitsBuffers ==
  todo # <<>> /\ ~Oversent =>
    /\ tr.converted => Length <= P
    /\ \/ StartEntries + MessagePieces <= Ceil(Length, P) + 1
       \/ StartEntries = 1 /\ Shift > 0

\* How far a write is from its end: the halves that are left, the transfers of this half,
\* and the pages of the first of them.
Distance ==
  <<CASE pc = "command" -> 3 [] pc = "data" -> 2 [] pc = "end" -> 1 [] pc = "idle" -> 0,
    Len(todo),
    IF todo = <<>> THEN 0 ELSE Pieces - piece>>

\* The order of the dictionary.
Closer(d, e) ==
  \/ d[1] < e[1]
  \/ d[1] = e[1] /\ d[2] < e[2]
  \/ d[1] = e[1] /\ d[2] = e[2] /\ d[3] < e[3]

\* The do-while loop of lcdreg_spi_transfer moves on in the buffer with every message and
\* never beyond it, whatever the length, the offset in the page and the start byte, and a
\* write ends: each of its steps takes it nearer the end in an order that has no endless
\* descent.
NearerEnd ==
  [][pc # "idle" => /\ Distance' \in Nat \X Nat \X Nat
                    /\ Closer(Distance', Distance)]_vars
=============================================================================
