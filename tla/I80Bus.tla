------------------------------- MODULE I80Bus -------------------------------
(***************************************************************************)
(* Register accesses over a parallel bus: src/core/lcdreg-i80.c on top of  *)
(* the open, close, read and write of src/i80/i80.h and i80.c and the      *)
(* GPIO master src/i80/i80-gpio.c.                                         *)
(*                                                                         *)
(* The devices of a master share its address and data pins.  A register    *)
(* access opens the bus, which takes bus_lock, writes the register number  *)
(* at offset 0, reads or writes its data at offset 1 and closes the bus,   *)
(* which puts the address back to 0.  The GPIO master does not set pins    *)
(* that it remembers to be right: it keeps the last address, the last word *)
(* and the direction of the data pins.                                     *)
(*                                                                         *)
(* A byte has Byte values, a word of 16 bits Byte * Byte; memory is        *)
(* little-endian.  The chips are modelled as they see the pins: a selected *)
(* chip takes the word on the data pins when WR rises, and drives the pins *)
(* while RD is low.                                                        *)
(***************************************************************************)
EXTENDS Integers, Sequences, SequencesExt

CONSTANTS Threads,
          Devices,
          DeviceOf,     \* the device each thread accesses
          Address,      \* i80->address of each device
          Size,         \* and the addresses it has, i80->address_mask + 1; 0 for all
          BusWidth,     \* master->data_width, 8 or 16
          Byte,         \* the number of values of a byte
          Chunk,        \* the words that fit the conversion buffer, PAGE_SIZE / 2
          Jobs,         \* the accesses a thread may make
          MayFail,      \* whether a pin may fail to turn, or an allocation to find memory
          None

ByteValues == 0 .. Byte - 1
WordValues == 0 .. Byte * Byte - 1
BusValues == IF BusWidth = 8 THEN ByteValues ELSE WordValues

ASSUME BusAssumption ==
  /\ \A t \in Threads : DeviceOf[t] \in Devices
  /\ \A d \in Devices : Address[d] \in Nat
  /\ BusWidth \in {8, 16}
  /\ Byte \in Nat \ {0} /\ Chunk \in Nat \ {0}
  /\ MayFail \in BOOLEAN
  /\ None \notin Nat /\ None \notin Threads
  /\ Jobs # {}
  /\ \A j \in Jobs : /\ j.op \in {"write", "read"}
                     /\ j.regnr \in WordValues
                     /\ j.width \in {8, 16, 24}
                     /\ j.data \in Seq(WordValues)
                     /\ j.op = "read" => j.data # <<>>

\* Data of 8 bits are an array of u8.
ASSUME ByteAssumption == \A j \in Jobs : j.width = 8 => j.data \in Seq(ByteValues)

\* What of_register_i80_devices asks of a node by itself: its size is 0 or a power of 2
\* from 2 on, and its address a multiple of it.  A device that claims the whole bus is
\* taken to have an even address, for its lowest pin is the offset.
ASSUME AddressAssumption ==
  \A d \in Devices : /\ Size[d] \in Nat \ {1} /\ Address[d] % 2 = 0
                     /\ Size[d] # 0 => Address[d] % Size[d] = 0

\* What the devices of a bus would have to be, and i80_dev_check does not see to: each
\* has addresses of its own, and one that is always selected is alone.
AddressesApart ==
  \A d, e \in Devices :
    d # e => /\ Address[d] # 0 /\ Size[d] # 0
             /\ Address[d] + Size[d] <= Address[e] \/ Address[e] + Size[e] <= Address[d]

-----------------------------------------------------------------------------
(* Words in memory, and what the pins make of them.                           *)
Swap(x) == (x % Byte) * Byte + x \div Byte              \* cpu_to_be16

\* The bytes of a u16 array.
Bytes16(words) == FlattenSeq([i \in DOMAIN words |-> <<words[i] % Byte, words[i] \div Byte>>])

\* Mutation: a bus of 8 bits is given 16-bit words (width >= 8 for width > 8).
AsBusWordsWide(bytes) == [i \in 1 .. Len(bytes) \div 2 |-> bytes[2 * i - 1] + Byte * bytes[2 * i]]

\* i80_gpio_write and i80_gpio_read take a buffer of bytes as words of the bus.
AsBusWords(bytes) ==
  IF BusWidth = 8 THEN bytes
  ELSE [i \in 1 .. Len(bytes) \div 2 |-> bytes[2 * i - 1] + Byte * bytes[2 * i]]

\* lcdreg_i80_write_regnr, for the 16-bit register numbers of the i80 panels
RegnrWords(regnr) ==
  AsBusWords(Bytes16(<<IF BusWidth = 16 THEN regnr ELSE Swap(regnr)>>))

\* A chunk of 16-bit words for a bus of 8 bits.
ChunkWords(words) == AsBusWords(Bytes16([i \in DOMAIN words |-> Swap(words[i])]))

\* transfer->width is that of the bus, or 16 on a bus of 8; anything else is refused
\* after the register number was written.
Direct(j) == j.width = BusWidth
Refused(j) == j.data # <<>> /\ ~Direct(j) /\ ~(j.width = 16 /\ BusWidth = 8)

Chunks(j) ==
  [k \in 1 .. (Len(j.data) + Chunk - 1) \div Chunk |->
     SubSeq(j.data, (k - 1) * Chunk + 1,
            IF k * Chunk < Len(j.data) THEN k * Chunk ELSE Len(j.data))]

\* The calls of i80_write and i80_read a job makes, after the one for its register
\* number: the words each of them moves.
DataCalls(j) ==
  IF j.data = <<>> \/ Refused(j) THEN <<>>
  ELSE IF Direct(j) THEN <<IF j.width = 8 THEN j.data ELSE AsBusWords(Bytes16(j.data))>>
  ELSE [k \in DOMAIN Chunks(j) |-> ChunkWords(Chunks(j)[k])]

Calls(j) == <<[index |-> 0, input |-> FALSE, words |-> RegnrWords(j.regnr)]>>
            \o [k \in DOMAIN DataCalls(j) |->
                  [index |-> 1, input |-> j.op = "read", words |-> DataCalls(j)[k]]]

\* Mutation: the bytes are left as they came.
FromBusHost(j, words) ==
  IF Direct(j) THEN words
  ELSE [i \in 1 .. Len(words) \div 2 |-> words[2 * i - 1] + Byte * words[2 * i]]

\* What lcdreg_i80_read makes of the words it got from the bus.
FromBus(j, words) ==
  IF Direct(j) THEN words
  ELSE [i \in 1 .. Len(words) \div 2 |-> Swap(words[2 * i - 1] + Byte * words[2 * i])]

-----------------------------------------------------------------------------
VARIABLES
  busLock,       \* holder of master->bus_lock, or None
  isopen,        \* i80->isopen
  buffer,        \* whether i80lcd->buffer is there
  currAddress,   \* i80gpio->curr_address, None for ~0
  addressPins,
  currData,      \* i80gpio->curr_data, None for ~0
  dataPins,      \* what the host put on the data pins
  direction,     \* i80gpio->direction: "notset", "in" or "out"
  pinsDir,       \* how the data pins are switched: "in", "out" or "mixed"
  pc, job,       \* per thread: where it is, and in which job
  call, sent,    \* the call of the job it is in, the words moved in this call
  ret,           \* what the access will return: "ok" or an error
  heard,         \* per chip: the words it took in this access, with their index
  told,          \* the words chips drove on the pins in this access
  got            \* the words the host read in this access

pinVars == <<currAddress, addressPins, currData, dataPins, direction, pinsDir>>
threadVars == <<pc, job, call, sent, ret>>
chipVars == <<heard, told, got>>
vars == <<busLock, isopen, buffer, pinVars, threadVars, chipVars>>

Dev(t) == DeviceOf[t]
Call(t) == Calls(job[t])[call[t]]

TypeOK ==
  /\ busLock \in Threads \cup {None}
  /\ isopen \in [Devices -> BOOLEAN] /\ buffer \in [Devices -> BOOLEAN]
  /\ currAddress \in Nat \cup {None} /\ addressPins \in Nat
  /\ currData \in BusValues \cup {None} /\ dataPins \in BusValues
  /\ direction \in {"notset", "in", "out"} /\ pinsDir \in {"in", "out", "mixed"}
  /\ pc \in [Threads -> {"idle", "open", "address", "direction", "word", "close"}]
  /\ job \in [Threads -> Jobs]
  /\ \A t \in Threads : call[t] \in DOMAIN Calls(job[t]) /\ sent[t] \in 0 .. Len(Call(t).words)
  /\ ret \in [Threads -> {"ok", "EINVAL", "EIO", "ENOMEM"}]
  /\ heard \in [Devices -> Seq({0, 1} \X (BusValues \cup {None}))]
  /\ told \in Seq(BusValues) /\ got \in Seq(BusValues \cup {None})

NoJob == CHOOSE j \in Jobs : TRUE     \* the job of a thread that has none

\* i80_gpio_probe: i80_gpiod_get_index makes every pin an output of 0.
Init ==
  /\ busLock = None
  /\ isopen = [d \in Devices |-> FALSE] /\ buffer = [d \in Devices |-> FALSE]
  /\ currAddress = None /\ addressPins = 0
  /\ currData = 0 /\ dataPins = 0
  /\ direction = "notset" /\ pinsDir = "out"
  /\ pc = [t \in Threads |-> "idle"]
  /\ job = [t \in Threads |-> NoJob]
  /\ call = [t \in Threads |-> 1] /\ sent = [t \in Threads |-> 0]
  /\ ret = [t \in Threads |-> "ok"]
  /\ heard = [d \in Devices |-> <<>>] /\ told = <<>> /\ got = <<>>

-----------------------------------------------------------------------------
\* lcdreg_i80_write or lcdreg_i80_read is called.
Begin(t, j) ==
  /\ pc[t] = "idle"
  /\ pc' = [pc EXCEPT ![t] = "open"]
  /\ job' = [job EXCEPT ![t] = j]
  /\ UNCHANGED <<busLock, isopen, buffer, pinVars, call, sent, ret, chipVars>>

\* i80_open
Open(t) ==
  /\ pc[t] = "open" /\ busLock = None
  /\ busLock' = t
  /\ isopen' = [isopen EXCEPT ![Dev(t)] = TRUE]
  /\ pc' = [pc EXCEPT ![t] = "address"]
  /\ UNCHANGED <<buffer, pinVars, job, call, sent, ret, chipVars>>

\* Mutation: only the offset is compared with what the pins are thought to have.
SetAddressOffset(a) ==
  IF currAddress # None /\ currAddress % 2 = a % 2 THEN UNCHANGED <<currAddress, addressPins>>
  ELSE currAddress' = a /\ addressPins' = a

\* i80_gpio_set_address
SetAddress(a) ==
  IF currAddress = a THEN UNCHANGED <<currAddress, addressPins>>
  ELSE currAddress' = a /\ addressPins' = a

\* i80_verify_and_set_address
SelectChip(t) ==
  /\ pc[t] = "address"
  /\ IF isopen[Dev(t)]
     THEN /\ SetAddress(Address[Dev(t)] + Call(t).index)
          /\ pc' = [pc EXCEPT ![t] = "direction"]
          /\ UNCHANGED ret
     ELSE /\ ret' = [ret EXCEPT ![t] = "EINVAL"]
          /\ pc' = [pc EXCEPT ![t] = "close"]
          /\ UNCHANGED <<currAddress, addressPins>>
  /\ UNCHANGED <<busLock, isopen, buffer, currData, dataPins, direction, pinsDir, job, call, sent,
                 chipVars>>

Wanted(t) == IF Call(t).input THEN "in" ELSE "out"

\* Mutation: the pins are turned the first time only.
TurnPinsOnce(want) ==
  IF direction # "notset" THEN UNCHANGED <<direction, pinsDir, dataPins>>
  ELSE direction' = want /\ pinsDir' = want /\ dataPins' = 0

\* i80_gpio_direction; a pin that becomes an output is 0.
TurnPins(want) ==
  IF direction = want THEN UNCHANGED <<direction, pinsDir, dataPins>>
  ELSE /\ direction' = want /\ pinsDir' = want
       /\ dataPins' = IF want = "out" THEN 0 ELSE dataPins

\* Mutation: the word remembered from the last access is believed.
ForgetDataNot(t) == UNCHANGED currData

\* i80_gpio_write forgets the last word, since the pins may have been turned.
ForgetData(t) == currData' = IF Call(t).input THEN currData ELSE None

Direction(t) ==
  /\ pc[t] = "direction"
  /\ TurnPins(Wanted(t))
  /\ ForgetData(t)
  /\ pc' = [pc EXCEPT ![t] = "word"]
  /\ UNCHANGED <<busLock, isopen, buffer, currAddress, addressPins, job, call, sent, ret, chipVars>>

\* Mutation: an error returns without closing the bus.
DirectionFailsReturns(t) ==
  /\ MayFail
  /\ pc[t] = "direction" /\ direction # Wanted(t)
  /\ pc' = [pc EXCEPT ![t] = "idle"]
  /\ UNCHANGED <<busLock, isopen, buffer, pinVars, job, call, sent, ret, chipVars>>

\* A pin can not be turned: those before it are, the direction is remembered.  What the
\* turned pins carry is not seen before the next write sets them all.
DirectionFails(t) ==
  /\ MayFail
  /\ pc[t] = "direction" /\ direction # Wanted(t)
  /\ direction' = Wanted(t)
  /\ pinsDir' \in IF pinsDir = Wanted(t) THEN {pinsDir}
                   ELSE {pinsDir, "mixed"} \cup (IF pinsDir = "mixed" THEN {Wanted(t)} ELSE {})
  /\ ret' = [ret EXCEPT ![t] = "EIO"]
  /\ pc' = [pc EXCEPT ![t] = "close"]
  /\ UNCHANGED <<busLock, isopen, buffer, currAddress, addressPins, currData, dataPins, job, call,
                 sent, chipVars>>

\* The chips that take what is on the pins: one at address 0 always, the others while
\* the pins have one of their addresses.
Selected(d) ==
  \/ Address[d] = 0 \/ Size[d] = 0
  \/ Address[d] <= addressPins /\ addressPins < Address[d] + Size[d]

\* i80_gpio_write_val
WriteWord(t) ==
  /\ pc[t] = "word" /\ ~Call(t).input /\ sent[t] < Len(Call(t).words)
  /\ LET val == Call(t).words[sent[t] + 1]
     IN  /\ currData' = val
         /\ dataPins' = IF currData = val THEN dataPins ELSE val
  /\ heard' = [d \in Devices |->
                 IF Selected(d)
                 THEN Append(heard[d],
                             <<addressPins % 2, IF pinsDir = "out" THEN dataPins' ELSE None>>)
                 ELSE heard[d]]
  /\ sent' = [sent EXCEPT ![t] = sent[t] + 1]
  /\ UNCHANGED <<busLock, isopen, buffer, currAddress, addressPins, direction, pinsDir, pc, job,
                 call, ret, told, got>>

\* What the host reads while its chip answers: garbage if it drives the pins itself,
\* anything if another chip drives them too.
Readable(t, answer) ==
  IF pinsDir # "in" THEN {None}
  ELSE IF \E d \in Devices : d # Dev(t) /\ Selected(d) THEN BusValues ELSE {answer}

\* i80_gpio_read_val: a selected chip drives the pins.
ReadWord(t) ==
  /\ pc[t] = "word" /\ Call(t).input /\ sent[t] < Len(Call(t).words)
  /\ \E answer \in BusValues :
       /\ told' = IF Selected(Dev(t)) THEN Append(told, answer) ELSE told
       /\ \E val \in Readable(t, answer) : got' = Append(got, val)
  /\ sent' = [sent EXCEPT ![t] = sent[t] + 1]
  /\ UNCHANGED <<busLock, isopen, buffer, pinVars, pc, job, call, ret, heard>>

\* After the register number a job that is not Direct needs the buffer of its device.
NeedsBuffer(t) == call[t] = 1 /\ job[t].data # <<>> /\ ~Direct(job[t])

BufferFails(t) ==
  /\ MayFail
  /\ pc[t] = "word" /\ sent[t] = Len(Call(t).words)
  /\ NeedsBuffer(t) /\ ~buffer[Dev(t)]
  /\ ret' = [ret EXCEPT ![t] = "ENOMEM"]
  /\ pc' = [pc EXCEPT ![t] = "close"]
  /\ UNCHANGED <<busLock, isopen, buffer, pinVars, job, call, sent, chipVars>>

\* i80_write or i80_read returns 0: the next call, or the end of the access.
EndCall(t) ==
  /\ pc[t] = "word" /\ sent[t] = Len(Call(t).words)
  /\ sent' = [sent EXCEPT ![t] = 0]
  /\ buffer' = [buffer EXCEPT ![Dev(t)] = @ \/ NeedsBuffer(t)]
  /\ IF call[t] < Len(Calls(job[t]))
     THEN /\ call' = [call EXCEPT ![t] = call[t] + 1]
          /\ pc' = [pc EXCEPT ![t] = "address"]
          /\ UNCHANGED ret
     ELSE /\ ret' = [ret EXCEPT ![t] = IF Refused(job[t]) THEN "EINVAL" ELSE "ok"]
          /\ pc' = [pc EXCEPT ![t] = "close"]
          /\ UNCHANGED call
  /\ UNCHANGED <<busLock, isopen, pinVars, job, chipVars>>

\* Mutation: isopen is reset first, so the address is refused and stays.
DeselectClosed(t) == UNCHANGED <<currAddress, addressPins>>

\* i80_set_address(i80, 0) of i80_close
Deselect(t) == IF isopen[Dev(t)] THEN SetAddress(0) ELSE UNCHANGED <<currAddress, addressPins>>

\* i80_close
Close(t) ==
  /\ pc[t] = "close"
  /\ Deselect(t)
  /\ isopen' = [isopen EXCEPT ![Dev(t)] = FALSE]
  /\ busLock' = None
  /\ pc' = [pc EXCEPT ![t] = "idle"]
  /\ job' = [job EXCEPT ![t] = NoJob] /\ ret' = [ret EXCEPT ![t] = "ok"]
  /\ call' = [call EXCEPT ![t] = 1] /\ sent' = [sent EXCEPT ![t] = 0]
  /\ heard' = [d \in Devices |-> <<>>] /\ told' = <<>> /\ got' = <<>>
  /\ UNCHANGED <<buffer, currData, dataPins, direction, pinsDir>>

-----------------------------------------------------------------------------
Step(t) ==
  \/ SelectChip(t) \/ Direction(t) \/ DirectionFails(t)
  \/ WriteWord(t) \/ ReadWord(t) \/ BufferFails(t) \/ EndCall(t)
  \/ Close(t)

Next == \E t \in Threads : Open(t) \/ Step(t) \/ \E j \in Jobs : Begin(t, j)

Spec == Init /\ [][Next]_vars

\* A thread in an access goes on, and the mutex does not pass over a waiter for ever.
Fairness == \A t \in Threads : WF_vars(Step(t)) /\ SF_vars(Open(t))
FairSpec == Spec /\ Fairness

-----------------------------------------------------------------------------
\* The words of the bus for a 16-bit word: a bus of 8 bits takes its high byte first.
OnBus(word, width) ==
  IF BusWidth = 8 /\ width = 16 THEN <<word \div Byte, word % Byte>> ELSE <<word>>

\* What the chip is to take from a job: the register number at index 0, the data of a
\* write at index 1.
Message(j) ==
  LET at(index, words) == [i \in DOMAIN words |-> <<index, words[i]>>]
      data == FlattenSeq([i \in DOMAIN j.data |-> OnBus(j.data[i], j.width)])
  IN  at(0, OnBus(j.regnr, 16)) \o (IF j.op = "write" THEN at(1, data) ELSE <<>>)

\* What a chip heard, or the host read, is garbage: a pin failed to turn, and the
\* master remembers it as turned.
Garbled(d) == MayFail /\ None \in {heard[d][i][2] : i \in DOMAIN heard[d]}
Misread == MayFail /\ pinsDir # direction

\* An access that returns success has put its message on the bus, word for word: the
\* chip of its device took the register number at offset 0 and the data at offset 1,
\* whatever the pins had from accesses before and whatever the master remembered -
\* but for pins that failed to turn.
Delivered ==
  \A t \in Threads :
    pc[t] = "close" /\ ret[t] = "ok" /\ ~Garbled(Dev(t)) => heard[Dev(t)] = Message(job[t])

\* A read that returns success got the words the chip told, high byte first: the
\* host's pins were inputs for every one of them.  So it is where AddressesApart.
Answered ==
  \A t \in Threads :
    pc[t] = "close" /\ ret[t] = "ok" /\ job[t].op = "read" /\ ~Misread =>
      /\ None \notin {got[i] : i \in DOMAIN got}
      /\ FlattenSeq([i \in DOMAIN job[t].data |-> OnBus(FromBus(job[t], got)[i], job[t].width)])
           = told

\* A chip takes words only from the accesses of its own device.  So it is where
\* AddressesApart.
Isolated == \A d \in Devices : heard[d] # <<>> => busLock # None /\ Dev(busLock) = d

\* While nobody has the bus no device is open and the address pins are 0, so no chip
\* is selected.
Deselected ==
  busLock = None => addressPins = 0 /\ \A d \in Devices : ~isopen[d]

\* An access that was called returns.
AccessesEnd == \A t \in Threads : pc[t] # "idle" ~> pc[t] = "idle"
=============================================================================
