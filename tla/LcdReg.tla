------------------------------- MODULE LcdReg -------------------------------
(***************************************************************************)
(* Access to the registers of a display controller: src/core/lcdreg.c and  *)
(* lcdreg.h, the two-phase writes and reads of src/core/lcdreg-spi.c and   *)
(* lcdreg-i2c.c, and the operations of the drivers that use them.          *)
(*                                                                         *)
(* A register access has a command phase, which names the register, and a  *)
(* data phase.  On a 4-wire SPI interface one GPIO (spi->dc) says what the *)
(* words on the wire are: it is set, and the words are sent in one or more *)
(* messages afterwards.  With 9-bit words, a start byte or the control     *)
(* byte of I2C every message says so itself.  A read is a command and a    *)
(* data phase with a D/C line or a start byte, a single message with       *)
(* 9-bit words, and on I2C it names no register at all.                    *)
(*                                                                         *)
(* An operation of a driver is a sequence of accesses; lcdreg_lock and     *)
(* lcdreg_unlock are to keep the operations of different threads apart.    *)
(*                                                                         *)
(* A word is abstracted to who sent it, for which register, as which       *)
(* argument; the controller keeps the register named last and what it was  *)
(* sent for it, and a register holds what was last written to it in full.  *)
(***************************************************************************)
EXTENDS Integers, Sequences

CONSTANTS Threads,     \* threads that access registers
          Role,        \* the operation each thread performs
          Interfaces,  \* the interfaces the display may be found on
          MayFail,     \* whether a message may fail
          None

Registers == {"COLUMN", "PAGE", "MEMORY", "MODE", "PWM", "ONOFF", "STATUS"}

\* The argument words of a register, as far as they matter: more than one where a
\* data phase has several words or messages, none for a bare command.
Args(reg) ==
  IF reg = "ONOFF" THEN 0 ELSE IF reg \in {"MODE", "STATUS"} THEN 1 ELSE 2

(* The accesses of an operation, in order, and the registers they are for.    *)
(*   update       mipi_dbi_update, ssd1963_update, ili9320_update             *)
(*   update1306   ssd1306_update                                              *)
(*   rotate       fbdbi_fb_set_par with display->rotate                       *)
(*   backlight    ssd1963_bl_update_status                                    *)
(*   debugwrite   lcdreg_write_write_file: any register; here a window        *)
(*   debugread    lcdreg_read_write_file                                      *)
(*   blank1306    ssd1306_blank                                               *)
Program(role) ==
  CASE role = "update"     -> <<"COLUMN", "PAGE", "MEMORY">>
    [] role = "update1306" -> <<"MEMORY">>
    [] role = "rotate"     -> <<"MODE">>
    [] role = "backlight"  -> <<"PWM">>
    [] role = "debugwrite" -> <<"COLUMN">>
    [] role = "debugread"  -> <<"STATUS">>
    [] role = "blank1306"  -> <<"ONOFF">>

Roles == {"update", "update1306", "rotate", "backlight", "debugwrite", "debugread",
          "blank1306"}

\* Mutation: the debugfs files do not take the lock.
LocksNoDebug(role) == role \notin {"blank1306", "debugwrite", "debugread"}

\* The operations that run between lcdreg_lock and lcdreg_unlock.
Locks(role) == role # "blank1306"

Reads(role) == role = "debugread"

ASSUME ThreadAssumption == /\ None \notin Threads \cup Registers
                           /\ Role \in [Threads -> Roles]
                           /\ Interfaces \subseteq {"4wire", "3wire", "startbyte", "i2c"}
                           /\ MayFail \in BOOLEAN

VARIABLES
  interface, \* how the controller is connected
  lock,     \* the holder of reg->lock, or None
  pc,       \* where each thread is
  at,       \* which access of its program it is in
  word,     \* the argument word it sends or reads next
  failed,   \* whether an access of this operation failed
  dc,       \* the level of the D/C line
  sel,      \* controller: the register named last, None for a word that is no register
  args,     \* controller: the argument words received since
  regs,     \* controller: the words last written to each register in full
  got       \* what a read was answered with: the register the controller had selected

threadVars == <<pc, at, word, failed>>
chipVars == <<sel, args, regs>>
vars == <<interface, lock, threadVars, dc, chipVars, got>>

Accesses(t) == Program(Role[t])
Reg(t) == Accesses(t)[at[t]]
Words == Threads \X (0 .. 2)

TypeOK ==
  /\ interface \in Interfaces
  /\ lock \in Threads \cup {None}
  /\ pc \in [Threads -> {"idle", "lock", "dc0", "send0", "dc1", "send1", "unlock"}]
  /\ at \in [Threads -> 1 .. 3]
  /\ \A t \in Threads : at[t] <= Len(Accesses(t))
  /\ word \in [Threads -> 1 .. 2]
  /\ failed \in [Threads -> BOOLEAN]
  /\ dc \in {0, 1}
  /\ sel \in Registers \cup {None}
  /\ args \in Seq(Words)
  /\ regs \in [Registers -> Seq(Words)]
  /\ got \in [Threads -> Registers \cup {None}]

\* The interface is that of the device tree and of the driver.
Init ==
  /\ interface \in Interfaces
  /\ lock = None
  /\ pc = [t \in Threads |-> "idle"]
  /\ at = [t \in Threads |-> 1]
  /\ word = [t \in Threads |-> 1]
  /\ failed = [t \in Threads |-> FALSE]
  /\ dc = 0
  /\ sel = None /\ args = <<>>
  /\ regs = [r \in Registers |-> <<>>]
  /\ got = [t \in Threads |-> None]

-----------------------------------------------------------------------------
(* The controller takes a word.  A command word names a register, and one     *)
(* without arguments is done; a data word is the next argument of the         *)
(* register named last; the register holds its arguments once they are all    *)
(* there.  What it does with a word sent as the other kind is garbage.        *)
TakeCommand(reg) ==
  /\ sel' = reg
  /\ args' = <<>>
  /\ UNCHANGED regs

TakeData(w) ==
  IF sel = None \/ Len(args) = Args(sel)
  THEN UNCHANGED chipVars
  ELSE /\ args' = Append(args, w)
       /\ regs' = IF Len(args') = Args(sel) THEN [regs EXCEPT ![sel] = args'] ELSE regs
       /\ UNCHANGED sel

\* What the controller takes the words of a message for, sent as index.
WireLevel(index) == IF interface = "4wire" THEN dc ELSE index

-----------------------------------------------------------------------------
Call(t) ==
  /\ pc[t] = "idle"
  /\ pc' = [pc EXCEPT ![t] = IF Locks(Role[t]) THEN "lock" ELSE "dc0"]
  /\ failed' = [failed EXCEPT ![t] = FALSE]
  /\ got' = [got EXCEPT ![t] = None]
  /\ UNCHANGED <<interface, lock, at, word, dc, chipVars>>

\* Mutation: the lock is tried and the answer not looked at.
LockTried(t) ==
  /\ pc[t] = "lock"
  /\ lock' = IF lock = None THEN t ELSE lock
  /\ pc' = [pc EXCEPT ![t] = "dc0"]
  /\ UNCHANGED <<interface, at, word, failed, dc, chipVars, got>>

\* lcdreg_lock
Lock(t) ==
  /\ pc[t] = "lock" /\ lock = None
  /\ lock' = t
  /\ pc' = [pc EXCEPT ![t] = "dc0"]
  /\ UNCHANGED <<interface, at, word, failed, dc, chipVars, got>>

\* lcdreg_unlock
Unlock(t) ==
  /\ pc[t] = "unlock"
  /\ lock' = None
  /\ pc' = [pc EXCEPT ![t] = "idle"]
  /\ at' = [at EXCEPT ![t] = 1]
  /\ failed' = [failed EXCEPT ![t] = FALSE]
  /\ got' = [got EXCEPT ![t] = None]
  /\ UNCHANGED <<interface, word, dc, chipVars>>

\* An access is over, with or without an error: the drivers go on to the next one
\* ("ret |= ...") and the operation ends after the last.
EndAccess(t) ==
  /\ word' = [word EXCEPT ![t] = 1]
  /\ IF at[t] < Len(Accesses(t))
     THEN /\ at' = [at EXCEPT ![t] = at[t] + 1]
          /\ pc' = [pc EXCEPT ![t] = "dc0"]
     ELSE /\ pc' = [pc EXCEPT ![t] = IF Locks(Role[t]) THEN "unlock" ELSE "idle"]
          /\ at' = IF Locks(Role[t]) THEN at ELSE [at EXCEPT ![t] = 1]

\* gpiod_set_value_cansleep(spi->dc, index), when there is such a line.
SetDc(t, phase, index, next) ==
  /\ pc[t] = phase
  /\ dc' = IF interface = "4wire" THEN index ELSE dc
  /\ pc' = [pc EXCEPT ![t] = next]
  /\ UNCHANGED <<interface, lock, at, word, failed, chipVars, got>>

\* Mutation: the D/C line is left at command for the data phase.
SetDataLow(t) == SetDc(t, "dc1", 0, "send1")

SetCommand(t) == SetDc(t, "dc0", 0, "send0")
SetData(t) == SetDc(t, "dc1", 1, "send1")

\* Reads that have no phases.
OneMessage(t) == Reads(Role[t]) /\ interface \in {"3wire", "i2c"}

\* The command phase: one message with the register number.
SendCommand(t) ==
  /\ pc[t] = "send0" /\ ~OneMessage(t)
  /\ IF WireLevel(0) = 0 THEN TakeCommand(Reg(t)) ELSE TakeData(<<t, 0>>)
  /\ IF Args(Reg(t)) = 0
     THEN EndAccess(t)
     ELSE /\ pc' = [pc EXCEPT ![t] = "dc1"]
          /\ UNCHANGED <<at, word>>
  /\ UNCHANGED <<interface, lock, failed, dc, got>>

\* Mutation: one word too many.
NextWordBeyond(t) ==
  IF word[t] <= Args(Reg(t))
  THEN word' = [word EXCEPT ![t] = word[t] + 1] /\ UNCHANGED <<pc, at>>
  ELSE EndAccess(t)

NextWord(t) ==
  IF word[t] < Args(Reg(t))
  THEN word' = [word EXCEPT ![t] = word[t] + 1] /\ UNCHANGED <<pc, at>>
  ELSE EndAccess(t)

\* The data phase of a write, a message at a time.
SendData(t) ==
  /\ pc[t] = "send1" /\ ~Reads(Role[t])
  /\ IF WireLevel(1) = 1 THEN TakeData(<<t, word[t]>>) ELSE TakeCommand(None)
  /\ NextWord(t)
  /\ UNCHANGED <<interface, lock, failed, dc, got>>

\* The data phase of a read: the controller answers for the register it has.
ReceiveData(t) ==
  /\ pc[t] = "send1" /\ Reads(Role[t])
  /\ got' = [got EXCEPT ![t] = IF WireLevel(1) = 1 THEN sel ELSE None]
  /\ NextWord(t)
  /\ UNCHANGED <<interface, lock, failed, dc, chipVars>>

\* A read by one message.  With 9-bit words it begins with the register number; I2C
\* sends none, so it is answered with the status, which stands for register 0.
ReadAtOnce(t) ==
  /\ pc[t] = "send0" /\ OneMessage(t)
  /\ IF interface = "3wire" THEN TakeCommand(Reg(t)) ELSE UNCHANGED chipVars
  /\ got' = [got EXCEPT ![t] = IF interface = "3wire" THEN sel' ELSE "STATUS"]
  /\ EndAccess(t)
  /\ UNCHANGED <<interface, lock, failed, dc>>

\* The register can not be read: it is not reg->readable, or not number 0 on I2C.
ReadRefused(t) ==
  /\ pc[t] = "dc0" /\ Reads(Role[t])
  /\ failed' = [failed EXCEPT ![t] = TRUE]
  /\ EndAccess(t)
  /\ UNCHANGED <<interface, lock, dc, chipVars, got>>

\* Mutation: an error returns at once, with the lock held.
MessageFailsReturns(t) ==
  /\ MayFail
  /\ pc[t] \in {"send0", "send1"}
  /\ failed' = [failed EXCEPT ![t] = TRUE]
  /\ pc' = [pc EXCEPT ![t] = "idle"]
  /\ at' = [at EXCEPT ![t] = 1]
  /\ word' = [word EXCEPT ![t] = 1]
  /\ UNCHANGED <<interface, lock, dc, chipVars, got>>

\* A message fails: the rest of the access is given up.
MessageFails(t) ==
  /\ MayFail
  /\ pc[t] \in {"send0", "send1"}
  /\ failed' = [failed EXCEPT ![t] = TRUE]
  /\ EndAccess(t)
  /\ UNCHANGED <<interface, lock, dc, chipVars, got>>

Step(t) ==
  \/ SetCommand(t) \/ SendCommand(t)
  \/ SetData(t) \/ SendData(t) \/ ReceiveData(t)
  \/ ReadAtOnce(t) \/ ReadRefused(t)
  \/ MessageFails(t)
  \/ Unlock(t)

Next == \E t \in Threads : Call(t) \/ Lock(t) \/ Step(t)

Spec == Init /\ [][Next]_vars

(* A thread inside an operation goes on, and the mutex, whose waiters queue,  *)
(* does not pass over one of them for ever.  No thread has to call.           *)
Fairness == \A t \in Threads : WF_vars(Step(t)) /\ SF_vars(Lock(t))
FairSpec == Spec /\ Fairness

-----------------------------------------------------------------------------
Accessing(t) == pc[t] \in {"dc0", "send0", "dc1", "send1"}

\* lcdreg.h calls reg->lock the "mutex for register access locking": no two threads
\* are inside a register access at once.
AccessExclusive ==
  \A t, u \in Threads : Accessing(t) /\ Accessing(u) => t = u

\* Whatever a thread is about to put on the wire will be taken for what it is: a
\* register number as a command, and an argument, or the request for a value, as
\* data of the register that thread named.
WireAgrees ==
  \A t \in Threads :
    /\ pc[t] = "send0" => WireLevel(0) = 0
    /\ pc[t] = "send1" => /\ WireLevel(1) = 1
                          /\ sel = Reg(t)

\* Register reg holds the words of one write by t.
Whole(t, reg) ==
  /\ Len(regs[reg]) = Args(reg)
  /\ \A k \in 1 .. Args(reg) : regs[reg][k] = <<t, k>>

\* The rows of an update land in the window the same update set: while it sends
\* them, the window registers hold its own values, whoever else uses the
\* interface.  An update of which an access failed goes on with the others.
UpdateInOwnWindow ==
  \A t \in Threads :
    Role[t] = "update" /\ Accessing(t) /\ Reg(t) = "MEMORY" /\ ~failed[t]
      => Whole(t, "COLUMN") /\ Whole(t, "PAGE")

\* A read is answered for the register it named, not for one another thread
\* selected between the two phases.
ReadAnswered ==
  \A t \in Threads :
    Reads(Role[t]) /\ pc[t] = "unlock" /\ ~failed[t] => got[t] = Reg(t)

\* An operation that was called ends: no thread is in one for ever.
CallsEnd == \A t \in Threads : []<>(pc[t] = "idle")

\* Who wrote the value a register holds; "mixed" if not one thread alone.
WrittenBy(reg) ==
  IF regs[reg] = <<>> THEN None
  ELSE IF \E t \in Threads : Whole(t, reg) THEN CHOOSE t \in Threads : Whole(t, reg)
  ELSE "mixed"

Serial == INSTANCE SerialRegisters
          WITH owner <- lock, value <- [r \in Registers |-> WrittenBy(r)]

\* The word-level protocol implements registers that are written one at a time,
\* in one step, by the thread whose turn it is.
ImplementsSerial == Serial!Spec
=============================================================================
