----------------------------- MODULE LcdRegProofs -----------------------------
(***************************************************************************)
(* For any number of threads whose operations all run under lcdreg_lock:   *)
(* accesses exclude each other, what a thread sends is taken for what it   *)
(* is, a read is answered for its own register, an update lands in its own *)
(* window, and the protocol implements SerialRegisters.  Whether they lock *)
(* or not, they never all wait, and each operation draws nearer its end.   *)
(***************************************************************************)
EXTENDS LcdReg, TLAPS

\* Every operation is one of those that take the lock; ssd1306_blank does not.
AllLocked == \A t \in Threads : Locks(Role[t])

LEMMA ProgramFacts ==
  ASSUME NEW role \in Roles
  PROVE  /\ Len(Program(role)) \in 1 .. 3
         /\ \A i \in 1 .. Len(Program(role)) : Program(role)[i] \in Registers
  BY DEF Roles, Program, Registers

LEMMA ArgsFacts ==
  ASSUME NEW r \in Registers
  PROVE  Args(r) \in 0 .. 2
  BY DEF Args

LEMMA AccessFacts ==
  ASSUME NEW t \in Threads
  PROVE  /\ Len(Accesses(t)) \in 1 .. 3
         /\ \A i \in 1 .. Len(Accesses(t)) : Accesses(t)[i] \in Registers
<1>1. Role[t] \in Roles
  BY ThreadAssumption
<1> QED BY <1>1, ProgramFacts DEF Accesses

LEMMA RegFacts ==
  ASSUME TypeOK, NEW t \in Threads
  PROVE  Reg(t) \in Registers
<1>1. at[t] \in 1 .. 3 /\ at[t] <= Len(Accesses(t))
  BY DEF TypeOK
<1>2. at[t] \in 1 .. Len(Accesses(t))
  BY <1>1, AccessFacts
<1> QED BY <1>2, AccessFacts DEF Reg

LEMMA InitTypeOK == Init => TypeOK
<1> SUFFICES ASSUME Init PROVE TypeOK
  OBVIOUS
<1>1. \A t \in Threads : at[t] <= Len(Accesses(t))
  <2>1. TAKE t \in Threads
  <2> DEFINE n == Len(Accesses(t))
  <2>2. n \in 1 .. 3
    BY AccessFacts
  <2>3. at[t] = 1
    BY DEF Init
  <2>4. 1 <= n
    <3> HIDE DEF n
    <3> QED BY <2>2
  <2> QED BY <2>3, <2>4
<1> QED BY <1>1 DEF Init, TypeOK

LEMMA EndAccessTypes ==
  ASSUME TypeOK, NEW t \in Threads, EndAccess(t)
  PROVE  /\ at' \in [Threads -> 1 .. 3]
         /\ \A u \in Threads : at'[u] <= Len(Accesses(u))
         /\ pc' \in [Threads -> {"idle", "lock", "dc0", "send0", "dc1", "send1", "unlock"}]
         /\ word' \in [Threads -> 1 .. 2]
<1> DEFINE n == Len(Accesses(t))
<1>1. n \in 1 .. 3 /\ at[t] \in 1 .. 3 /\ at \in [Threads -> 1 .. 3]
  BY AccessFacts DEF TypeOK
<1>2. \A u \in Threads : at[u] <= Len(Accesses(u))
  BY DEF TypeOK
<1>3. /\ pc \in [Threads -> {"idle", "lock", "dc0", "send0", "dc1", "send1", "unlock"}]
      /\ word \in [Threads -> 1 .. 2]
  BY DEF TypeOK
<1>4. at' = at \/ (at[t] < n /\ at' = [at EXCEPT ![t] = at[t] + 1])
               \/ at' = [at EXCEPT ![t] = 1]
  BY DEF EndAccess
<1>5. at[t] < n => at[t] + 1 \in 1 .. 3 /\ at[t] + 1 <= n
  <2> HIDE DEF n
  <2> QED BY <1>1
<1>6. 1 \in 1 .. 3 /\ 1 <= n
  <2> HIDE DEF n
  <2> QED BY <1>1
<1>7. at' \in [Threads -> 1 .. 3]
  <2> HIDE DEF n
  <2> QED BY <1>1, <1>4, <1>5, <1>6
<1>8. \A u \in Threads : at'[u] <= Len(Accesses(u))
  BY <1>1, <1>2, <1>4, <1>5, <1>6
<1>9. /\ pc' \in [Threads -> {"idle", "lock", "dc0", "send0", "dc1", "send1", "unlock"}]
      /\ word' \in [Threads -> 1 .. 2]
  BY <1>3 DEF EndAccess
<1> QED BY <1>7, <1>8, <1>9

LEMMA TakeTypes ==
  ASSUME TypeOK, NEW t \in Threads, NEW k \in 0 .. 2,
         \/ TakeCommand(Reg(t)) \/ TakeCommand(None) \/ TakeData(<<t, k>>)
  PROVE  /\ sel' \in Registers \cup {None}
         /\ args' \in Seq(Words)
         /\ regs' \in [Registers -> Seq(Words)]
<1>0. sel \in Registers \cup {None} /\ args \in Seq(Words) /\ regs \in [Registers -> Seq(Words)]
  BY DEF TypeOK
<1>1. CASE TakeCommand(Reg(t)) \/ TakeCommand(None)
  <2>1. Reg(t) \in Registers
    BY RegFacts
  <2>2. <<>> \in Seq(Words)
    OBVIOUS
  <2> QED BY <1>0, <1>1, <2>1, <2>2 DEF TakeCommand
<1>2. CASE TakeData(<<t, k>>)
  <2>1. <<t, k>> \in Words
    BY DEF Words
  <2>2. Append(args, <<t, k>>) \in Seq(Words)
    BY <1>0, <2>1
  <2> QED BY <1>0, <1>2, <2>2 DEF TakeData, chipVars
<1> QED BY <1>1, <1>2

LEMMA StepTypeOK == TypeOK /\ [Next]_vars => TypeOK'
<1> SUFFICES ASSUME TypeOK, [Next]_vars PROVE TypeOK'
  OBVIOUS
<1> USE DEF threadVars, chipVars
<1>1. ASSUME NEW t \in Threads, Call(t) PROVE TypeOK'
  BY <1>1 DEF Call, TypeOK, Accesses
<1>2. ASSUME NEW t \in Threads, Lock(t) PROVE TypeOK'
  BY <1>2 DEF Lock, TypeOK, Accesses
<1>3. ASSUME NEW t \in Threads, SetCommand(t) PROVE TypeOK'
  BY <1>3 DEF SetCommand, SetDc, TypeOK, Accesses
<1>4. ASSUME NEW t \in Threads, SetData(t) PROVE TypeOK'
  BY <1>4 DEF SetData, SetDc, TypeOK, Accesses
<1>5. ASSUME NEW t \in Threads, SendCommand(t) PROVE TypeOK'
  <2>1. TakeCommand(Reg(t)) \/ TakeData(<<t, 0>>)
    BY <1>5 DEF SendCommand
  <2>2. /\ sel' \in Registers \cup {None} /\ args' \in Seq(Words)
        /\ regs' \in [Registers -> Seq(Words)]
    BY <2>1, 0 \in 0 .. 2, TakeTypes
  <2>3. CASE Args(Reg(t)) = 0
    BY <1>5, <2>2, <2>3, EndAccessTypes DEF SendCommand, TypeOK, Accesses
  <2>4. CASE Args(Reg(t)) # 0
    BY <1>5, <2>2, <2>4 DEF SendCommand, TypeOK, Accesses
  <2> QED BY <2>3, <2>4
<1>6. ASSUME NEW t \in Threads, NextWord(t)
      PROVE  /\ at' \in [Threads -> 1 .. 3]
             /\ \A u \in Threads : at'[u] <= Len(Accesses(u))
             /\ pc' \in [Threads -> {"idle", "lock", "dc0", "send0", "dc1", "send1", "unlock"}]
             /\ word' \in [Threads -> 1 .. 2]
  <2>1. CASE word[t] < Args(Reg(t))
    <3>1. word[t] + 1 \in 1 .. 2
      <4>1. word[t] \in 1 .. 2 /\ Args(Reg(t)) \in 0 .. 2
        BY RegFacts, ArgsFacts DEF TypeOK
      <4> QED BY <2>1, <4>1
    <3> QED BY <1>6, <2>1, <3>1 DEF NextWord, TypeOK
  <2>2. CASE ~(word[t] < Args(Reg(t)))
    BY <1>6, <2>2, EndAccessTypes DEF NextWord
  <2> QED BY <2>1, <2>2
<1>7. ASSUME NEW t \in Threads, SendData(t) PROVE TypeOK'
  <2>1. TakeCommand(None) \/ TakeData(<<t, word[t]>>)
    BY <1>7 DEF SendData
  <2>2. /\ sel' \in Registers \cup {None} /\ args' \in Seq(Words)
        /\ regs' \in [Registers -> Seq(Words)]
    <3>1. word[t] \in 0 .. 2
      BY DEF TypeOK
    <3> QED BY <2>1, <3>1, TakeTypes
  <2> QED BY <1>6, <1>7, <2>2 DEF SendData, TypeOK, Accesses
<1>8. ASSUME NEW t \in Threads, ReceiveData(t) PROVE TypeOK'
  BY <1>6, <1>8 DEF ReceiveData, TypeOK, Accesses
<1>9. ASSUME NEW t \in Threads, MessageFails(t) \/ ReadRefused(t) PROVE TypeOK'
  BY <1>9, EndAccessTypes DEF MessageFails, ReadRefused, TypeOK, Accesses
<1>12. ASSUME NEW t \in Threads, ReadAtOnce(t) PROVE TypeOK'
  <2>1. /\ sel' \in Registers \cup {None} /\ args' \in Seq(Words)
        /\ regs' \in [Registers -> Seq(Words)]
    <3>1. CASE TakeCommand(Reg(t))
      BY <3>1, 0 \in 0 .. 2, TakeTypes
    <3>2. CASE UNCHANGED chipVars
      BY <3>2 DEF TypeOK
    <3> QED BY <1>12, <3>1, <3>2 DEF ReadAtOnce
  <2>2. got' \in [Threads -> Registers \cup {None}]
    BY <1>12, <2>1 DEF ReadAtOnce, TypeOK, Registers
  <2> QED BY <1>12, <2>1, <2>2, EndAccessTypes DEF ReadAtOnce, TypeOK, Accesses
<1>10. ASSUME NEW t \in Threads, Unlock(t) PROVE TypeOK'
  <2>1. 1 <= Len(Accesses(t))
    BY AccessFacts
  <2>2. \A u \in Threads : at'[u] <= Len(Accesses(u))
    BY <1>10, <2>1 DEF Unlock, TypeOK
  <2> QED BY <1>10, <2>2 DEF Unlock, TypeOK, Accesses
<1>11. CASE UNCHANGED vars
  BY <1>11 DEF vars, TypeOK, Accesses
<1> QED
  BY <1>1, <1>2, <1>3, <1>4, <1>5, <1>7, <1>8, <1>9, <1>10, <1>11, <1>12 DEF Next, Step

\* Every variable of the register protocol keeps its type: in particular no access
\* sends more argument words than its register takes.
THEOREM TypeCorrect == Spec => []TypeOK
BY InitTypeOK, StepTypeOK, PTL DEF Spec

-----------------------------------------------------------------------------
(* The inductive invariant.  A thread past lcdreg_lock holds the lock, so     *)
(* what it needs of the interface between two of its steps - the level of the *)
(* D/C line, the register selected, the arguments sent, the window set - is   *)
(* disturbed by nobody.                                                       *)
Busy(t) == pc[t] \notin {"idle", "lock"}

\* The controller has been sent the arguments before the one t is at.
Sent(t) ==
  /\ Len(args) = word[t] - 1
  /\ \A k \in 1 .. word[t] - 1 : args[k] = <<t, k>>

Wire(t) ==
  /\ pc[t] = "send0" => WireLevel(0) = 0
  /\ pc[t] = "send1" => WireLevel(1) = 1
  /\ pc[t] \in {"dc1", "send1"} => sel = Reg(t) /\ word[t] <= Args(Reg(t))
  /\ pc[t] \in {"dc1", "send1"} /\ ~Reads(Role[t]) => Sent(t)

Window(t) ==
  Role[t] = "update" /\ Accessing(t) /\ ~failed[t] =>
    /\ at[t] >= 2 => Whole(t, "COLUMN")
    /\ at[t] >= 3 => Whole(t, "PAGE")

Answer(t) == Reads(Role[t]) /\ pc[t] = "unlock" /\ ~failed[t] => got[t] = Reg(t)

Inv(t) ==
  /\ Busy(t) => lock = t
  /\ pc[t] # "send1" => word[t] = 1
  /\ ~Busy(t) => at[t] = 1
  /\ Wire(t)
  /\ Window(t)
  /\ Answer(t)

IndInv == TypeOK /\ \A t \in Threads : Inv(t)

\* A thread that is not past lcdreg_lock has no claim that a step of another one
\* could break.
LEMMA IdleInv ==
  ASSUME NEW u \in Threads, Inv(u), ~Busy(u),
         pc'[u] = pc[u], at'[u] = at[u], word'[u] = word[u]
  PROVE  Inv(u)'
  BY DEF Inv, Busy, Wire, Window, Answer, Accessing

\* So a step of the thread that holds the lock has only its own claims to keep.
LEMMA OwnStep ==
  ASSUME IndInv, NEW t \in Threads, Busy(t), Inv(t)',
         \A u \in Threads \ {t} : pc'[u] = pc[u] /\ at'[u] = at[u] /\ word'[u] = word[u]
  PROVE  \A u \in Threads : Inv(u)'
<1>1. ASSUME NEW u \in Threads, u # t PROVE Inv(u)'
  <2>1. ~Busy(u)
    <3>1. lock = t /\ (Busy(u) => lock = u)
      BY DEF IndInv, Inv
    <3> QED BY <1>1, <3>1
  <2> QED BY <1>1, <2>1, IdleInv DEF IndInv
<1> QED BY <1>1

\* Where the end of an access leaves its thread, when all operations lock.
LEMMA EndAccessInv ==
  ASSUME IndInv, AllLocked, NEW t \in Threads, EndAccess(t)
  PROVE  /\ pc'[t] \in {"dc0", "unlock"} /\ word'[t] = 1
         /\ \/ pc'[t] = "dc0" /\ at'[t] = at[t] + 1
            \/ pc'[t] = "unlock" /\ at'[t] = at[t]
         /\ \A u \in Threads \ {t} : pc'[u] = pc[u] /\ at'[u] = at[u] /\ word'[u] = word[u]
<1>1. /\ pc \in [Threads -> {"idle", "lock", "dc0", "send0", "dc1", "send1", "unlock"}]
      /\ at \in [Threads -> 1 .. 3] /\ word \in [Threads -> 1 .. 2] /\ Locks(Role[t])
  BY DEF IndInv, TypeOK, AllLocked
<1>2. CASE at[t] < Len(Accesses(t))
  BY <1>1, <1>2 DEF EndAccess
<1>3. CASE ~(at[t] < Len(Accesses(t)))
  BY <1>1, <1>3 DEF EndAccess
<1> QED BY <1>2, <1>3

\* The program of an update, which the window rests on.
LEMMA UpdateProgram ==
  ASSUME NEW t \in Threads, Role[t] = "update"
  PROVE  /\ ~Reads(Role[t])
         /\ Accesses(t)[1] = "COLUMN" /\ Accesses(t)[2] = "PAGE" /\ Accesses(t)[3] = "MEMORY"
  BY DEF Accesses, Program, Reads

LEMMA CallKeepsInv ==
  ASSUME IndInv, AllLocked, NEW t \in Threads, Call(t) \/ Lock(t)
  PROVE  \A u \in Threads : Inv(u)'
<1> USE DEF chipVars
<1>1. /\ pc \in [Threads -> {"idle", "lock", "dc0", "send0", "dc1", "send1", "unlock"}]
      /\ failed \in [Threads -> BOOLEAN] /\ got \in [Threads -> Registers \cup {None}]
      /\ lock \in Threads \cup {None} /\ None \notin Threads
  BY ThreadAssumption DEF IndInv, TypeOK
<1>2. CASE Call(t)
  <2>1. pc' = [pc EXCEPT ![t] = "lock"] /\ pc[t] = "idle"
    BY <1>2 DEF Call, AllLocked
  <2>2. Inv(t)'
    BY <1>1, <1>2, <2>1 DEF Call, IndInv, Inv, Busy, Wire, Window, Answer, Accessing
  <2>3. ASSUME NEW u \in Threads, u # t PROVE Inv(u)'
    <3>1. /\ pc'[u] = pc[u] /\ failed'[u] = failed[u] /\ got'[u] = got[u]
          /\ UNCHANGED <<interface, lock, at, word, dc, sel, args, regs>>
      BY <1>1, <1>2, <2>1, <2>3 DEF Call
    <3> QED BY <3>1
            DEF IndInv, Inv, Busy, Wire, WireLevel, Sent, Window, Answer, Accessing, Whole,
                Reg
  <2> QED BY <2>2, <2>3
<1>3. CASE Lock(t)
  <2>1. \A u \in Threads : ~Busy(u)
    BY <1>1, <1>3 DEF Lock, IndInv, Inv
  <2>2. Inv(t)'
    BY <1>1, <1>3, <2>1
    DEF Lock, IndInv, Inv, Busy, Wire, Window, Answer, Accessing
  <2>3. ASSUME NEW u \in Threads, u # t PROVE Inv(u)'
    <3>1. pc'[u] = pc[u] /\ at'[u] = at[u] /\ word'[u] = word[u]
      BY <1>1, <1>3, <2>3 DEF Lock
    <3> QED BY <2>1, <3>1, IdleInv DEF IndInv
  <2> QED BY <2>2, <2>3
<1> QED BY <1>2, <1>3

\* What there is to know of a thread whose operation is a read.
LEMMA ReadProgram ==
  ASSUME TypeOK, NEW t \in Threads, Reads(Role[t])
  PROVE  at[t] = 1 /\ Reg(t) = "STATUS" /\ Len(Accesses(t)) = 1 /\ Role[t] # "update"
<1>1. Len(Accesses(t)) = 1 /\ Accesses(t)[1] = "STATUS" /\ Role[t] # "update"
  BY DEF Reads, Accesses, Program
<1>2. at[t] \in 1 .. 3 /\ at[t] <= Len(Accesses(t))
  BY DEF TypeOK
<1>3. at[t] = 1
  BY <1>1, <1>2
<1> QED BY <1>1, <1>3 DEF Reg

LEMMA CommandKeepsInv ==
  ASSUME IndInv, AllLocked, NEW t \in Threads, SetCommand(t) \/ SetData(t) \/ SendCommand(t)
  PROVE  \A u \in Threads : Inv(u)'
<1> USE DEF chipVars
<1>1. /\ pc \in [Threads -> {"idle", "lock", "dc0", "send0", "dc1", "send1", "unlock"}]
      /\ at[t] \in 1 .. 3 /\ word[t] \in 1 .. 2 /\ Inv(t)
  BY DEF IndInv, TypeOK
<1>2. CASE SetCommand(t)
  <2>1. /\ pc' = [pc EXCEPT ![t] = "send0"] /\ pc[t] = "dc0"
        /\ dc' = (IF interface = "4wire" THEN 0 ELSE dc)
        /\ UNCHANGED <<interface, lock, at, word, failed, sel, args, regs, got>>
    BY <1>2 DEF SetCommand, SetDc
  <2>2. Inv(t)'
    BY <1>1, <2>1
    DEF Inv, Busy, Wire, WireLevel, Window, Answer, Accessing, Whole
  <2> QED BY <1>1, <2>1, <2>2, OwnStep DEF Busy
<1>3. CASE SetData(t)
  <2>1. /\ pc' = [pc EXCEPT ![t] = "send1"] /\ pc[t] = "dc1"
        /\ dc' = (IF interface = "4wire" THEN 1 ELSE dc)
        /\ UNCHANGED <<interface, lock, at, word, failed, sel, args, regs, got>>
    BY <1>3 DEF SetData, SetDc
  <2>2. Inv(t)'
    BY <1>1, <2>1
    DEF Inv, Busy, Wire, WireLevel, Window, Answer, Accessing, Whole, Sent, Reg
  <2> QED BY <1>1, <2>1, <2>2, OwnStep DEF Busy
<1>4. CASE SendCommand(t)
  <2>1. pc[t] = "send0" /\ TakeCommand(Reg(t)) /\ UNCHANGED <<lock, failed, dc, got>>
    BY <1>1, <1>4 DEF SendCommand, Inv, Wire
  <2>2. Busy(t) /\ lock = t /\ word[t] = 1
    BY <1>1, <2>1 DEF Inv, Busy
  <2>3. CASE Args(Reg(t)) = 0
    <3>1. EndAccess(t)
      BY <1>4, <2>3 DEF SendCommand
    <3>2. /\ pc'[t] \in {"dc0", "unlock"} /\ word'[t] = 1
          /\ \/ pc'[t] = "dc0" /\ at'[t] = at[t] + 1
             \/ pc'[t] = "unlock" /\ at'[t] = at[t]
      BY <3>1, EndAccessInv
    <3>3. Role[t] # "update" /\ ~Reads(Role[t])
      <4>1. Role[t] = "update" => Reg(t) \in {"COLUMN", "PAGE", "MEMORY"}
        BY <1>1, UpdateProgram DEF Reg
      <4>2. Reads(Role[t]) => Reg(t) = "STATUS"
        BY ReadProgram DEF IndInv
      <4> QED BY <2>3, <4>1, <4>2 DEF Args
    <3>4. Inv(t)'
      BY <2>1, <2>2, <3>2, <3>3 DEF Inv, Busy, Wire, Window, Answer
    <3> QED BY <2>2, <3>1, <3>4, EndAccessInv, OwnStep
  <2>4. CASE Args(Reg(t)) # 0
    <3>1. pc' = [pc EXCEPT ![t] = "dc1"] /\ UNCHANGED <<at, word>>
      BY <1>4, <2>4 DEF SendCommand
    <3>2. Reg(t)' = Reg(t) /\ Sent(t)' /\ word'[t] <= Args(Reg(t))'
      <4>1. Reg(t)' = Reg(t) /\ Sent(t)' /\ word'[t] = 1
        BY <2>1, <2>2, <3>1 DEF Reg, Sent, TakeCommand
      <4>2. 1 <= Args(Reg(t))
        BY <2>4, RegFacts, ArgsFacts DEF IndInv
      <4>3. Args(Reg(t))' = Args(Reg(t))
        BY <4>1 DEF Args
      <4> QED BY <4>1, <4>2, <4>3
    <3>3. Inv(t)'
      BY <1>1, <2>1, <2>2, <2>4, <3>1, <3>2
      DEF Inv, Busy, Wire, Window, Answer, Accessing, TakeCommand, Whole
    <3> QED BY <1>1, <2>2, <3>1, <3>3, OwnStep
  <2> QED BY <2>3, <2>4
<1> QED BY <1>2, <1>3, <1>4

\* The word t sends is taken as the next argument of its register, which holds the
\* words of t alone once they are all sent.
LEMMA DataTaken ==
  ASSUME IndInv, NEW t \in Threads, pc[t] = "send1", ~Reads(Role[t]),
         TakeData(<<t, word[t]>>)
  PROVE  /\ sel' = sel
         /\ Len(args') = word[t] /\ \A k \in 1 .. word[t] : args'[k] = <<t, k>>
         /\ word[t] = Args(Reg(t)) => regs' = [regs EXCEPT ![Reg(t)] = args']
         /\ word[t] < Args(Reg(t)) => regs' = regs
<1>1. /\ sel = Reg(t) /\ word[t] \in 1 .. 2 /\ word[t] <= Args(Reg(t))
      /\ args \in Seq(Words) /\ Len(args) = word[t] - 1
      /\ \A k \in 1 .. word[t] - 1 : args[k] = <<t, k>>
  BY DEF IndInv, TypeOK, Inv, Wire, Sent
<1>2. Reg(t) \in Registers /\ Args(Reg(t)) \in 0 .. 2 /\ <<t, word[t]>> \in Words
  BY <1>1, RegFacts, ArgsFacts DEF IndInv, Words
<1>3. sel # None /\ Len(args) # Args(sel)
  <2>1. sel # None
    BY <1>1, <1>2, ThreadAssumption
  <2>2. Len(args) # Args(Reg(t))
    BY <1>1, <1>2
  <2> QED BY <1>1, <2>1, <2>2
<1>4. /\ args' = Append(args, <<t, word[t]>>) /\ sel' = sel
      /\ regs' = IF Len(args') = Args(Reg(t)) THEN [regs EXCEPT ![Reg(t)] = args'] ELSE regs
  BY <1>1, <1>3 DEF TakeData
<1>5. Len(args') = word[t] /\ \A k \in 1 .. word[t] : args'[k] = <<t, k>>
  BY <1>1, <1>2, <1>4
<1> QED BY <1>1, <1>2, <1>4, <1>5

\* The end of a data phase: the window registers an update has passed are whole.
LEMMA DataEndInv ==
  ASSUME IndInv, AllLocked, NEW t \in Threads, pc[t] = "send1", ~Reads(Role[t]),
         TakeData(<<t, word[t]>>), word[t] = Args(Reg(t)), EndAccess(t),
         UNCHANGED <<lock, failed, dc, got>>
  PROVE  Inv(t)'
<1>1. /\ sel' = sel /\ Len(args') = word[t]
      /\ \A k \in 1 .. word[t] : args'[k] = <<t, k>>
      /\ regs' = [regs EXCEPT ![Reg(t)] = args']
  BY DataTaken
<1>2. /\ pc'[t] \in {"dc0", "unlock"} /\ word'[t] = 1
      /\ \/ pc'[t] = "dc0" /\ at'[t] = at[t] + 1
         \/ pc'[t] = "unlock" /\ at'[t] = at[t]
  BY EndAccessInv
<1>3. Inv(t) /\ lock = t /\ at[t] \in 1 .. 3 /\ Reg(t) \in Registers
  BY RegFacts DEF IndInv, TypeOK, Inv, Busy
<1>4. \A r \in Registers : r = Reg(t) => Whole(t, r)'
  <2>1. SUFFICES ASSUME NEW r \in Registers, r = Reg(t) PROVE Whole(t, r)'
    OBVIOUS
  <2>2. regs'[r] = args'
    BY <1>1, <1>3, <2>1 DEF IndInv, TypeOK
  <2>3. Len(regs'[r]) = Args(r) /\ \A k \in 1 .. Args(r) : regs'[r][k] = <<t, k>>
    BY <1>1, <2>1, <2>2
  <2> QED BY <2>3 DEF Whole
<1>5. \A r \in Registers \ {Reg(t)} : Whole(t, r) => Whole(t, r)'
  BY <1>1 DEF Whole, IndInv, TypeOK
<1>6. Window(t)'
  <2>1. SUFFICES ASSUME Role[t] = "update", pc'[t] = "dc0", ~failed[t], at'[t] = at[t] + 1
                 PROVE  /\ at'[t] >= 2 => Whole(t, "COLUMN")'
                        /\ at'[t] >= 3 => Whole(t, "PAGE")'
    BY <1>2 DEF Window, Accessing
  <2>2. /\ at[t] = 1 => Reg(t) = "COLUMN"
        /\ at[t] = 2 => Reg(t) = "PAGE"
        /\ at[t] = 3 => Reg(t) = "MEMORY"
    BY <2>1, UpdateProgram DEF Reg
  <2>3. /\ at[t] >= 2 => Whole(t, "COLUMN")
        /\ at[t] >= 3 => Whole(t, "PAGE")
    BY <1>3, <2>1 DEF Inv, Window, Accessing
  <2>4. CASE at[t] = 1
    BY <1>4, <2>1, <2>2, <2>4 DEF Registers
  <2>5. CASE at[t] = 2
    BY <1>4, <1>5, <2>1, <2>2, <2>3, <2>5 DEF Registers
  <2>6. CASE at[t] = 3
    BY <1>5, <2>1, <2>2, <2>3, <2>6 DEF Registers
  <2> QED BY <1>3, <2>4, <2>5, <2>6
<1> QED BY <1>2, <1>3, <1>6 DEF Inv, Busy, Wire, Answer

LEMMA DataKeepsInv ==
  ASSUME IndInv, AllLocked, NEW t \in Threads, SendData(t)
  PROVE  \A u \in Threads : Inv(u)'
<1> USE DEF chipVars
<1>1. /\ pc[t] = "send1" /\ ~Reads(Role[t]) /\ Busy(t) /\ lock = t
      /\ WireLevel(1) = 1 /\ TakeData(<<t, word[t]>>) /\ NextWord(t)
      /\ UNCHANGED <<interface, lock, failed, dc, got>>
      /\ word[t] \in 1 .. 2 /\ word[t] <= Args(Reg(t)) /\ Args(Reg(t)) \in 0 .. 2
  BY RegFacts, ArgsFacts DEF SendData, IndInv, TypeOK, Inv, Wire, Busy
<1>2. CASE word[t] = Args(Reg(t))
  <2>1. EndAccess(t)
    BY <1>1, <1>2 DEF NextWord
  <2>2. Inv(t)'
    BY <1>1, <1>2, <2>1, DataEndInv
  <2> QED BY <1>1, <2>1, <2>2, EndAccessInv, OwnStep
<1>3. CASE word[t] < Args(Reg(t))
  <2>1. /\ word' = [word EXCEPT ![t] = word[t] + 1] /\ UNCHANGED <<pc, at>>
        /\ word \in [Threads -> 1 .. 2]
    BY <1>1, <1>3 DEF NextWord, IndInv, TypeOK
  <2>2. /\ sel' = sel /\ regs' = regs /\ Len(args') = word[t]
        /\ \A k \in 1 .. word[t] : args'[k] = <<t, k>>
    BY <1>1, <1>3, DataTaken
  <2>3. /\ word'[t] = word[t] + 1 /\ Reg(t)' = Reg(t)
    BY <2>1 DEF Reg
  <2>4. Sent(t)' /\ word'[t] <= Args(Reg(t))'
    <3>1. Args(Reg(t))' = Args(Reg(t))
      BY <2>3 DEF Args
    <3>2. word'[t] - 1 = word[t]
      BY <1>1, <2>3
    <3>3. Sent(t)'
      BY <2>2, <3>2 DEF Sent
    <3> QED BY <1>1, <1>3, <2>3, <3>1, <3>3
  <2>5. Inv(t)'
    BY <1>1, <2>1, <2>2, <2>3, <2>4
    DEF IndInv, Inv, Busy, Wire, WireLevel, Window, Answer, Accessing, Whole
  <2> QED BY <1>1, <2>1, <2>5, OwnStep
<1> QED BY <1>1, <1>2, <1>3

LEMMA ReadKeepsInv ==
  ASSUME IndInv, AllLocked, NEW t \in Threads, ReceiveData(t)
  PROVE  \A u \in Threads : Inv(u)'
<1> USE DEF chipVars
<1>1. /\ pc[t] = "send1" /\ Reads(Role[t]) /\ Busy(t) /\ lock = t /\ WireLevel(1) = 1
      /\ sel = Reg(t) /\ word[t] = 1 /\ NextWord(t)
      /\ UNCHANGED <<lock, failed, dc, sel, args, regs>>
  <2>1. word[t] \in 1 .. 2 /\ word[t] <= Args(Reg(t))
    BY DEF ReceiveData, IndInv, TypeOK, Inv, Wire
  <2>2. Args(Reg(t)) = 1
    BY ReadProgram DEF ReceiveData, IndInv, Args
  <2> QED BY <2>1, <2>2 DEF ReceiveData, IndInv, Inv, Wire, Busy
<1>2. Args(Reg(t)) = 1 /\ Role[t] # "update" /\ at[t] = 1 /\ Len(Accesses(t)) = 1
  BY <1>1, ReadProgram DEF IndInv, Args
<1>3. EndAccess(t)
  BY <1>1, <1>2 DEF NextWord
<1>4. pc'[t] = "unlock" /\ word'[t] = 1 /\ at'[t] = at[t] /\ Reg(t)' = Reg(t)
  <2>1. pc'[t] = "unlock" /\ at' = at /\ word'[t] = 1
    BY <1>2, <1>3 DEF EndAccess, AllLocked, IndInv, TypeOK
  <2> QED BY <2>1 DEF Reg
<1>5. got'[t] = Reg(t)
  BY <1>1 DEF ReceiveData, IndInv, TypeOK
<1>6. Inv(t)'
  BY <1>1, <1>4, <1>5 DEF Inv, Busy, Wire, Window, Answer, Accessing
<1> QED BY <1>1, <1>3, <1>6, EndAccessInv, OwnStep

LEMMA ReadAtOnceKeepsInv ==
  ASSUME IndInv, AllLocked, NEW t \in Threads, ReadAtOnce(t)
  PROVE  \A u \in Threads : Inv(u)'
<1>1. /\ pc[t] = "send0" /\ Reads(Role[t]) /\ EndAccess(t) /\ Busy(t) /\ lock = t
      /\ lock' = lock /\ failed' = failed
  BY DEF ReadAtOnce, OneMessage, IndInv, Inv, Busy
<1>2. at[t] = 1 /\ Reg(t) = "STATUS" /\ Len(Accesses(t)) = 1 /\ Role[t] # "update"
  BY <1>1, ReadProgram DEF IndInv
<1>3. pc'[t] = "unlock" /\ word'[t] = 1 /\ at' = at
  BY <1>1, <1>2 DEF EndAccess, AllLocked, IndInv, TypeOK
<1>4. got'[t] = Reg(t)'
  <2>1. got'[t] = Reg(t)
    BY <1>2 DEF ReadAtOnce, TakeCommand, IndInv, TypeOK
  <2> QED BY <1>3, <2>1 DEF Reg
<1>5. Inv(t)'
  BY <1>1, <1>2, <1>3, <1>4 DEF Inv, Busy, Wire, Window, Answer, Accessing
<1> QED BY <1>1, <1>5, EndAccessInv, OwnStep

LEMMA OtherKeepsInv ==
  ASSUME IndInv, AllLocked, NEW t \in Threads, MessageFails(t) \/ ReadRefused(t) \/ Unlock(t)
  PROVE  \A u \in Threads : Inv(u)'
<1> USE DEF chipVars
<1>1. /\ Inv(t) /\ failed \in [Threads -> BOOLEAN]
      /\ pc \in [Threads -> {"idle", "lock", "dc0", "send0", "dc1", "send1", "unlock"}]
      /\ at \in [Threads -> 1 .. 3]
  BY DEF IndInv, TypeOK
<1>2. CASE MessageFails(t) \/ ReadRefused(t)
  <2>1. Busy(t) /\ lock = t /\ EndAccess(t) /\ failed'[t] = TRUE /\ lock' = lock
    BY <1>1, <1>2 DEF MessageFails, ReadRefused, Inv, Busy
  <2>2. Inv(t)'
    <3>1. pc'[t] \in {"dc0", "unlock"} /\ word'[t] = 1
      BY <2>1, EndAccessInv
    <3> QED BY <2>1, <3>1 DEF Inv, Busy, Wire, Window, Answer
  <2> QED BY <2>1, <2>2, EndAccessInv, OwnStep
<1>3. CASE Unlock(t)
  <2>1. /\ pc[t] = "unlock" /\ pc' = [pc EXCEPT ![t] = "idle"]
        /\ at' = [at EXCEPT ![t] = 1] /\ word' = word
    BY <1>3 DEF Unlock
  <2>2. Busy(t)
    BY <2>1 DEF Busy
  <2>3. Inv(t)'
    BY <1>1, <2>1 DEF Inv, Busy, Wire, Window, Answer, Accessing
  <2> QED BY <1>1, <2>1, <2>2, <2>3, OwnStep
<1> QED BY <1>2, <1>3

LEMMA StepKeepsInv == AllLocked /\ IndInv /\ [Next]_vars => IndInv'
<1> SUFFICES ASSUME AllLocked, IndInv, [Next]_vars PROVE IndInv'
  OBVIOUS
<1>1. TypeOK'
  BY StepTypeOK DEF IndInv
<1>2. CASE Next
  <2>1. PICK t \in Threads : Call(t) \/ Lock(t) \/ Step(t)
    BY <1>2 DEF Next
  <2>2. \A u \in Threads : Inv(u)'
    BY <2>1, CallKeepsInv, CommandKeepsInv, DataKeepsInv, ReadKeepsInv, ReadAtOnceKeepsInv,
       OtherKeepsInv
    DEF Step
  <2> QED BY <1>1, <2>2 DEF IndInv
<1>3. CASE UNCHANGED vars
  <2>1. \A u \in Threads : Inv(u)'
    BY <1>3 DEF IndInv, vars, threadVars, chipVars, Inv, Busy, Wire, WireLevel, Sent, Window,
                Answer, Accessing, Whole, Reg
  <2> QED BY <1>1, <2>1 DEF IndInv
<1> QED BY <1>2, <1>3

LEMMA IndInvHolds == AllLocked /\ Spec => []IndInv
<1>1. Init => IndInv
  <2> SUFFICES ASSUME Init PROVE \A t \in Threads : Inv(t)
    BY InitTypeOK DEF IndInv
  <2> QED BY DEF Init, Inv, Busy, Wire, Window, Answer, Accessing
<1>2. AllLocked => []AllLocked
  <2>1. AllLocked => AllLocked'
    BY DEF AllLocked
  <2> QED BY <2>1, PTL
<1> QED BY <1>1, <1>2, StepKeepsInv, PTL DEF Spec

-----------------------------------------------------------------------------
\* No two threads are ever inside a register access at once, when every operation
\* is one that takes lcdreg_lock.
THEOREM AccessesExcluded == AllLocked /\ Spec => []AccessExclusive
<1>1. ASSUME IndInv PROVE AccessExclusive
  BY <1>1 DEF IndInv, Inv, Busy, AccessExclusive, Accessing
<1> QED BY <1>1, IndInvHolds, PTL

\* What a thread puts on the wire is taken for what it is: on 4-wire SPI the D/C line
\* still has the level it set when the message goes out, and the controller has the
\* register it named selected.
THEOREM WireAlwaysAgrees == AllLocked /\ Spec => []WireAgrees
<1>1. ASSUME IndInv PROVE WireAgrees
  BY <1>1 DEF IndInv, Inv, Wire, WireAgrees
<1> QED BY <1>1, IndInvHolds, PTL

\* The rows of an update whose accesses have not failed go into the window that
\* update set, whatever other threads write in between.
THEOREM UpdatesLand == AllLocked /\ Spec => []UpdateInOwnWindow
<1>1. ASSUME IndInv PROVE UpdateInOwnWindow
  <2> SUFFICES ASSUME NEW t \in Threads, Role[t] = "update", Accessing(t),
                      Reg(t) = "MEMORY", ~failed[t]
               PROVE  Whole(t, "COLUMN") /\ Whole(t, "PAGE")
    BY DEF UpdateInOwnWindow
  <2>1. at[t] \in 1 .. 3
    BY <1>1 DEF IndInv, TypeOK
  <2>2. at[t] = 3
    <3>1. at[t] # 1 /\ at[t] # 2
      BY UpdateProgram DEF Reg
    <3> QED BY <2>1, <3>1
  <2> QED BY <1>1, <2>2 DEF IndInv, Inv, Window
<1> QED BY <1>1, IndInvHolds, PTL

\* A read that did not fail was answered for the register it named.
THEOREM ReadsAnswered == AllLocked /\ Spec => []ReadAnswered
<1>1. ASSUME IndInv PROVE ReadAnswered
  BY <1>1 DEF IndInv, Inv, Answer, ReadAnswered
<1> QED BY <1>1, IndInvHolds, PTL

-----------------------------------------------------------------------------
(* The refinement.  lcdreg_lock and lcdreg_unlock begin and end a turn, the   *)
(* last word of a data phase is the abstract write, and every other step is   *)
(* a stutter: by IndInv the words a register then holds are all of the        *)
(* thread whose turn it is.                                                   *)

\* Who wrote a register is a matter of the words in it alone.
LEMMA SameWords ==
  ASSUME NEW r \in Registers, regs'[r] = regs[r]
  PROVE  WrittenBy(r)' = WrittenBy(r)
<1>1. \A t \in Threads : Whole(t, r)' <=> Whole(t, r)
  BY DEF Whole
<1>2. (CHOOSE t \in Threads : Whole(t, r))' = CHOOSE t \in Threads : Whole(t, r)
  BY DEF Whole
<1> QED BY <1>1, <1>2 DEF WrittenBy

\* A register that after a step holds the words of t, and has any, was written by t.
LEMMA WholeWritten ==
  ASSUME NEW t \in Threads, NEW r \in Registers, Whole(t, r)', Args(r) \in 1 .. 2
  PROVE  WrittenBy(r)' = t
<1>1. regs'[r] # <<>>
  <2>1. Len(regs'[r]) # 0
    BY DEF Whole
  <2> QED BY <2>1
<1>2. ASSUME NEW u \in Threads, Whole(u, r)' PROVE u = t
  <2>1. regs'[r][1] = <<t, 1>> /\ regs'[r][1] = <<u, 1>>
    <3>1. 1 \in 1 .. Args(r)
      OBVIOUS
    <3> QED BY <1>2, <3>1 DEF Whole
  <2> QED BY <2>1
<1>3. (CHOOSE u \in Threads : Whole(u, r))' = t
  BY <1>2
<1> QED BY <1>1, <1>3 DEF WrittenBy

\* A data word either leaves the registers alone or is the write of one register.
LEMMA DataWrites ==
  ASSUME AllLocked, IndInv, NEW t \in Threads, SendData(t)
  PROVE  UNCHANGED Serial!vars \/ Serial!Write(t, Reg(t))
<1>1. /\ pc[t] = "send1" /\ ~Reads(Role[t]) /\ lock = t /\ lock' = lock
      /\ TakeData(<<t, word[t]>>)
      /\ word[t] \in 1 .. 2 /\ word[t] <= Args(Reg(t)) /\ Reg(t) \in Registers
      /\ Args(Reg(t)) \in 0 .. 2
  BY RegFacts, ArgsFacts DEF SendData, IndInv, TypeOK, Inv, Wire, Busy
<1>2. CASE word[t] < Args(Reg(t))
  <2>1. regs' = regs
    BY <1>1, <1>2, DataTaken
  <2>2. \A r \in Registers : WrittenBy(r)' = WrittenBy(r)
    BY <2>1, SameWords
  <2> QED BY <1>1, <2>2 DEF Serial!vars
<1>3. CASE word[t] = Args(Reg(t))
  <2>1. /\ regs' = [regs EXCEPT ![Reg(t)] = args']
        /\ Len(args') = word[t] /\ \A k \in 1 .. word[t] : args'[k] = <<t, k>>
    BY <1>1, <1>3, DataTaken
  <2>2. \A r \in Registers \ {Reg(t)} : WrittenBy(r)' = WrittenBy(r)
    <3>1. \A r \in Registers \ {Reg(t)} : regs'[r] = regs[r]
      BY <2>1 DEF IndInv, TypeOK
    <3> QED BY <3>1, SameWords
  <2>3. \A r \in Registers : r = Reg(t) => WrittenBy(r)' = t
    <3>1. SUFFICES ASSUME NEW r \in Registers, r = Reg(t) PROVE WrittenBy(r)' = t
      OBVIOUS
    <3>2. regs'[r] = args'
      BY <2>1, <3>1 DEF IndInv, TypeOK
    <3>3. Whole(t, r)' /\ Args(r) \in 1 .. 2
      BY <1>1, <1>3, <2>1, <3>1, <3>2 DEF Whole
    <3> QED BY <3>3, WholeWritten
  <2>4. [r \in Registers |-> WrittenBy(r)]'
          = [[r \in Registers |-> WrittenBy(r)] EXCEPT ![Reg(t)] = t]
    BY <1>1, <2>2, <2>3
  <2> QED BY <1>1, <2>4 DEF Serial!Write
<1> QED BY <1>1, <1>2, <1>3

LEMMA StepRefines == AllLocked /\ IndInv /\ [Next]_vars => [Serial!Next]_(Serial!vars)
<1> SUFFICES ASSUME AllLocked, IndInv, [Next]_vars PROVE [Serial!Next]_(Serial!vars)
  OBVIOUS
<1>1. regs' = regs => \A r \in Registers : WrittenBy(r)' = WrittenBy(r)
  BY SameWords
<1>2. regs' = regs /\ lock' = lock => UNCHANGED Serial!vars
  BY <1>1 DEF Serial!vars
<1>3. CASE UNCHANGED vars
  BY <1>2, <1>3 DEF vars, chipVars
<1>4. ASSUME NEW t \in Threads, Lock(t) PROVE Serial!Begin(t)
  <2>1. lock = None /\ lock' = t /\ regs' = regs
    BY <1>4 DEF Lock, chipVars
  <2> QED BY <1>1, <2>1 DEF Serial!Begin
<1>5. ASSUME NEW t \in Threads, Unlock(t) PROVE Serial!End(t)
  <2>1. lock = t /\ lock' = None /\ regs' = regs
    BY <1>5 DEF Unlock, chipVars, IndInv, Inv, Busy
  <2> QED BY <1>1, <2>1 DEF Serial!End
<1>6. ASSUME NEW t \in Threads, Call(t) \/ SetCommand(t) \/ SetData(t) \/ ReceiveData(t)
                                \/ ReadAtOnce(t) \/ ReadRefused(t) \/ MessageFails(t)
      PROVE  UNCHANGED Serial!vars
  BY <1>2, <1>6
  DEF Call, SetCommand, SetData, SetDc, ReceiveData, ReadAtOnce, ReadRefused, MessageFails,
      TakeCommand, chipVars
<1>7. ASSUME NEW t \in Threads, SendCommand(t) PROVE UNCHANGED Serial!vars
  <2>1. TakeCommand(Reg(t)) /\ lock' = lock
    BY <1>7 DEF SendCommand, IndInv, Inv, Wire
  <2> QED BY <1>2, <2>1 DEF TakeCommand
<1>8. ASSUME NEW t \in Threads, SendData(t)
      PROVE  UNCHANGED Serial!vars \/ \E r \in Registers : Serial!Write(t, r)
  BY <1>8, DataWrites, RegFacts DEF IndInv
<1>9. CASE Next
  <2>1. PICK t \in Threads : Call(t) \/ Lock(t) \/ Step(t)
    BY <1>9 DEF Next
  <2> QED BY <2>1, <1>4, <1>5, <1>6, <1>7, <1>8 DEF Step, Serial!Next
<1> QED BY <1>3, <1>9

\* When every operation takes lcdreg_lock, the word-by-word protocol of commands, D/C
\* line and argument messages, of which any may fail, implements registers that one
\* thread at a time writes whole.
THEOREM AccessIsSerial == AllLocked /\ Spec => ImplementsSerial
<1>1. Init => Serial!Init
  <2>1. Init => \A r \in Registers : WrittenBy(r) = None
    BY DEF Init, WrittenBy
  <2> QED BY <2>1 DEF Init, Serial!Init
<1>2. AllLocked => []AllLocked
  <2>1. AllLocked => AllLocked'
    BY DEF AllLocked
  <2> QED BY <2>1, PTL
<1> QED BY <1>1, <1>2, StepRefines, IndInvHolds, PTL DEF Spec, ImplementsSerial, Serial!Spec
-----------------------------------------------------------------------------
(* What liveness rests on, for all operations, locking or not: whoever has    *)
(* the lock is inside an operation that gives it back, and an operation has   *)
(* fewer and fewer steps left.                                                *)
Pcs == {"idle", "lock", "dc0", "send0", "dc1", "send1", "unlock"}

LockInside ==
  /\ \A t \in Threads : pc[t] \in {"lock", "unlock"} => Locks(Role[t])
  /\ lock # None => /\ lock \in Threads /\ pc[lock] \in Pcs \ {"idle", "lock"}
                    /\ Locks(Role[lock])

\* Where the end of an access leaves its thread, whatever it is.
LEMMA EndAccessPc ==
  ASSUME TypeOK, NEW t \in Threads, EndAccess(t)
  PROVE  \/ pc' = [pc EXCEPT ![t] = "dc0"]
         \/ pc' = [pc EXCEPT ![t] = "unlock"] /\ Locks(Role[t])
         \/ pc' = [pc EXCEPT ![t] = "idle"] /\ ~Locks(Role[t])
  BY DEF EndAccess

\* What the steps past the lock do to the lock and to their thread.
LEMMA StepPc ==
  ASSUME TypeOK, NEW t \in Threads, Step(t)
  PROVE  \/ /\ pc[t] \in {"dc0", "send0", "dc1", "send1"} /\ lock' = lock
            /\ \/ \E q \in {"dc0", "send0", "dc1", "send1"} : pc' = [pc EXCEPT ![t] = q]
               \/ pc' = [pc EXCEPT ![t] = "unlock"] /\ Locks(Role[t])
               \/ pc' = [pc EXCEPT ![t] = "idle"] /\ ~Locks(Role[t])
         \/ pc[t] = "unlock" /\ lock' = None /\ pc' = [pc EXCEPT ![t] = "idle"]
<1>1. pc \in [Threads -> Pcs]  BY DEF TypeOK, Pcs
<1>2. CASE SetCommand(t) \/ SetData(t)
  BY <1>2 DEF SetCommand, SetData, SetDc
<1>3. CASE SendCommand(t)
  <2>1. CASE Args(Reg(t)) = 0
    BY <1>3, <2>1, EndAccessPc DEF SendCommand
  <2>2. CASE Args(Reg(t)) # 0
    BY <1>3, <2>2 DEF SendCommand
  <2> QED BY <2>1, <2>2
<1>4. CASE SendData(t) \/ ReceiveData(t)
  <2>1. pc[t] = "send1" /\ lock' = lock /\ NextWord(t)
    BY <1>4 DEF SendData, ReceiveData
  <2>2. CASE word[t] < Args(Reg(t))
    <3>1. pc' = [pc EXCEPT ![t] = "send1"]
      BY <1>1, <2>1, <2>2 DEF NextWord
    <3> QED BY <2>1, <3>1
  <2>3. CASE ~(word[t] < Args(Reg(t)))
    BY <2>1, <2>3, EndAccessPc DEF NextWord
  <2> QED BY <2>2, <2>3
<1>5. CASE MessageFails(t) \/ ReadAtOnce(t) \/ ReadRefused(t)
  BY <1>5, EndAccessPc DEF MessageFails, ReadAtOnce, ReadRefused
<1>6. CASE Unlock(t)
  BY <1>6 DEF Unlock
<1> QED BY <1>2, <1>3, <1>4, <1>5, <1>6 DEF Step

LEMMA LockInsideStep == TypeOK /\ LockInside /\ [Next]_vars => LockInside'
<1> SUFFICES ASSUME TypeOK, LockInside, [Next]_vars PROVE LockInside'
  OBVIOUS
<1>1. pc \in [Threads -> Pcs] /\ lock \in Threads \cup {None} /\ None \notin Threads
  BY ThreadAssumption DEF TypeOK, Pcs
<1>2. ASSUME NEW t \in Threads, Call(t) PROVE LockInside'
  <2>1. /\ pc[t] = "idle" /\ lock' = lock
        /\ pc' = [pc EXCEPT ![t] = IF Locks(Role[t]) THEN "lock" ELSE "dc0"]
    BY <1>2 DEF Call
  <2>2. lock # t  BY <1>1, <2>1 DEF LockInside
  <2> QED BY <1>1, <2>1, <2>2 DEF LockInside, Pcs
<1>3. ASSUME NEW t \in Threads, Lock(t) PROVE LockInside'
  <2>1. pc[t] = "lock" /\ lock' = t /\ pc' = [pc EXCEPT ![t] = "dc0"]
    BY <1>3 DEF Lock
  <2> QED BY <1>1, <2>1 DEF LockInside, Pcs
<1>4. ASSUME NEW t \in Threads, Step(t) PROVE LockInside'
  <2>1. CASE pc[t] = "unlock" /\ lock' = None /\ pc' = [pc EXCEPT ![t] = "idle"]
    BY <1>1, <2>1 DEF LockInside, Pcs
  <2>2. ASSUME lock' = lock,
               \/ \E q \in {"dc0", "send0", "dc1", "send1"} : pc' = [pc EXCEPT ![t] = q]
               \/ pc' = [pc EXCEPT ![t] = "unlock"] /\ Locks(Role[t])
               \/ pc' = [pc EXCEPT ![t] = "idle"] /\ ~Locks(Role[t])
        PROVE  LockInside'
    BY <1>1, <2>2 DEF LockInside, Pcs
  <2> QED BY <1>4, <2>1, <2>2, StepPc
<1>5. CASE UNCHANGED vars
  BY <1>5 DEF vars, threadVars, LockInside, Pcs
<1> QED BY <1>2, <1>3, <1>4, <1>5 DEF Next

LEMMA LockInsideHolds == Spec => [](TypeOK /\ LockInside)
<1>1. Init => LockInside
  BY DEF Init, LockInside
<1> QED BY <1>1, InitTypeOK, StepTypeOK, LockInsideStep, PTL DEF Spec

\* Thread t has a step it need not wait for: the guards of Lock and Step.
CanGo(t) == Accessing(t) \/ pc[t] = "unlock" \/ (pc[t] = "lock" /\ lock = None)

\* The worker, the console, the backlight and debugfs never all wait for reg->lock:
\* whoever holds it is inside an operation, whatever failed there, and lets it go.
NotStuck == (\E t \in Threads : pc[t] # "idle") => \E t \in Threads : CanGo(t)

\* Deadlock freedom: while any thread is in an operation, some thread has a step it need
\* not wait for.  It needs no lock discipline of the operations: ssd1306_blank may be one.
THEOREM NeverStuck == Spec => []NotStuck
<1>1. ASSUME TypeOK, LockInside PROVE NotStuck
  <2> SUFFICES ASSUME NEW t \in Threads, pc[t] # "idle" PROVE \E u \in Threads : CanGo(u)
    BY DEF NotStuck
  <2>1. pc[t] \in Pcs  BY <1>1 DEF TypeOK, Pcs
  <2>2. CASE lock = None
    <3>1. CanGo(t)  BY <2>1, <2>2 DEF CanGo, Accessing, Pcs
    <3> QED BY <3>1
  <2>3. CASE lock # None
    <3>1. lock \in Threads /\ pc[lock] \in Pcs \ {"idle", "lock"}
      BY <1>1, <2>3 DEF LockInside
    <3>2. CanGo(lock)  BY <3>1 DEF CanGo, Accessing, Pcs
    <3> QED BY <3>1, <3>2
  <2> QED BY <2>2, <2>3
<1> QED BY <1>1, LockInsideHolds, PTL

\* The most steps t can still need: six for each access, one for the lock.
StepsLeft(t) ==
  IF pc[t] = "idle" THEN 0
  ELSE (Len(Accesses(t)) - at[t]) * 6 + CASE pc[t] = "lock"   -> 7
                                          [] pc[t] = "dc0"    -> 6
                                          [] pc[t] = "send0"  -> 5
                                          [] pc[t] = "dc1"    -> 4
                                          [] pc[t] = "send1"  -> 4 - word[t]
                                          [] pc[t] = "unlock" -> 1

\* An operation ends after a number of steps that is known when it begins: each step
\* of a thread, also one at which a message fails, brings it nearer the end, and no
\* step of another thread takes it back.
NearerEnd ==
  [][\A t \in Threads : pc[t] # "idle" =>
       /\ StepsLeft(t)' \in 0 .. StepsLeft(t)
       /\ Lock(t) \/ Step(t) => StepsLeft(t)' < StepsLeft(t)]_vars

\* How a step moves its own thread: on in an access, to the next one, or out.
LEMMA OwnMove ==
  ASSUME TypeOK, NEW t \in Threads, Step(t)
  PROVE  \/ /\ at' = at /\ word' = word
            /\ \/ pc[t] = "dc0" /\ pc'[t] = "send0"
               \/ pc[t] = "send0" /\ pc'[t] = "dc1"
               \/ pc[t] = "dc1" /\ pc'[t] = "send1"
         \/ /\ pc[t] = "send1" /\ pc'[t] = "send1" /\ at' = at
            /\ word[t] = 1 /\ word'[t] = 2
         \/ /\ pc[t] \in {"dc0", "send0", "send1"} /\ word'[t] = 1
            /\ \/ pc'[t] = "dc0" /\ at[t] < Len(Accesses(t)) /\ at'[t] = at[t] + 1
               \/ pc'[t] = "unlock" /\ at' = at
               \/ pc'[t] = "idle"
         \/ pc[t] = "unlock" /\ pc'[t] = "idle"
<1>1. /\ pc \in [Threads -> Pcs] /\ at \in [Threads -> 1 .. 3]
      /\ word \in [Threads -> 1 .. 2]
  BY DEF TypeOK, Pcs
<1>2. ASSUME EndAccess(t)
      PROVE  /\ word'[t] = 1
             /\ \/ pc'[t] = "dc0" /\ at[t] < Len(Accesses(t)) /\ at'[t] = at[t] + 1
                \/ pc'[t] = "unlock" /\ at' = at
                \/ pc'[t] = "idle"
  <2> DEFINE n == Len(Accesses(t))
  <2>1. /\ word' = [word EXCEPT ![t] = 1]
        /\ \/ at[t] < n /\ at' = [at EXCEPT ![t] = at[t] + 1] /\ pc' = [pc EXCEPT ![t] = "dc0"]
           \/ pc' = [pc EXCEPT ![t] = "unlock"] /\ at' = at
           \/ pc' = [pc EXCEPT ![t] = "idle"]
    BY <1>2 DEF EndAccess
  <2> HIDE DEF n
  <2>2. /\ word'[t] = 1
        /\ \/ pc'[t] = "dc0" /\ at[t] < n /\ at'[t] = at[t] + 1
           \/ pc'[t] = "unlock" /\ at' = at
           \/ pc'[t] = "idle"
    BY <1>1, <2>1
  <2> QED BY <2>2 DEF n
<1>3. CASE SetCommand(t) \/ SetData(t)
  BY <1>1, <1>3 DEF SetCommand, SetData, SetDc
<1>4. CASE SendCommand(t)
  <2>1. CASE Args(Reg(t)) = 0
    BY <1>2, <1>4, <2>1 DEF SendCommand
  <2>2. CASE Args(Reg(t)) # 0
    BY <1>1, <1>4, <2>2 DEF SendCommand
  <2> QED BY <2>1, <2>2
<1>5. CASE SendData(t) \/ ReceiveData(t)
  <2>1. pc[t] = "send1" /\ NextWord(t)
    BY <1>5 DEF SendData, ReceiveData
  <2>2. CASE word[t] < Args(Reg(t))
    <3>1. Args(Reg(t)) \in 0 .. 2
      BY RegFacts, ArgsFacts
    <3>2. word' = [word EXCEPT ![t] = word[t] + 1] /\ pc' = pc /\ at' = at
      BY <2>1, <2>2 DEF NextWord
    <3>3. word[t] = 1
      BY <1>1, <2>2, <3>1
    <3> QED BY <1>1, <2>1, <3>2, <3>3
  <2>3. CASE ~(word[t] < Args(Reg(t)))
    BY <1>2, <2>1, <2>3 DEF NextWord
  <2> QED BY <2>2, <2>3
<1>6. CASE MessageFails(t) \/ ReadAtOnce(t) \/ ReadRefused(t)
  BY <1>2, <1>6 DEF MessageFails, ReadAtOnce, ReadRefused
<1>7. CASE Unlock(t)
  BY <1>1, <1>7 DEF Unlock
<1> QED BY <1>3, <1>4, <1>5, <1>6, <1>7 DEF Step

\* No step moves another thread.
LEMMA OthersStay ==
  ASSUME TypeOK, NEW t \in Threads, NEW u \in Threads, u # t, Call(t) \/ Lock(t) \/ Step(t)
  PROVE  pc'[u] = pc[u] /\ at'[u] = at[u] /\ word'[u] = word[u]
<1>1. pc \in [Threads -> Pcs] /\ at \in [Threads -> 1 .. 3] /\ word \in [Threads -> 1 .. 2]
  BY DEF TypeOK, Pcs
<1>2. EndAccess(t) => pc'[u] = pc[u] /\ at'[u] = at[u] /\ word'[u] = word[u]
  BY <1>1 DEF EndAccess
<1>3. NextWord(t) => pc'[u] = pc[u] /\ at'[u] = at[u] /\ word'[u] = word[u]
  BY <1>1, <1>2 DEF NextWord
<1>4. CASE Call(t) \/ Lock(t) \/ Unlock(t)
  BY <1>1, <1>4 DEF Call, Lock, Unlock
<1>5. CASE SetCommand(t) \/ SetData(t)
  BY <1>1, <1>5 DEF SetCommand, SetData, SetDc
<1>6. CASE \/ SendCommand(t) \/ SendData(t) \/ ReceiveData(t)
           \/ ReadAtOnce(t) \/ ReadRefused(t) \/ MessageFails(t)
  BY <1>1, <1>2, <1>3, <1>6
  DEF SendCommand, SendData, ReceiveData, ReadAtOnce, ReadRefused, MessageFails
<1> QED BY <1>4, <1>5, <1>6 DEF Step

\* StepsLeft is a number; the accesses of an operation do not change.
LEMMA StepsLeftIs ==
  ASSUME TypeOK, NEW t \in Threads
  PROVE  \E rest \in Nat :
           /\ rest = Len(Accesses(t)) - at[t]
           /\ StepsLeft(t) = IF pc[t] = "idle" THEN 0
                             ELSE rest * 6 + CASE pc[t] = "lock"   -> 7
                                               [] pc[t] = "dc0"    -> 6
                                               [] pc[t] = "send0"  -> 5
                                               [] pc[t] = "dc1"    -> 4
                                               [] pc[t] = "send1"  -> 4 - word[t]
                                               [] pc[t] = "unlock" -> 1
<1> DEFINE n == Len(Accesses(t))
<1>1. n \in 1 .. 3  BY AccessFacts
<1>2. at[t] \in 1 .. 3 /\ at[t] <= n  BY DEF TypeOK
<1>3. n - at[t] \in Nat
  <2> HIDE DEF n
  <2> QED BY <1>1, <1>2
<1> QED BY <1>3 DEF StepsLeft

\* A step of its own takes a thread nearer the end.
LEMMA OwnStepCloser ==
  ASSUME TypeOK, TypeOK', NEW t \in Threads, Lock(t) \/ Step(t)
  PROVE  StepsLeft(t)' \in 0 .. StepsLeft(t) /\ StepsLeft(t)' < StepsLeft(t)
<1> DEFINE n == Len(Accesses(t))
           part(p, w) == CASE p = "lock"   -> 7
                           [] p = "dc0"    -> 6
                           [] p = "send0"  -> 5
                           [] p = "dc1"    -> 4
                           [] p = "send1"  -> 4 - w
                           [] p = "unlock" -> 1
           left(p, a, w) == IF p = "idle" THEN 0 ELSE (n - a) * 6 + part(p, w)
<1>1. n \in 1 .. 3  BY AccessFacts
<1>2. /\ pc \in [Threads -> Pcs] /\ at \in [Threads -> 1 .. 3]
      /\ word \in [Threads -> 1 .. 2] /\ at[t] <= n
  BY DEF TypeOK, Pcs
<1>3. pc'[t] \in Pcs /\ at'[t] \in 1 .. 3 /\ word'[t] \in 1 .. 2 /\ at'[t] <= n
  BY DEF TypeOK, Pcs, Accesses
<1>4. /\ StepsLeft(t) = left(pc[t], at[t], word[t])
      /\ StepsLeft(t)' = left(pc'[t], at'[t], word'[t])
  BY DEF StepsLeft, Accesses
<1>5. left(pc'[t], at'[t], word'[t]) \in 0 .. left(pc[t], at[t], word[t])
      /\ left(pc'[t], at'[t], word'[t]) < left(pc[t], at[t], word[t])
  <2>1. CASE Lock(t)
    <3>1. pc[t] = "lock" /\ pc'[t] = "dc0" /\ at'[t] = at[t] /\ word'[t] = word[t]
      BY <1>2, <2>1 DEF Lock
    <3> HIDE DEF n
    <3> QED BY <1>1, <1>2, <3>1
  <2>2. CASE Step(t)
    <3> DEFINE Move ==
          \/ /\ at' = at /\ word' = word
             /\ \/ pc[t] = "dc0" /\ pc'[t] = "send0"
                \/ pc[t] = "send0" /\ pc'[t] = "dc1"
                \/ pc[t] = "dc1" /\ pc'[t] = "send1"
          \/ /\ pc[t] = "send1" /\ pc'[t] = "send1" /\ at' = at
             /\ word[t] = 1 /\ word'[t] = 2
          \/ /\ pc[t] \in {"dc0", "send0", "send1"} /\ word'[t] = 1
             /\ \/ pc'[t] = "dc0" /\ at[t] < n /\ at'[t] = at[t] + 1
                \/ pc'[t] = "unlock" /\ at' = at
                \/ pc'[t] = "idle"
          \/ pc[t] = "unlock" /\ pc'[t] = "idle"
    <3>1. Move  BY <2>2, OwnMove
    <3> HIDE DEF n
    <3> QED BY <1>1, <1>2, <1>3, <3>1
  <2> QED BY <2>1, <2>2
<1> QED BY <1>4, <1>5

\* An operation ends after a number of steps known when it begins: each step of a thread,
\* also one at which a message fails, lowers StepsLeft, and no step of another raises it.
THEOREM AlwaysNearer == Spec => NearerEnd
<1>1. ASSUME TypeOK, TypeOK', [Next]_vars, NEW t \in Threads, pc[t] # "idle"
      PROVE  /\ StepsLeft(t)' \in 0 .. StepsLeft(t)
             /\ Lock(t) \/ Step(t) => StepsLeft(t)' < StepsLeft(t)
  <2>1. CASE Lock(t) \/ Step(t)
    BY <1>1, <2>1, OwnStepCloser
  <2>2. CASE ~(Lock(t) \/ Step(t))
    <3>1. pc'[t] = pc[t] /\ at'[t] = at[t] /\ word'[t] = word[t]
      <4>1. CASE UNCHANGED vars
        BY <4>1 DEF vars, threadVars
      <4>2. ASSUME NEW u \in Threads, Call(u) \/ Lock(u) \/ Step(u)
            PROVE  pc'[t] = pc[t] /\ at'[t] = at[t] /\ word'[t] = word[t]
        <5>1. ~Call(t)  BY <1>1 DEF Call
        <5>2. t # u  BY <2>2, <4>2, <5>1
        <5> QED BY <1>1, <4>2, <5>2, OthersStay
      <4> QED BY <1>1, <4>1, <4>2 DEF Next
    <3>2. StepsLeft(t)' = StepsLeft(t)
      BY <3>1 DEF StepsLeft, Accesses
    <3>3. StepsLeft(t) \in Nat
      <4>1. pc[t] \in Pcs /\ word[t] \in 1 .. 2  BY <1>1 DEF TypeOK, Pcs
      <4> QED BY <1>1, <4>1, StepsLeftIs DEF Pcs
    <3> QED BY <2>2, <3>2, <3>3
  <2> QED BY <2>1, <2>2
<1>2. TypeOK /\ TypeOK' /\ [Next]_vars
        => [\A t \in Threads : pc[t] # "idle" =>
              /\ StepsLeft(t)' \in 0 .. StepsLeft(t)
              /\ Lock(t) \/ Step(t) => StepsLeft(t)' < StepsLeft(t)]_vars
  BY <1>1
<1> QED BY <1>2, InitTypeOK, StepTypeOK, PTL DEF Spec, NearerEnd
=============================================================================
