------------------------------ MODULE SeqLemmas ------------------------------
(***************************************************************************)
(* What FlattenSeq of the community modules returns, for proofs about the  *)
(* modules that cut words into bytes and put them in a row.                *)
(*                                                                         *)
(* FlattenSeq is a recursive function, so its facts need induction.  That  *)
(* is done here with sets: a set of numbers that has 0 and the next of     *)
(* each of its members has them all, because a set of numbers that is not  *)
(* empty has a least member.                                               *)
(***************************************************************************)
EXTENDS Integers, SequencesExt, SequenceTheorems, WellFoundedInduction, TLAPS

LEMMA LeastMember ==
  ASSUME NEW T \in SUBSET Nat, T # {}
  PROVE  \E x \in T : \A y \in T : ~(y < x)
<1>1. IsWellFoundedOn(OpToRel(<, Nat), Nat)
  BY NatLessThanWellFounded, Zenon
<1>2. PICK x \in T : \A y \in T : ~(<<y, x>> \in OpToRel(<, Nat))
  BY <1>1, WFMin, Zenon
<1>3. \A y \in T : y < x => <<y, x>> \in OpToRel(<, Nat)
  BY Zenon DEF OpToRel
<1> QED
  BY <1>2, <1>3, Zenon

LEMMA Induction ==
  ASSUME NEW N \in SUBSET Nat, 0 \in N, \A n \in N : n + 1 \in N
  PROVE  N = Nat
<1> SUFFICES ASSUME Nat \ N # {} PROVE FALSE
  OBVIOUS
<1>1. PICK x \in Nat \ N : \A y \in Nat \ N : ~(y < x)
  BY LeastMember
<1>2. x # 0 /\ x - 1 \in Nat /\ x - 1 < x
  BY <1>1
<1>3. x - 1 \in N
  BY <1>1, <1>2
<1> QED
  BY <1>1, <1>3

\* A function on 1 .. n is a sequence.
LEMMA Listed ==
  ASSUME NEW S, NEW n \in Nat, NEW s, s = [i \in 1 .. n |-> s[i]], \A i \in 1 .. n : s[i] \in S
  PROVE  s \in Seq(S) /\ Len(s) = n
<1>1. [i \in 1 .. n |-> s[i]] \in Seq(S) /\ Len([i \in 1 .. n |-> s[i]]) = n
  OBVIOUS
<1> QED
  BY <1>1, Zenon

\* One sequence behind the other.
LEMMA ConcatIs ==
  ASSUME NEW S, NEW a \in Seq(S), NEW b \in Seq(S)
  PROVE  /\ a \o b \in Seq(S) /\ Len(a \o b) = Len(a) + Len(b)
         /\ \A i \in 1 .. Len(a) : (a \o b)[i] = a[i]
         /\ \A i \in 1 .. Len(b) : (a \o b)[Len(a) + i] = b[i]
<1>1. /\ a \o b \in Seq(S) /\ Len(a \o b) = Len(a) + Len(b)
      /\ \A m \in 1 .. Len(a) + Len(b) :
           (a \o b)[m] = IF m <= Len(a) THEN a[m] ELSE b[m - Len(a)]
  BY ConcatProperties, Zenon
<1>2. Len(a) \in Nat /\ Len(b) \in Nat
  BY LenProperties
<1>3. \A i \in 1 .. Len(a) : i \in 1 .. Len(a) + Len(b) /\ i <= Len(a)
  BY <1>2
<1>4. \A i \in 1 .. Len(b) : /\ Len(a) + i \in 1 .. Len(a) + Len(b)
                            /\ ~(Len(a) + i <= Len(a)) /\ Len(a) + i - Len(a) = i
  BY <1>2
<1> QED
  BY <1>1, <1>3, <1>4

Joined(S, a, b, c) ==
  /\ c \in Seq(S) /\ Len(c) = Len(a) + Len(b)
  /\ \A i \in 1 .. Len(a) : c[i] = a[i]
  /\ \A i \in 1 .. Len(b) : c[Len(a) + i] = b[i]

LEMMA JoinedIs == \A S : \A a, b \in Seq(S) : Joined(S, a, b, a \o b)
BY ConcatIs DEF Joined

LEMMA Assoc ==
  ASSUME NEW S, NEW a \in Seq(S), NEW b \in Seq(S), NEW c \in Seq(S)
  PROVE  (a \o b) \o c = a \o (b \o c)
BY ConcatAssociative

LEMMA AppendBehind ==
  ASSUME NEW S, NEW a \in Seq(S), NEW b \in Seq(S), NEW x \in S
  PROVE  a \o b \in Seq(S) /\ a \o Append(b, x) = Append(a \o b, x)
<1>1. PICK c \in Seq(S) : c = <<x>>
  <2>1. <<x>> \in Seq(S)  OBVIOUS
  <2> QED
    BY <2>1
<1>2. (a \o b) \o c = a \o (b \o c)  BY Assoc, SMTT(30)
<1>3. a \o b \in Seq(S)  BY ConcatProperties
<1>4. Append(b, x) = b \o c /\ Append(a \o b, x) = (a \o b) \o c
  BY <1>1, <1>3, AppendIsConcat
<1> QED
  BY <1>2, <1>3, <1>4

LEMMA RowBehind ==
  ASSUME NEW S, NEW a \in Seq(Seq(S)), NEW b \in Seq(Seq(S)), NEW x \in Seq(S)
  PROVE  a \o b \in Seq(Seq(S)) /\ a \o Append(b, x) = Append(a \o b, x)
BY AppendBehind

-----------------------------------------------------------------------------
\* The first i of the sequences s in a row: the local function of FlattenSeq.
InRow(s) ==
  CHOOSE f : f = [i \in 1 .. Len(s) |-> IF i = 1 THEN s[i] ELSE f[i - 1] \o s[i]]

LEMMA InRowIs ==
  ASSUME NEW s, Len(s) \in Nat
  PROVE  InRow(s) = [i \in 1 .. Len(s) |-> IF i = 1 THEN s[i] ELSE InRow(s)[i - 1] \o s[i]]
<1> DEFINE Row(n, f) == f = [i \in 1 .. n |-> IF i = 1 THEN s[i] ELSE f[i - 1] \o s[i]]
           N == {n \in Nat : \E f : Row(n, f)}
<1>1. 0 \in N
  <2>1. Row(0, <<>>)  OBVIOUS
  <2> QED
    BY <2>1
<1>2. ASSUME NEW n \in N PROVE n + 1 \in N
  <2>1. PICK f : Row(n, f)  OBVIOUS
  <2> DEFINE g == [i \in 1 .. n + 1 |->
                     IF i = n + 1 THEN (IF i = 1 THEN s[i] ELSE f[n] \o s[i]) ELSE f[i]]
             h == [i \in 1 .. n + 1 |-> IF i = 1 THEN s[i] ELSE g[i - 1] \o s[i]]
  <2>2. ASSUME NEW i \in 1 .. n + 1 PROVE g[i] = h[i]
    <3>1. CASE i = n + 1  BY <3>1
    <3>2. CASE i # n + 1
      <4>1. i \in 1 .. n /\ (i # 1 => i - 1 \in 1 .. n)  BY <3>2
      <4>2. g[i] = f[i] /\ (i # 1 => g[i - 1] = f[i - 1])  BY <4>1
      <4>3. f[i] = IF i = 1 THEN s[i] ELSE f[i - 1] \o s[i]  BY <4>1, <2>1
      <4> QED
        BY <4>2, <4>3
    <3> QED
      BY <3>1, <3>2
  <2>3. g = h
    <3>1. g = [i \in 1 .. n + 1 |-> g[i]] /\ h = [i \in 1 .. n + 1 |-> h[i]]  OBVIOUS
    <3> HIDE DEF g, h
    <3>2. [i \in 1 .. n + 1 |-> g[i]] = [i \in 1 .. n + 1 |-> h[i]]  BY <2>2
    <3> QED
      BY <3>1, <3>2
  <2> HIDE DEF g
  <2>4. Row(n + 1, g)  BY <2>3
  <2>5. \E f2 : Row(n + 1, f2)  BY <2>4, Zenon
  <2>6. n + 1 \in Nat  OBVIOUS
  <2> QED
    BY <2>5, <2>6, Zenon
<1>3. Len(s) \in N
  <2> HIDE DEF N
  <2>1. N \in SUBSET Nat  BY DEF N
  <2> QED
    BY <1>1, <1>2, <2>1, Induction
<1>4. \E f : Row(Len(s), f)
  BY <1>3
<1> QED
  BY <1>4, Zenon DEF InRow

LEMMA FlattenIs ==
  ASSUME NEW s
  PROVE  FlattenSeq(s) = IF Len(s) = 0 THEN s ELSE InRow(s)[Len(s)]
BY DEF FlattenSeq, InRow

LEMMA RowFirst ==
  ASSUME NEW s, Len(s) \in Nat \ {0}
  PROVE  InRow(s)[1] = s[1]
<1>1. PICK f : f = InRow(s)  OBVIOUS
<1>2. f = [i \in 1 .. Len(s) |-> IF i = 1 THEN s[i] ELSE f[i - 1] \o s[i]]
  BY <1>1, InRowIs, Zenon
<1>3. 1 \in 1 .. Len(s)  OBVIOUS
<1> QED
  BY <1>1, <1>2, <1>3

LEMMA RowNext ==
  ASSUME NEW s, Len(s) \in Nat, NEW n \in Nat \ {0}, n < Len(s)
  PROVE  InRow(s)[n + 1] = InRow(s)[n] \o s[n + 1]
<1>1. PICK f : f = InRow(s)  OBVIOUS
<1>2. f = [i \in 1 .. Len(s) |-> IF i = 1 THEN s[i] ELSE f[i - 1] \o s[i]]
  BY <1>1, InRowIs, Zenon
<1>3. n + 1 \in 1 .. Len(s) /\ n + 1 # 1 /\ (n + 1) - 1 = n  OBVIOUS
<1>4. f[n + 1] = f[(n + 1) - 1] \o s[n + 1]  BY <1>2, <1>3
<1> QED
  BY <1>1, <1>3, <1>4

\* One more sequence comes behind the others.
LEMMA FlattenAppend ==
  ASSUME NEW S, NEW s \in Seq(Seq(S)), NEW x \in Seq(S)
  PROVE  FlattenSeq(Append(s, x)) = FlattenSeq(s) \o x
<1> DEFINE t == Append(s, x)
           N == {n \in Nat : n \in 1 .. Len(s) => InRow(t)[n] = InRow(s)[n]}
<1>1. /\ Len(s) \in Nat /\ Len(t) = Len(s) + 1 /\ Len(t) \in Nat /\ t[Len(s) + 1] = x
      /\ \A i \in 1 .. Len(s) : t[i] = s[i]
  BY AppendProperties, LenProperties
<1> HIDE DEF t
<1>2. ASSUME NEW n \in N PROVE n + 1 \in N
  <2> SUFFICES ASSUME n + 1 \in 1 .. Len(s) PROVE InRow(t)[n + 1] = InRow(s)[n + 1]
    OBVIOUS
  <2>1. CASE n = 0
    <3>1. InRow(t)[1] = t[1] /\ InRow(s)[1] = s[1]  BY <1>1, <2>1, RowFirst
    <3> QED
      BY <1>1, <2>1, <3>1
  <2>2. CASE n # 0
    <3>1. n \in Nat \ {0} /\ n < Len(s) /\ n < Len(t) /\ n \in 1 .. Len(s)  BY <1>1, <2>2
    <3>2. InRow(t)[n + 1] = InRow(t)[n] \o t[n + 1]  BY <1>1, <3>1, RowNext, Zenon
    <3>3. InRow(s)[n + 1] = InRow(s)[n] \o s[n + 1]  BY <1>1, <3>1, RowNext, Zenon
    <3> QED
      BY <1>1, <3>1, <3>2, <3>3
  <2> QED
    BY <2>1, <2>2
<1>3. N = Nat
  <2>1. N \in SUBSET Nat /\ 0 \in N  OBVIOUS
  <2> HIDE DEF N
  <2> QED
    BY <1>2, <2>1, Induction
<1>4. CASE Len(s) = 0
  <2>1. s = <<>> /\ <<>> \o x = x  BY <1>4, EmptySeq, ConcatEmptySeq
  <2>2. FlattenSeq(s) = <<>>  BY <1>4, <2>1, FlattenIs
  <2>3. FlattenSeq(t) = t[1]  BY <1>1, <1>4, FlattenIs, RowFirst
  <2> QED
    BY <1>1, <1>4, <2>1, <2>2, <2>3 DEF t
<1>5. CASE Len(s) # 0
  <2>1. Len(s) \in 1 .. Len(s) /\ Len(s) \in Nat \ {0} /\ Len(s) < Len(t)  BY <1>1, <1>5
  <2>2. InRow(t)[Len(s) + 1] = InRow(t)[Len(s)] \o t[Len(s) + 1]  BY <1>1, <2>1, RowNext, Zenon
  <2>3. InRow(t)[Len(s)] = InRow(s)[Len(s)]  BY <1>3, <2>1
  <2>4. FlattenSeq(t) = InRow(t)[Len(t)] /\ FlattenSeq(s) = InRow(s)[Len(s)]
    BY <1>1, <1>5, FlattenIs
  <2> QED
    BY <1>1, <2>2, <2>3, <2>4 DEF t
<1> QED
  BY <1>4, <1>5

LEMMA FlattenNone == FlattenSeq(<<>>) = <<>>
<1>1. Len(<<>>) = 0  BY EmptySeq
<1> QED
  BY <1>1, FlattenIs

\* Sequences in a row behind sequences in a row.
LEMMA FlattenConcat ==
  ASSUME NEW S, NEW a \in Seq(Seq(S)), NEW b \in Seq(Seq(S)),
         FlattenSeq(a) \in Seq(S)
  PROVE  FlattenSeq(b) \in Seq(S) /\ FlattenSeq(a \o b) = FlattenSeq(a) \o FlattenSeq(b)
<1> DEFINE Is(c) == /\ FlattenSeq(c) \in Seq(S)
                    /\ FlattenSeq(a \o c) = FlattenSeq(a) \o FlattenSeq(c)
           N == {n \in Nat : \A c \in Seq(Seq(S)) : Len(c) = n => Is(c)}
<1>1. 0 \in N
  <2>1. ASSUME NEW c \in Seq(Seq(S)), Len(c) = 0 PROVE Is(c)
    <3>1. c = <<>> /\ <<>> \in Seq(S)  BY <2>1, EmptySeq
    <3>2. a \o <<>> = a /\ FlattenSeq(a) \o <<>> = FlattenSeq(a)  BY ConcatEmptySeq
    <3> QED
      BY <3>1, <3>2, FlattenNone
  <2> QED
    BY <2>1
<1>2. ASSUME NEW n \in N PROVE n + 1 \in N
  <2>1. ASSUME NEW c \in Seq(Seq(S)), Len(c) = n + 1 PROVE Is(c)
    <3>1. c # <<>>  BY <2>1, EmptySeq
    <3>2. PICK d \in Seq(Seq(S)), x \in Seq(S) : c = Append(d, x)
      BY <3>1, SequenceEmptyOrAppend
    <3>3. Len(d) = n  BY <2>1, <3>2, AppendProperties, LenProperties
    <3>4. Is(d)  BY <3>3
    <3>5. a \o d \in Seq(Seq(S)) /\ a \o c = Append(a \o d, x)
      <4>1. a \o d \in Seq(Seq(S)) /\ a \o Append(d, x) = Append(a \o d, x)  BY RowBehind, SMTT(30)
      <4> QED
        BY <3>2, <4>1
    <3>6. FlattenSeq(c) = FlattenSeq(d) \o x  BY <3>2, FlattenAppend
    <3>7. FlattenSeq(a \o c) = (FlattenSeq(a) \o FlattenSeq(d)) \o x
      <4>1. FlattenSeq(Append(a \o d, x)) = FlattenSeq(a \o d) \o x  BY <3>5, FlattenAppend, Zenon
      <4> QED
        BY <3>4, <3>5, <4>1
    <3>8. /\ FlattenSeq(d) \o x \in Seq(S)
          /\ (FlattenSeq(a) \o FlattenSeq(d)) \o x = FlattenSeq(a) \o (FlattenSeq(d) \o x)
      BY <3>4, ConcatProperties, ConcatAssociative, SMTT(30)
    <3> QED
      BY <3>6, <3>7, <3>8
  <2> QED
    BY <2>1
<1>3. N = Nat
  <2>1. N \in SUBSET Nat  OBVIOUS
  <2> HIDE DEF N
  <2> QED
    BY <1>1, <1>2, <2>1, Induction
<1>4. Len(b) \in N  BY <1>3, LenProperties
<1> QED
  BY <1>4

LEMMA FlattenType ==
  ASSUME NEW S, NEW s \in Seq(Seq(S))
  PROVE  FlattenSeq(s) \in Seq(S)
<1>1. <<>> \in Seq(Seq(S)) /\ FlattenSeq(<<>>) \in Seq(S)  BY FlattenNone, EmptySeq
<1> QED
  BY <1>1, FlattenConcat

LEMMA FlattenOne ==
  ASSUME NEW S, NEW x \in Seq(S)
  PROVE  FlattenSeq(<<x>>) = x
<1>1. <<>> \in Seq(Seq(S)) /\ Append(<<>>, x) = <<x>>  BY EmptySeq
<1>2. FlattenSeq(Append(<<>>, x)) = <<>> \o x  BY <1>1, FlattenAppend, FlattenNone
<1> QED
  BY <1>1, <1>2, ConcatEmptySeq

LEMMA FlattenHead ==
  ASSUME NEW S, NEW s \in Seq(Seq(S)), s # <<>>
  PROVE  FlattenSeq(s) = Head(s) \o FlattenSeq(Tail(s))
<1>1. Head(s) \in Seq(S) /\ Tail(s) \in Seq(Seq(S)) /\ <<Head(s)>> \in Seq(Seq(S))
  BY HeadTailProperties
<1>2. s = <<Head(s)>> \o Tail(s)  OBVIOUS
<1>3. FlattenSeq(<<Head(s)>>) = Head(s)  BY <1>1, FlattenOne
<1> QED
  BY <1>1, <1>2, <1>3, FlattenConcat, ZenonT(30)

-----------------------------------------------------------------------------
\* Blocks of one length b in a row: element k of block i is element (i-1)*b + k.
LEMMA FlattenBlocks ==
  ASSUME NEW S, NEW s \in Seq(Seq(S)), NEW b \in Nat,
         \A i \in 1 .. Len(s) : Len(s[i]) = b
  PROVE  /\ FlattenSeq(s) \in Seq(S)
         /\ Len(FlattenSeq(s)) = Len(s) * b
         /\ \A i \in 1 .. Len(s) : \A k \in 1 .. b : FlattenSeq(s)[(i - 1) * b + k] = s[i][k]
<1> DEFINE Blocks(f, n) ==
             /\ f \in Seq(S) /\ Len(f) = n * b
             /\ \A i \in 1 .. n : \A k \in 1 .. b : f[(i - 1) * b + k] = s[i][k]
           N == {n \in Nat : n \in 1 .. Len(s) => Blocks(InRow(s)[n], n)}
<1>1. Len(s) \in Nat /\ \A i \in 1 .. Len(s) : s[i] \in Seq(S)
  BY LenProperties, ElementOfSeq
<1>2. 0 \in N  OBVIOUS
<1>3. ASSUME NEW n \in N PROVE n + 1 \in N
  <2> SUFFICES ASSUME n + 1 \in 1 .. Len(s) PROVE Blocks(InRow(s)[n + 1], n + 1)
    OBVIOUS
  <2>1. n \in Nat /\ s[n + 1] \in Seq(S) /\ Len(s[n + 1]) = b  BY <1>1
  <2>2. CASE n = 0
    <3>1. InRow(s)[1] = s[1]  BY <1>1, RowFirst
    <3>2. s[1] \in Seq(S) /\ Len(s[1]) = b  BY <2>1, <2>2
    <3>3. ASSUME NEW i \in 1 .. 1, NEW k \in 1 .. b PROVE (i - 1) * b + k = k /\ i = 1
      OBVIOUS
    <3>4. 1 * b = b /\ 0 + 1 = 1  OBVIOUS
    <3>5. Blocks(s[1], 1)  BY <3>2, <3>3, <3>4
    <3> QED
      BY <2>2, <3>1, <3>4, <3>5
  <2>3. CASE n # 0
    <3> DEFINE f == InRow(s)[n]
               g == InRow(s)[n + 1]
    <3>1. Blocks(f, n)
      <4>1. n \in 1 .. Len(s)  BY <1>1, <2>1, <2>3
      <4> QED
        BY <4>1, Zenon
    <3>2. g = f \o s[n + 1]
      <4>1. n \in Nat \ {0} /\ n < Len(s)  BY <1>1, <2>1, <2>3
      <4> QED
        BY <1>1, <4>1, RowNext
    <3> HIDE DEF f, g
    <3>a. f \in Seq(S) /\ Len(f) = n * b  BY <3>1
    <3>3. /\ g \in Seq(S) /\ Len(g) = n * b + b
          /\ \A m \in 1 .. n * b + b : g[m] = IF m <= n * b THEN f[m] ELSE s[n + 1][m - n * b]
      <4>1. PICK t \in Seq(S) : t = s[n + 1] /\ Len(t) = b  BY <2>1
      <4>2. PICK z \in Nat : z = n * b  BY <2>1
      <4>3. /\ f \o t \in Seq(S) /\ Len(f \o t) = Len(f) + Len(t)
            /\ \A m \in 1 .. Len(f) + Len(t) :
                 (f \o t)[m] = IF m <= Len(f) THEN f[m] ELSE t[m - Len(f)]
        BY <3>a, ConcatProperties, Zenon
      <4>4. Len(f) = z /\ g = f \o t  BY <3>a, <3>2, <4>1, <4>2
      <4> QED
        BY <4>1, <4>2, <4>3, <4>4, SMTT(30)
    <3>4. (n + 1) * b = n * b + b /\ n * b \in Nat  BY <2>1
    <3>5. ASSUME NEW i \in 1 .. n + 1, NEW k \in 1 .. b PROVE g[(i - 1) * b + k] = s[i][k]
      <4>1. CASE i = n + 1
        <5>1. (i - 1) * b + k = n * b + k  BY <4>1, <2>1
        <5>2. n * b + k \in 1 .. n * b + b /\ ~(n * b + k <= n * b) /\ n * b + k - n * b = k
          BY <3>4
        <5> QED
          BY <3>3, <4>1, <5>1, <5>2
      <4>2. CASE i # n + 1
        <5>1. i \in 1 .. n /\ i - 1 \in Nat /\ i - 1 + 1 <= n  BY <4>2, <2>1
        <5>2. PICK j \in Nat : j = i - 1  BY <5>1
        <5>3. j + 1 <= n  BY <5>1, <5>2
        <5>4. (j + 1) * b <= n * b
          <6>1. PICK e \in Nat : n = j + 1 + e  BY <2>1, <5>3
          <6>2. n * b = (j + 1) * b + e * b /\ e * b \in Nat /\ (j + 1) * b \in Nat  BY <6>1
          <6> QED
            BY <6>2
        <5>5. (j + 1) * b = j * b + b /\ j * b \in Nat  OBVIOUS
        <5>6. j * b + k \in 1 .. n * b + b /\ j * b + k <= n * b
          <6>1. PICK x \in Nat, y \in Nat : x = j * b /\ y = n * b  BY <3>4, <5>5
          <6>2. x + b <= y /\ k \in 1 .. b  BY <5>4, <5>5, <6>1
          <6>3. x + k \in 1 .. y + b /\ x + k <= y  BY <6>2
          <6> QED
            BY <6>1, <6>3
        <5>7. g[j * b + k] = f[j * b + k]  BY <3>3, <5>6
        <5>8. f[j * b + k] = s[i][k]  BY <3>1, <5>1, <5>2
        <5> QED
          BY <5>2, <5>7, <5>8
      <4> QED
        BY <4>1, <4>2
    <3>6. Blocks(g, n + 1)  BY <3>3, <3>4, <3>5
    <3> QED
      BY <3>6 DEF g
  <2> QED
    BY <2>2, <2>3
<1>4. ASSUME Len(s) # 0 PROVE Blocks(InRow(s)[Len(s)], Len(s))
  <2>1. Len(s) \in N
    <3> HIDE DEF N
    <3>1. N \in SUBSET Nat  BY DEF N
    <3> QED
      BY <1>1, <1>2, <1>3, <3>1, Induction
  <2>2. Len(s) \in 1 .. Len(s)  BY <1>1, <1>4
  <2> QED
    BY <2>1, <2>2
<1>5. ASSUME Len(s) = 0 PROVE Blocks(s, 0)
  <2>1. s = <<>>  BY <1>5, EmptySeq
  <2> QED
    BY <2>1
<1> QED
  BY <1>1, <1>4, <1>5, FlattenIs

\* s has rows of b members each, and f has them in a row.
Table(S, s, b) == s \in Seq(Seq(S)) /\ b \in Nat /\ \A i \in 1 .. Len(s) : Len(s[i]) = b
InARow(S, s, b, f) ==
  /\ f \in Seq(S) /\ Len(f) = Len(s) * b
  /\ \A i \in 1 .. Len(s) : \A k \in 1 .. b : f[(i - 1) * b + k] = s[i][k]

LEMMA TableFlat == \A S, s, b : Table(S, s, b) => InARow(S, s, b, FlattenSeq(s))
BY FlattenBlocks DEF Table, InARow

\* Sequences of one member each.
LEMMA FlattenSingles ==
  ASSUME NEW S, NEW t \in Seq(S)
  PROVE  FlattenSeq([k \in 1 .. Len(t) |-> <<t[k]>>]) = t
<1> DEFINE s == [k \in 1 .. Len(t) |-> <<t[k]>>]
<1>1. Len(t) \in Nat /\ \A k \in 1 .. Len(t) : t[k] \in S
  BY LenProperties, ElementOfSeq
<1>2. /\ s \in Seq(Seq(S)) /\ Len(s) = Len(t)
      /\ \A k \in 1 .. Len(t) : Len(s[k]) = 1 /\ s[k][1] = t[k]
  <2>1. \A k \in 1 .. Len(t) : s[k] = <<t[k]>>  OBVIOUS
  <2>2. \A k \in 1 .. Len(t) : s[k] \in Seq(S) /\ Len(s[k]) = 1 /\ s[k][1] = t[k]
    <3> TAKE k \in 1 .. Len(t)
    <3>1. PICK x \in S : x = t[k]  BY <1>1
    <3>2. <<x>> \in Seq(S) /\ Len(<<x>>) = 1 /\ <<x>>[1] = x  OBVIOUS
    <3>3. s[k] = <<x>>  BY <2>1, <3>1
    <3> HIDE DEF s
    <3> QED
      BY <3>1, <3>2, <3>3
  <2>3. s = [k \in 1 .. Len(t) |-> s[k]]  OBVIOUS
  <2> HIDE DEF s
  <2> QED
    BY <1>1, <2>1, <2>2, <2>3, Listed
<1> HIDE DEF s
<1>3. \A k \in 1 .. Len(s) : Len(s[k]) = 1
  BY <1>2
<1>4. /\ FlattenSeq(s) \in Seq(S) /\ Len(FlattenSeq(s)) = Len(s) * 1
      /\ \A k \in 1 .. Len(s) : \A j \in 1 .. 1 : FlattenSeq(s)[(k - 1) * 1 + j] = s[k][j]
  <2>1. PICK b \in Nat : b = 1  OBVIOUS
  <2>2. Table(S, s, b)  BY <1>2, <1>3, <2>1 DEF Table
  <2>3. InARow(S, s, b, FlattenSeq(s))  BY <2>2, TableFlat, Zenon
  <2> QED
    BY <2>1, <2>3 DEF InARow
<1>5. \A k \in 1 .. Len(t) : FlattenSeq(s)[k] = t[k]
  <2> TAKE k \in 1 .. Len(t)
  <2>1. FlattenSeq(s)[k] = s[k][1]
    <3>1. (k - 1) * 1 + 1 = k /\ 1 \in 1 .. 1 /\ k \in 1 .. Len(s)  BY <1>2
    <3>2. FlattenSeq(s)[(k - 1) * 1 + 1] = s[k][1]  BY <1>4, <3>1
    <3> QED
      BY <3>1, <3>2
  <2>2. s[k][1] = t[k]  BY <1>2
  <2> QED
    BY <2>1, <2>2, Zenon
<1>6. Len(FlattenSeq(s)) = Len(t)
  BY <1>1, <1>2, <1>4
<1> QED
  BY <1>4, <1>5, <1>6, SeqEqual DEF s

\* A sequence that is cut at c[1], c[2] and so on.
LEMMA FlattenCuts ==
  ASSUME NEW S, NEW words \in Seq(S), NEW s \in Seq(Seq(S)), NEW c, c[0] = 0,
         \A k \in 0 .. Len(s) : c[k] \in 0 .. Len(words),
         \A k \in 1 .. Len(s) : c[k - 1] <= c[k] /\ s[k] = SubSeq(words, c[k - 1] + 1, c[k])
  PROVE  FlattenSeq(s) = SubSeq(words, 1, c[Len(s)])
<1> DEFINE N == {k \in Nat : k \in 1 .. Len(s) => InRow(s)[k] = SubSeq(words, 1, c[k])}
<1>1. Len(s) \in Nat /\ Len(words) \in Nat
  BY LenProperties
<1>2. 0 \in N
  OBVIOUS
<1>3. ASSUME NEW n \in N PROVE n + 1 \in N
  <2> SUFFICES ASSUME n + 1 \in 1 .. Len(s) PROVE InRow(s)[n + 1] = SubSeq(words, 1, c[n + 1])
    OBVIOUS
  <2>1. /\ c[(n + 1) - 1] <= c[n + 1]
        /\ s[n + 1] = SubSeq(words, c[(n + 1) - 1] + 1, c[n + 1])
    OBVIOUS
  <2>2. (n + 1) - 1 = n /\ n \in 0 .. Len(s)  BY <1>1
  <2>3. PICK a \in 0 .. Len(words), b \in 0 .. Len(words) : a = c[n] /\ b = c[n + 1]
    BY <2>2, SMTT(30)
  <2>4. a <= b /\ s[n + 1] = SubSeq(words, a + 1, b)  BY <2>1, <2>2, <2>3
  <2>5. CASE n = 0
    <3>1. Len(s) \in Nat \ {0}  BY <1>1, <2>5
    <3>2. InRow(s)[1] = s[1]  BY <3>1, RowFirst
    <3>3. a = 0 /\ n + 1 = 1 /\ a + 1 = 1  BY <2>3, <2>5
    <3> QED
      BY <2>3, <2>4, <3>2, <3>3
  <2>6. CASE n # 0
    <3>1. InRow(s)[n + 1] = InRow(s)[n] \o s[n + 1]
      <4>1. n \in Nat \ {0} /\ n < Len(s)  BY <1>1, <2>6
      <4> QED
        BY <1>1, <4>1, RowNext
    <3>2. InRow(s)[n] = SubSeq(words, 1, a)  BY <1>1, <2>3, <2>6
    <3>3. SubSeq(words, 1, a) \o SubSeq(words, a + 1, b) = SubSeq(words, 1, b)
      <4>1. 1 \in 1 .. Len(words) + 1 /\ a \in 1 - 1 .. Len(words) /\ b \in a .. Len(words)
        BY <1>1, <2>4
      <4> QED
        BY <4>1, ConcatAdjacentSubSeq
    <3> QED
      BY <2>3, <2>4, <3>1, <3>2, <3>3
  <2> QED
    BY <2>5, <2>6
<1>4. N = Nat
  <2>1. N \in SUBSET Nat  OBVIOUS
  <2> HIDE DEF N
  <2> QED
    BY <1>2, <1>3, <2>1, Induction
<1>5. CASE Len(s) = 0
  <2>1. s = <<>>  BY <1>5, EmptySeq
  <2>2. SubSeq(words, 1, 0) = <<>>  BY SubSeqEmpty
  <2> QED
    BY <1>5, <2>1, <2>2, FlattenNone
<1>6. CASE Len(s) # 0
  <2>1. Len(s) \in N /\ Len(s) \in 1 .. Len(s)  BY <1>1, <1>4, <1>6
  <2> QED
    BY <1>6, <2>1, FlattenIs
<1> QED
  BY <1>5, <1>6
=============================================================================
