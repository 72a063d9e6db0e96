--------------------------- MODULE SpiWriteProofs ---------------------------
(***************************************************************************)
(* For any interface, any write, any size of page and wherever it is cut.  *)
(***************************************************************************)
EXTENDS SpiWrite, SeqLemmas, FiniteSetTheorems

-----------------------------------------------------------------------------
(* Sums of at most ten numbers, which is what MapThenSumSet is used for.      *)
At(v, T, i) == IF i \in T THEN v[i] ELSE 0
Total(v, T) ==
  At(v, T, 0) + At(v, T, 1) + At(v, T, 2) + At(v, T, 3) + At(v, T, 4)
    + At(v, T, 5) + At(v, T, 6) + At(v, T, 7) + At(v, T, 8) + At(v, T, 9)

LEMMA TotalTakes ==
  ASSUME NEW v \in [0 .. 9 -> Nat], NEW T \in SUBSET (0 .. 9), NEW x \in T
  PROVE  Total(v, T) = v[x] + Total(v, T \ {x})
<1> DEFINE a(i) == At(v, T, i)
           b(i) == At(v, T \ {x}, i)
<1>1. \A i \in 0 .. 9 : a(i) \in Nat /\ b(i) \in Nat
  BY DEF At
<1>2. \A i \in 0 .. 9 : i # x => a(i) = b(i)
  BY DEF At
<1>3. a(x) = v[x] /\ b(x) = 0 /\ v[x] \in Nat
  BY DEF At
<1>4. /\ Total(v, T) = a(0) + a(1) + a(2) + a(3) + a(4) + a(5) + a(6) + a(7) + a(8) + a(9)
      /\ Total(v, T \ {x}) = b(0) + b(1) + b(2) + b(3) + b(4) + b(5) + b(6) + b(7) + b(8) + b(9)
  BY DEF Total
<1>5. \/ x = 0 \/ x = 1 \/ x = 2 \/ x = 3 \/ x = 4
      \/ x = 5 \/ x = 6 \/ x = 7 \/ x = 8 \/ x = 9
  OBVIOUS
<1> HIDE DEF a, b
<1>6. /\ a(0) \in Nat /\ a(1) \in Nat /\ a(2) \in Nat /\ a(3) \in Nat /\ a(4) \in Nat
      /\ a(5) \in Nat /\ a(6) \in Nat /\ a(7) \in Nat /\ a(8) \in Nat /\ a(9) \in Nat
      /\ b(0) \in Nat /\ b(1) \in Nat /\ b(2) \in Nat /\ b(3) \in Nat /\ b(4) \in Nat
      /\ b(5) \in Nat /\ b(6) \in Nat /\ b(7) \in Nat /\ b(8) \in Nat /\ b(9) \in Nat
  BY <1>1
<1>7. /\ (0 # x => a(0) = b(0)) /\ (1 # x => a(1) = b(1)) /\ (2 # x => a(2) = b(2))
      /\ (3 # x => a(3) = b(3)) /\ (4 # x => a(4) = b(4)) /\ (5 # x => a(5) = b(5))
      /\ (6 # x => a(6) = b(6)) /\ (7 # x => a(7) = b(7)) /\ (8 # x => a(8) = b(8))
      /\ (9 # x => a(9) = b(9))
  BY <1>2
<1> QED
  BY <1>3, <1>4, <1>5, <1>6, <1>7

LEMMA TotalNone == ASSUME NEW v PROVE Total(v, {}) = 0
BY DEF Total, At

\* The local function of MapThenFoldSet, for a sum.
Sums(v, S, g) ==
  g = [s \in SUBSET S |-> IF s = {} THEN 0
                          ELSE LET x == CHOOSE x \in s : TRUE IN v[x] + g[s \ {x}]]

LEMMA SumsExist ==
  ASSUME NEW v \in [0 .. 9 -> Nat], NEW S \in SUBSET (0 .. 9)
  PROVE  Sums(v, S, [s \in SUBSET S |-> Total(v, s)])
<1> DEFINE g == [s \in SUBSET S |-> Total(v, s)]
<1>1. ASSUME NEW s \in SUBSET S
      PROVE  Total(v, s) = IF s = {} THEN 0
                           ELSE LET x == CHOOSE x \in s : TRUE IN v[x] + g[s \ {x}]
  <2>1. CASE s = {}  BY <2>1, TotalNone
  <2>2. CASE s # {}
    <3>1. PICK x : x = CHOOSE y \in s : TRUE  OBVIOUS
    <3>2. x \in s  BY <2>2, <3>1
    <3>3. Total(v, s) = v[x] + Total(v, s \ {x})  BY <3>2, TotalTakes
    <3> QED
      BY <2>2, <3>1, <3>3
  <2> QED
    BY <2>1, <2>2
<1> QED
  BY <1>1 DEF Sums

LEMMA SumsAre ==
  ASSUME NEW v \in [0 .. 9 -> Nat], NEW S \in SUBSET (0 .. 9), NEW g, Sums(v, S, g)
  PROVE  g[S] = Total(v, S)
<1> DEFINE N == {n \in Nat : \A s \in SUBSET S : Cardinality(s) = n => g[s] = Total(v, s)}
<1>1. ASSUME NEW s \in SUBSET S PROVE IsFiniteSet(s) /\ Cardinality(s) \in Nat
  <2>1. IsFiniteSet(0 .. 9)
    <3>1. 0 \in Int /\ 9 \in Int  OBVIOUS
    <3> QED
      BY <3>1, FS_Interval, Zenon
  <2>2. IsFiniteSet(s)
    <3>1. s \in SUBSET (0 .. 9)  OBVIOUS
    <3> QED
      BY <2>1, <3>1, FS_Subset, Zenon
  <2> QED
    BY <2>2, FS_CardinalityType
<1>2. 0 \in N
  <2>1. ASSUME NEW s \in SUBSET S, Cardinality(s) = 0 PROVE g[s] = Total(v, s)
    <3>1. s = {}  BY <1>1, <2>1, FS_EmptySet
    <3> QED
      BY <3>1, TotalNone DEF Sums
  <2> QED
    BY <2>1
<1>3. ASSUME NEW n \in N PROVE n + 1 \in N
  <2>1. ASSUME NEW s \in SUBSET S, Cardinality(s) = n + 1 PROVE g[s] = Total(v, s)
    <3>1. s # {}
      <4>1. Cardinality({}) = 0 /\ n + 1 # 0  BY FS_EmptySet
      <4> QED
        BY <2>1, <4>1
    <3>2. PICK x : x = CHOOSE y \in s : TRUE  OBVIOUS
    <3>3. x \in s /\ s \ {x} \in SUBSET S  BY <3>1, <3>2
    <3>4. g[s] = v[x] + g[s \ {x}]  BY <3>1, <3>2 DEF Sums
    <3>5. Cardinality(s \ {x}) = n  BY <1>1, <2>1, <3>3, FS_RemoveElement
    <3>6. g[s \ {x}] = Total(v, s \ {x})  BY <3>3, <3>5
    <3>7. Total(v, s) = v[x] + Total(v, s \ {x})
      <4>1. s \in SUBSET (0 .. 9)  OBVIOUS
      <4> QED
        BY <3>3, <4>1, TotalTakes
    <3> QED
      BY <3>4, <3>6, <3>7
  <2> QED
    BY <2>1
<1>4. Cardinality(S) \in N
  <2>1. N \in SUBSET Nat  OBVIOUS
  <2> HIDE DEF N
  <2>2. N = Nat  BY <1>2, <1>3, <2>1, Induction
  <2> QED
    BY <1>1, <2>2
<1> QED
  BY <1>4

-----------------------------------------------------------------------------
(* Bits and numbers.                                                          *)
LEMMA Powers ==
  /\ 2 ^ 0 = 1 /\ 2 ^ 1 = 2 /\ 2 ^ 2 = 4 /\ 2 ^ 3 = 8 /\ 2 ^ 4 = 16 /\ 2 ^ 5 = 32 /\ 2 ^ 6 = 64
  /\ 2 ^ 7 = 128 /\ 2 ^ 8 = 256 /\ 2 ^ 9 = 512 /\ 2 ^ 10 = 1024 /\ 2 ^ 11 = 2048
  /\ 2 ^ 12 = 4096 /\ 2 ^ 13 = 8192 /\ 2 ^ 14 = 16384 /\ 2 ^ 15 = 32768
  /\ 2 ^ 16 = 65536 /\ 2 ^ 17 = 131072 /\ 2 ^ 18 = 262144 /\ 2 ^ 19 = 524288
  /\ 2 ^ 20 = 1048576 /\ 2 ^ 21 = 2097152 /\ 2 ^ 22 = 4194304
  /\ 2 ^ 23 = 8388608 /\ 2 ^ 24 = 16777216
OBVIOUS

LEMMA PowersAreNumbers == \A i \in 0 .. 9 : 2 ^ i \in Nat
<1> TAKE i \in 0 .. 9
<1>1. CASE i = 0  BY <1>1, Powers
<1>2. CASE i = 1  BY <1>2, Powers
<1>3. CASE i = 2  BY <1>3, Powers
<1>4. CASE i = 3  BY <1>4, Powers
<1>5. CASE i = 4  BY <1>5, Powers
<1>6. CASE i = 5  BY <1>6, Powers
<1>7. CASE i = 6  BY <1>7, Powers
<1>8. CASE i = 7  BY <1>8, Powers
<1>9. CASE i = 8  BY <1>9, Powers
<1>10. CASE i = 9  BY <1>10, Powers
<1> QED
  BY <1>1, <1>2, <1>3, <1>4, <1>5, <1>6, <1>7, <1>8, <1>9, <1>10

LEMMA SumOfBits ==
  ASSUME NEW T \in SUBSET (0 .. 7)
  PROVE  MapThenSumSet(LAMBDA b : 2 ^ b, T) = Total([i \in 0 .. 9 |-> 2 ^ i], T)
<1> DEFINE v == [i \in 0 .. 9 |-> 2 ^ i]
           Local(g) == g = [s \in SUBSET T |-> IF s = {} THEN 0
                        ELSE LET x == CHOOSE x \in s : TRUE IN 2 ^ x + g[s \ {x}]]
<1>1. MapThenSumSet(LAMBDA b : 2 ^ b, T) = (CHOOSE g : Local(g))[T]
  BY DEF MapThenSumSet, MapThenFoldSet
<1>2. v \in [0 .. 9 -> Nat]
  BY PowersAreNumbers
<1>3. T \in SUBSET (0 .. 9)
  OBVIOUS
<1>4. ASSUME NEW g PROVE Local(g) <=> Sums(v, T, g)
  <2>1. ASSUME NEW s \in SUBSET T, s # {}
        PROVE  LET x == CHOOSE x \in s : TRUE IN 2 ^ x = v[x]
    <3>1. PICK x : x = CHOOSE y \in s : TRUE  OBVIOUS
    <3>2. x \in s  BY <2>1, <3>1
    <3> QED
      BY <3>1, <3>2
  <2> HIDE DEF v
  <2> QED
    BY <2>1 DEF Sums
<1>5. \E g : Local(g)
  BY <1>2, <1>3, <1>4, SumsExist
<1>6. Local(CHOOSE g : Local(g))
  BY <1>5, Zenon
<1>7. PICK g : g = (CHOOSE h : Local(h)) /\ Sums(v, T, g)
  BY <1>4, <1>6
<1> HIDE DEF v, Local
<1>8. g[T] = Total(v, T)
  BY <1>2, <1>3, <1>7, SumsAre
<1> QED
  BY <1>1, <1>7, <1>8 DEF v

LEMMA SumOfNumber ==
  ASSUME NEW n \in {8, 9}, NEW bits \in Seq({0, 1}), Len(bits) = n
  PROVE  Number(bits) = Total([i \in 0 .. 9 |-> IF i \in 1 .. n THEN bits[i] * 2 ^ (n - i) ELSE 0],
                              1 .. n)
<1> DEFINE v == [i \in 0 .. 9 |-> IF i \in 1 .. n THEN bits[i] * 2 ^ (n - i) ELSE 0]
           T == 1 .. n
           Local(g) == g = [s \in SUBSET T |-> IF s = {} THEN 0
                        ELSE LET x == CHOOSE x \in s : TRUE
                             IN  bits[x] * 2 ^ (n - x) + g[s \ {x}]]
<1>1. DOMAIN bits = T
  BY LenProperties
<1>2. Number(bits) = (CHOOSE g : Local(g))[T]
  BY <1>1 DEF Number, MapThenSumSet, MapThenFoldSet
<1>3. v \in [0 .. 9 -> Nat]
  <2>1. ASSUME NEW i \in 1 .. n PROVE bits[i] * 2 ^ (n - i) \in Nat
    <3>1. bits[i] \in {0, 1}  BY ElementOfSeq
    <3>2. n - i \in 0 .. 9  OBVIOUS
    <3>3. PICK p \in Nat : p = 2 ^ (n - i)  BY <3>2, PowersAreNumbers
    <3>4. 0 * p = 0 /\ 1 * p = p  BY <3>3
    <3> QED
      BY <3>1, <3>3, <3>4
  <2> QED
    BY <2>1
<1>4. T \in SUBSET (0 .. 9)
  OBVIOUS
<1>5. ASSUME NEW g PROVE Local(g) <=> Sums(v, T, g)
  <2>1. ASSUME NEW s \in SUBSET T, s # {}
        PROVE  LET x == CHOOSE x \in s : TRUE IN bits[x] * 2 ^ (n - x) = v[x]
    <3>1. PICK x : x = CHOOSE y \in s : TRUE  OBVIOUS
    <3>2. x \in s  BY <2>1, <3>1
    <3>3. x \in 1 .. n /\ x \in 0 .. 9  BY <3>2
    <3>4. v[x] = IF x \in 1 .. n THEN bits[x] * 2 ^ (n - x) ELSE 0  BY <3>3, Zenon
    <3> QED
      BY <3>1, <3>3, <3>4, Zenon
  <2> HIDE DEF v
  <2> QED
    BY <2>1, ZenonT(90) DEF Sums
<1>6. \E g : Local(g)
  <2> HIDE DEF v, Local, T
  <2>1. Sums(v, T, [s \in SUBSET T |-> Total(v, s)])  BY <1>3, <1>4, SumsExist
  <2> QED
    BY <1>5, <2>1, Zenon
<1>7. Local(CHOOSE g : Local(g))
  BY <1>6, Zenon
<1>8. PICK g : g = (CHOOSE h : Local(h)) /\ Sums(v, T, g)
  BY <1>5, <1>7
<1> HIDE DEF v, Local
<1>9. g[T] = Total(v, T)
  BY <1>3, <1>4, <1>8, SumsAre
<1> QED
  BY <1>2, <1>8, <1>9 DEF v

LEMMA Terms8 ==
  ASSUME NEW v, NEW T, NEW b, \A i \in 1 .. 8 : b[i] \in Int,
         \A i \in 1 .. 8 : At(v, T, i) = b[i] * 2 ^ (8 - i), At(v, T, 0) = 0, At(v, T, 9) = 0
  PROVE  Total(v, T) = 128 * b[1] + 64 * b[2] + 32 * b[3] + 16 * b[4] + 8 * b[5]
                       + 4 * b[6] + 2 * b[7] + b[8]
<1>1. At(v, T, 1) = 128 * b[1]  BY Powers
<1>2. At(v, T, 2) = 64 * b[2]  BY Powers
<1>3. At(v, T, 3) = 32 * b[3]  BY Powers
<1>4. At(v, T, 4) = 16 * b[4]  BY Powers
<1>5. At(v, T, 5) = 8 * b[5]  BY Powers
<1>6. At(v, T, 6) = 4 * b[6]  BY Powers
<1>7. At(v, T, 7) = 2 * b[7]  BY Powers
<1>8. At(v, T, 8) = 1 * b[8]  BY Powers
<1> QED
  BY <1>1, <1>2, <1>3, <1>4, <1>5, <1>6, <1>7, <1>8 DEF Total

LEMMA Terms9 ==
  ASSUME NEW v, NEW T, NEW b, \A i \in 1 .. 9 : b[i] \in Int,
         \A i \in 1 .. 9 : At(v, T, i) = b[i] * 2 ^ (9 - i), At(v, T, 0) = 0
  PROVE  Total(v, T) = 256 * b[1] + 128 * b[2] + 64 * b[3] + 32 * b[4] + 16 * b[5]
                       + 8 * b[6] + 4 * b[7] + 2 * b[8] + b[9]
<1>1. At(v, T, 1) = 256 * b[1]  BY Powers
<1>2. At(v, T, 2) = 128 * b[2]  BY Powers
<1>3. At(v, T, 3) = 64 * b[3]  BY Powers
<1>4. At(v, T, 4) = 32 * b[4]  BY Powers
<1>5. At(v, T, 5) = 16 * b[5]  BY Powers
<1>6. At(v, T, 6) = 8 * b[6]  BY Powers
<1>7. At(v, T, 7) = 4 * b[7]  BY Powers
<1>8. At(v, T, 8) = 2 * b[8]  BY Powers
<1>9. At(v, T, 9) = 1 * b[9]  BY Powers
<1> QED
  BY <1>1, <1>2, <1>3, <1>4, <1>5, <1>6, <1>7, <1>8, <1>9 DEF Total

LEMMA Number8 ==
  ASSUME NEW bits \in Seq({0, 1}), Len(bits) = 8
  PROVE  Number(bits) = 128 * bits[1] + 64 * bits[2] + 32 * bits[3] + 16 * bits[4] + 8 * bits[5]
                        + 4 * bits[6] + 2 * bits[7] + bits[8]
<1> DEFINE v == [i \in 0 .. 9 |-> IF i \in 1 .. 8 THEN bits[i] * 2 ^ (8 - i) ELSE 0]
<1>1. \A i \in 1 .. 8 : bits[i] \in Int
  <2>1. \A i \in 1 .. 8 : bits[i] \in {0, 1}  BY ElementOfSeq
  <2> QED
    BY <2>1
<1>2. \A i \in 1 .. 8 : At(v, 1 .. 8, i) = bits[i] * 2 ^ (8 - i)
  <2> TAKE i \in 1 .. 8
  <2>1. i \in 0 .. 9  OBVIOUS
  <2> QED
    BY <2>1, Zenon DEF At
<1>3. At(v, 1 .. 8, 0) = 0 /\ At(v, 1 .. 8, 9) = 0
  BY DEF At
<1>4. Number(bits) = Total(v, 1 .. 8)
  BY SumOfNumber
<1> HIDE DEF v
<1> QED
  BY <1>1, <1>2, <1>3, <1>4, Terms8, Zenon

LEMMA Number9 ==
  ASSUME NEW bits \in Seq({0, 1}), Len(bits) = 9
  PROVE  Number(bits) = 256 * bits[1] + 128 * bits[2] + 64 * bits[3] + 32 * bits[4] + 16 * bits[5]
                        + 8 * bits[6] + 4 * bits[7] + 2 * bits[8] + bits[9]
<1> DEFINE v == [i \in 0 .. 9 |-> IF i \in 1 .. 9 THEN bits[i] * 2 ^ (9 - i) ELSE 0]
<1>1. \A i \in 1 .. 9 : bits[i] \in Int
  <2>1. \A i \in 1 .. 9 : bits[i] \in {0, 1}  BY ElementOfSeq
  <2> QED
    BY <2>1
<1>2. \A i \in 1 .. 9 : At(v, 1 .. 9, i) = bits[i] * 2 ^ (9 - i)
  <2> TAKE i \in 1 .. 9
  <2>1. i \in 0 .. 9  OBVIOUS
  <2> QED
    BY <2>1, Zenon DEF At
<1>3. At(v, 1 .. 9, 0) = 0
  BY DEF At
<1>4. Number(bits) = Total(v, 1 .. 9)
  BY SumOfNumber
<1> HIDE DEF v
<1> QED
  BY <1>1, <1>2, <1>3, <1>4, Terms9, ZenonT(30)

-----------------------------------------------------------------------------
\* The bit as Bits puts it.
BitOf(w, k) == IF Bit(w, k) THEN 1 ELSE 0

LEMMA ByteOfBits ==
  ASSUME NEW q \in Nat
  PROVE  128 * BitOf(q, 7) + 64 * BitOf(q, 6) + 32 * BitOf(q, 5) + 16 * BitOf(q, 4)
           + 8 * BitOf(q, 3) + 4 * BitOf(q, 2) + 2 * BitOf(q, 1) + BitOf(q, 0) = q % 256
<1> DEFINE half(k) == q \div 2 ^ k
<1>1. /\ half(0) \in Int /\ half(1) \in Int /\ half(2) \in Int /\ half(3) \in Int
      /\ half(4) \in Int /\ half(5) \in Int /\ half(6) \in Int /\ half(7) \in Int
      /\ half(0) = q /\ half(8) = q \div 256 /\ half(8) \in Int
  BY Powers
<1>2. half(0) = 2 * half(1) + BitOf(q, 0) /\ BitOf(q, 0) \in Int
  BY Powers DEF BitOf, Bit
<1>3. half(1) = 2 * half(2) + BitOf(q, 1) /\ BitOf(q, 1) \in Int
  BY Powers DEF BitOf, Bit
<1>4. half(2) = 2 * half(3) + BitOf(q, 2) /\ BitOf(q, 2) \in Int
  BY Powers DEF BitOf, Bit
<1>5. half(3) = 2 * half(4) + BitOf(q, 3) /\ BitOf(q, 3) \in Int
  BY Powers DEF BitOf, Bit
<1>6. half(4) = 2 * half(5) + BitOf(q, 4) /\ BitOf(q, 4) \in Int
  BY Powers DEF BitOf, Bit
<1>7. half(5) = 2 * half(6) + BitOf(q, 5) /\ BitOf(q, 5) \in Int
  BY Powers DEF BitOf, Bit
<1>8. half(6) = 2 * half(7) + BitOf(q, 6) /\ BitOf(q, 6) \in Int
  BY Powers DEF BitOf, Bit
<1>9. half(7) = 2 * half(8) + BitOf(q, 7) /\ BitOf(q, 7) \in Int
  BY Powers DEF BitOf, Bit
<1>10. q % 256 = q - 256 * (q \div 256)
  OBVIOUS
<1> HIDE DEF half
<1>11. half(0) = 16 * half(4) + (8 * BitOf(q, 3) + 4 * BitOf(q, 2) + 2 * BitOf(q, 1) + BitOf(q, 0))
  BY <1>1, <1>2, <1>3, <1>4, <1>5
<1>12. half(4) = 16 * half(8) + (8 * BitOf(q, 7) + 4 * BitOf(q, 6) + 2 * BitOf(q, 5) + BitOf(q, 4))
  BY <1>1, <1>6, <1>7, <1>8, <1>9
<1>13. \A k \in {0, 1, 2, 3, 4, 5, 6, 7} : BitOf(q, k) \in Int
  BY DEF BitOf
<1>14. PICK a \in Int :
         a = 8 * BitOf(q, 3) + 4 * BitOf(q, 2) + 2 * BitOf(q, 1) + BitOf(q, 0)
  BY <1>13
<1>15. PICK b \in Int :
         b = 8 * BitOf(q, 7) + 4 * BitOf(q, 6) + 2 * BitOf(q, 5) + BitOf(q, 4)
  BY <1>13
<1>16. 16 * b + a = q % 256
  <2>1. half(0) = 16 * half(4) + a /\ half(4) = 16 * half(8) + b
    BY <1>11, <1>12, <1>14, <1>15
  <2>2. q = 256 * half(8) + (16 * b + a)
    BY <1>1, <2>1
  <2> QED
    BY <1>1, <1>10, <2>2
<1> QED
  BY <1>13, <1>14, <1>15, <1>16

LEMMA WordOfBits ==
  ASSUME NEW q \in 0 .. 511
  PROVE  256 * BitOf(q, 8) + 128 * BitOf(q, 7) + 64 * BitOf(q, 6) + 32 * BitOf(q, 5)
           + 16 * BitOf(q, 4) + 8 * BitOf(q, 3) + 4 * BitOf(q, 2) + 2 * BitOf(q, 1)
           + BitOf(q, 0) = q
<1>1. BitOf(q, 8) = (q \div 256) % 2
  BY Powers DEF BitOf, Bit
<1>2. q \div 256 \in {0, 1}
  OBVIOUS
<1>3. q = 256 * (q \div 256) + (q % 256)
  OBVIOUS
<1>8. (q \div 256) % 2 = q \div 256
  <2>1. \A m \in {0, 1} : m % 2 = m  OBVIOUS
  <2> QED
    BY <1>2, <2>1
<1>4. \A k \in {0, 1, 2, 3, 4, 5, 6, 7, 8} : BitOf(q, k) \in Int
  BY DEF BitOf
<1>5. PICK r \in Int : r = q % 256
  OBVIOUS
<1>6. 128 * BitOf(q, 7) + 64 * BitOf(q, 6) + 32 * BitOf(q, 5) + 16 * BitOf(q, 4)
           + 8 * BitOf(q, 3) + 4 * BitOf(q, 2) + 2 * BitOf(q, 1) + BitOf(q, 0) = r
  BY <1>5, ByteOfBits
<1>7. 256 * BitOf(q, 8) + r = q
  BY <1>1, <1>2, <1>3, <1>5, <1>8
<1> QED
  BY <1>4, <1>6, <1>7

\* The bits of the byte e bits up.
LEMMA HigherBits ==
  ASSUME NEW w \in Nat, NEW k \in 0 .. 7
  PROVE  /\ BitOf(w, 8 + k) = BitOf(w \div 256, k)
         /\ BitOf(w, 16 + k) = BitOf(w \div 65536, k)
<1>1. CASE k = 0
  <2>1. (w \div 256) \div 1 = w \div 256 /\ (w \div 65536) \div 1 = w \div 65536  OBVIOUS
  <2> QED
    BY <1>1, <2>1, Powers DEF BitOf, Bit
<1>2. CASE k = 1
  <2>1. (w \div 256) \div 2 = w \div 512 /\ (w \div 65536) \div 2 = w \div 131072  OBVIOUS
  <2> QED
    BY <1>2, <2>1, Powers DEF BitOf, Bit
<1>3. CASE k = 2
  <2>1. (w \div 256) \div 4 = w \div 1024 /\ (w \div 65536) \div 4 = w \div 262144  OBVIOUS
  <2> QED
    BY <1>3, <2>1, Powers DEF BitOf, Bit
<1>4. CASE k = 3
  <2>1. (w \div 256) \div 8 = w \div 2048 /\ (w \div 65536) \div 8 = w \div 524288  OBVIOUS
  <2> QED
    BY <1>4, <2>1, Powers DEF BitOf, Bit
<1>5. CASE k = 4
  <2>1. (w \div 256) \div 16 = w \div 4096 /\ (w \div 65536) \div 16 = w \div 1048576  OBVIOUS
  <2> QED
    BY <1>5, <2>1, Powers DEF BitOf, Bit
<1>6. CASE k = 5
  <2>1. (w \div 256) \div 32 = w \div 8192 /\ (w \div 65536) \div 32 = w \div 2097152  OBVIOUS
  <2> QED
    BY <1>6, <2>1, Powers DEF BitOf, Bit
<1>7. CASE k = 6
  <2>1. (w \div 256) \div 64 = w \div 16384 /\ (w \div 65536) \div 64 = w \div 4194304  OBVIOUS
  <2> QED
    BY <1>7, <2>1, Powers DEF BitOf, Bit
<1>8. CASE k = 7
  <2>1. (w \div 256) \div 128 = w \div 32768 /\ (w \div 65536) \div 128 = w \div 8388608  OBVIOUS
  <2> QED
    BY <1>8, <2>1, Powers DEF BitOf, Bit
<1> QED
  BY <1>1, <1>2, <1>3, <1>4, <1>5, <1>6, <1>7, <1>8

LEMMA BitsAre ==
  ASSUME NEW width \in Nat, NEW words, NEW n \in Nat, DOMAIN words = 1 .. n
  PROVE  /\ Bits(width, words) \in Seq({0, 1})
         /\ Len(Bits(width, words)) = n * width
         /\ \A i \in 1 .. n : \A k \in 1 .. width :
              Bits(width, words)[(i - 1) * width + k] = BitOf(words[i], width - k)
<1> DEFINE s == [i \in DOMAIN words |-> [k \in 1 .. width |-> BitOf(words[i], width - k)]]
<1>1. Bits(width, words) = FlattenSeq(s)
  BY DEF Bits, BitOf
<1>2. /\ s \in Seq(Seq({0, 1})) /\ Len(s) = n
      /\ \A i \in 1 .. n :
           Len(s[i]) = width /\ \A k \in 1 .. width : s[i][k] = BitOf(words[i], width - k)
  <2>1. ASSUME NEW i \in 1 .. n
        PROVE  s[i] = [k \in 1 .. width |-> BitOf(words[i], width - k)]
    OBVIOUS
  <2>2. ASSUME NEW i \in 1 .. n
        PROVE  s[i] \in Seq({0, 1}) /\ Len(s[i]) = width
    <3>1. \A k \in 1 .. width : BitOf(words[i], width - k) \in {0, 1}  BY DEF BitOf
    <3> QED
      BY <2>1, <3>1
  <2>3. s = [i \in 1 .. n |-> s[i]]  OBVIOUS
  <2> HIDE DEF s
  <2>4. s \in Seq(Seq({0, 1})) /\ Len(s) = n  BY <2>2, <2>3, Listed
  <2> QED
    BY <2>1, <2>2, <2>4
<1> HIDE DEF s
<1>3. /\ FlattenSeq(s) \in Seq({0, 1}) /\ Len(FlattenSeq(s)) = Len(s) * width
      /\ \A i \in 1 .. Len(s) : \A k \in 1 .. width : FlattenSeq(s)[(i - 1) * width + k] = s[i][k]
  BY <1>2, FlattenBlocks, ZenonT(90)
<1> QED
  BY <1>1, <1>2, <1>3, SMTT(30)

\* What the chip makes of its next bits.
GroupOf(size, bits, k) == Number(SubSeq(bits, size * (k - 1) + 1, size * k))

LEMMA Group8 ==
  ASSUME NEW bits \in Seq({0, 1}), NEW k \in Nat \ {0}, 8 * k <= Len(bits)
  PROVE  GroupOf(8, bits, k) =
           128 * bits[8 * (k - 1) + 1] + 64 * bits[8 * (k - 1) + 2] + 32 * bits[8 * (k - 1) + 3]
             + 16 * bits[8 * (k - 1) + 4] + 8 * bits[8 * (k - 1) + 5] + 4 * bits[8 * (k - 1) + 6]
             + 2 * bits[8 * (k - 1) + 7] + bits[8 * (k - 1) + 8]
<1> DEFINE g == SubSeq(bits, 8 * (k - 1) + 1, 8 * k)
<1>1. \A i \in 8 * (k - 1) + 1 .. 8 * k : i \in 1 .. Len(bits)
  BY LenProperties
<1>2. \A i \in 8 * (k - 1) + 1 .. 8 * k : bits[i] \in {0, 1}
  BY <1>1, ElementOfSeq
<1>3. /\ g \in Seq({0, 1})
      /\ Len(g) = IF 8 * (k - 1) + 1 <= 8 * k THEN 8 * k - (8 * (k - 1) + 1) + 1 ELSE 0
      /\ \A t \in 1 .. 8 * k - (8 * (k - 1) + 1) + 1 : g[t] = bits[8 * (k - 1) + 1 + t - 1]
  BY <1>2, SubSeqProperties
<1> HIDE DEF g
<1>4. g \in Seq({0, 1}) /\ Len(g) = 8
  BY <1>3
<1>5. \A t \in 1 .. 8 : g[t] = bits[8 * (k - 1) + t]
  <2> TAKE t \in 1 .. 8
  <2>1. t \in 1 .. 8 * k - (8 * (k - 1) + 1) + 1 /\ 8 * (k - 1) + 1 + t - 1 = 8 * (k - 1) + t
    OBVIOUS
  <2> QED
    BY <1>3, <2>1
<1>6. /\ g[1] = bits[8 * (k - 1) + 1]
      /\ g[2] = bits[8 * (k - 1) + 2]
      /\ g[3] = bits[8 * (k - 1) + 3]
      /\ g[4] = bits[8 * (k - 1) + 4]
      /\ g[5] = bits[8 * (k - 1) + 5]
      /\ g[6] = bits[8 * (k - 1) + 6]
      /\ g[7] = bits[8 * (k - 1) + 7]
      /\ g[8] = bits[8 * (k - 1) + 8]
  BY <1>5
<1>7. Number(g) = 128 * g[1] + 64 * g[2] + 32 * g[3] + 16 * g[4]
                  + 8 * g[5] + 4 * g[6] + 2 * g[7] + g[8]
  BY <1>4, Number8
<1> QED
  BY <1>6, <1>7, Zenon DEF g, GroupOf

LEMMA Group9 ==
  ASSUME NEW bits \in Seq({0, 1}), NEW k \in Nat \ {0}, 9 * k <= Len(bits)
  PROVE  GroupOf(9, bits, k) =
           256 * bits[9 * (k - 1) + 1] + 128 * bits[9 * (k - 1) + 2] + 64 * bits[9 * (k - 1) + 3]
             + 32 * bits[9 * (k - 1) + 4] + 16 * bits[9 * (k - 1) + 5] + 8 * bits[9 * (k - 1) + 6]
             + 4 * bits[9 * (k - 1) + 7] + 2 * bits[9 * (k - 1) + 8] + bits[9 * (k - 1) + 9]
<1> DEFINE g == SubSeq(bits, 9 * (k - 1) + 1, 9 * k)
<1>1. \A i \in 9 * (k - 1) + 1 .. 9 * k : i \in 1 .. Len(bits)
  BY LenProperties
<1>2. \A i \in 9 * (k - 1) + 1 .. 9 * k : bits[i] \in {0, 1}
  BY <1>1, ElementOfSeq
<1>3. /\ g \in Seq({0, 1})
      /\ Len(g) = IF 9 * (k - 1) + 1 <= 9 * k THEN 9 * k - (9 * (k - 1) + 1) + 1 ELSE 0
      /\ \A t \in 1 .. 9 * k - (9 * (k - 1) + 1) + 1 : g[t] = bits[9 * (k - 1) + 1 + t - 1]
  BY <1>2, SubSeqProperties
<1> HIDE DEF g
<1>4. g \in Seq({0, 1}) /\ Len(g) = 9
  BY <1>3
<1>5. \A t \in 1 .. 9 : g[t] = bits[9 * (k - 1) + t]
  <2> TAKE t \in 1 .. 9
  <2>1. t \in 1 .. 9 * k - (9 * (k - 1) + 1) + 1 /\ 9 * (k - 1) + 1 + t - 1 = 9 * (k - 1) + t
    OBVIOUS
  <2> QED
    BY <1>3, <2>1
<1>6. /\ g[1] = bits[9 * (k - 1) + 1]
      /\ g[2] = bits[9 * (k - 1) + 2]
      /\ g[3] = bits[9 * (k - 1) + 3]
      /\ g[4] = bits[9 * (k - 1) + 4]
      /\ g[5] = bits[9 * (k - 1) + 5]
      /\ g[6] = bits[9 * (k - 1) + 6]
      /\ g[7] = bits[9 * (k - 1) + 7]
      /\ g[8] = bits[9 * (k - 1) + 8]
      /\ g[9] = bits[9 * (k - 1) + 9]
  BY <1>5
<1>7. Number(g) = 256 * g[1] + 128 * g[2] + 64 * g[3] + 32 * g[4] + 16 * g[5]
                  + 8 * g[6] + 4 * g[7] + 2 * g[8] + g[9]
  BY <1>4, Number9
<1> QED
  BY <1>6, <1>7, ZenonT(30) DEF g, GroupOf

-----------------------------------------------------------------------------
(* What the chip makes of words, whatever the interface.                      *)
\* The byte of a word that begins with bit e.
ByteOf(w, e) == (w \div 2 ^ e) % 256
Weight(w, e) ==
  128 * BitOf(w, e + 7) + 64 * BitOf(w, e + 6) + 32 * BitOf(w, e + 5)
    + 16 * BitOf(w, e + 4) + 8 * BitOf(w, e + 3) + 4 * BitOf(w, e + 2)
    + 2 * BitOf(w, e + 1) + BitOf(w, e)

LEMMA ByteUp ==
  ASSUME NEW w \in Nat, NEW e \in {0, 8, 16}
  PROVE  Weight(w, e) = ByteOf(w, e) /\ ByteOf(w, e) \in 0 .. 255
<1>1. w \div 1 = w /\ w \div 256 \in Nat /\ w \div 65536 \in Nat
  OBVIOUS
<1>2. \A q \in Nat : q % 256 \in 0 .. 255
  OBVIOUS
<1>3. /\ BitOf(w, 8) = BitOf(w, 8 + 0) /\ BitOf(w, 16) = BitOf(w, 16 + 0)
  OBVIOUS
<1>4. CASE e = 0  BY <1>1, <1>2, <1>4, ByteOfBits, Powers DEF Weight, ByteOf
<1>5. CASE e = 8
  <2>1. Weight(w, 8) = 128 * BitOf(w \div 256, 7) + 64 * BitOf(w \div 256, 6)
          + 32 * BitOf(w \div 256, 5) + 16 * BitOf(w \div 256, 4) + 8 * BitOf(w \div 256, 3)
          + 4 * BitOf(w \div 256, 2) + 2 * BitOf(w \div 256, 1) + BitOf(w \div 256, 0)
    BY <1>3, HigherBits DEF Weight
  <2> QED
    BY <1>1, <1>2, <1>5, <2>1, ByteOfBits, Powers DEF ByteOf
<1>6. CASE e = 16
  <2>1. Weight(w, 16) = 128 * BitOf(w \div 65536, 7) + 64 * BitOf(w \div 65536, 6)
          + 32 * BitOf(w \div 65536, 5) + 16 * BitOf(w \div 65536, 4) + 8 * BitOf(w \div 65536, 3)
          + 4 * BitOf(w \div 65536, 2) + 2 * BitOf(w \div 65536, 1) + BitOf(w \div 65536, 0)
    BY <1>3, HigherBits DEF Weight
  <2> QED
    BY <1>1, <1>2, <1>6, <2>1, ByteOfBits, Powers DEF ByteOf
<1> QED
  BY <1>4, <1>5, <1>6

\* Where a byte is in a row of words of b bytes.
LEMMA Splits ==
  ASSUME NEW b \in {1, 2, 3}, NEW n \in Nat, NEW k \in 1 .. n * b
  PROVE  \E i \in 1 .. n : \E j \in 1 .. b : k = (i - 1) * b + j
<1>1. CASE b = 1
  <2>1. k \in 1 .. n /\ 1 \in 1 .. b /\ k = (k - 1) * b + 1  BY <1>1
  <2> QED
    BY <2>1
<1>2. CASE b = 2
  <2>1. PICK i \in Int, j \in Int : i = (k - 1) \div 2 + 1 /\ j = ((k - 1) % 2) + 1  OBVIOUS
  <2>2. i \in 1 .. n /\ j \in 1 .. 2 /\ k = (i - 1) * 2 + j  BY <1>2, <2>1
  <2> QED
    BY <1>2, <2>2
<1>3. CASE b = 3
  <2>1. PICK i \in Int, j \in Int : i = (k - 1) \div 3 + 1 /\ j = ((k - 1) % 3) + 1  OBVIOUS
  <2>2. i \in 1 .. n /\ j \in 1 .. 3 /\ k = (i - 1) * 3 + j  BY <1>3, <2>1
  <2> QED
    BY <1>3, <2>2
<1> QED
  BY <1>1, <1>2, <1>3

\* Byte j of word i, high byte first, is the k-th.
Numbers(words, n) == n \in Nat /\ DOMAIN words = 1 .. n /\ \A i \in 1 .. n : words[i] \in Nat
Place(width, n, i, j, k) ==
  /\ width \in {8, 16, 24}
  /\ i \in 1 .. n /\ j \in 1 .. width \div 8 /\ k = (i - 1) * (width \div 8) + j
Hears(width, words, i, j, k) ==
  GroupOf(8, Bits(width, words), k) = ByteOf(words[i], width - 8 * j)

LEMMA ByteAt ==
  ASSUME NEW width, NEW n, NEW words, NEW i, NEW j, NEW k,
         Numbers(words, n), Place(width, n, i, j, k)
  PROVE  Hears(width, words, i, j, k)
<1>0. /\ n \in Nat /\ DOMAIN words = 1 .. n /\ words[i] \in Nat
      /\ width \in {8, 16, 24}
      /\ i \in 1 .. n /\ j \in 1 .. width \div 8 /\ k = (i - 1) * (width \div 8) + j
  BY DEF Numbers, Place
<1> USE <1>0
<1> DEFINE bits == Bits(width, words)
<1>a. PICK b \in {1, 2, 3} : b = width \div 8 /\ width = 8 * b
  OBVIOUS
<1>b. PICK e \in {0, 8, 16} : e = width - 8 * j
  BY <1>a
<1>2. /\ bits \in Seq({0, 1}) /\ Len(bits) = n * width
      /\ \A t \in 1 .. width : bits[(i - 1) * width + t] = BitOf(words[i], width - t)
  <2>1. width \in Nat  OBVIOUS
  <2> QED
    BY <2>1, BitsAre, ZenonT(90)
<1>3. PICK z \in Nat : z = (i - 1) * b
  BY <1>a
<1>4. (i - 1) * width = 8 * z /\ k \in Nat \ {0} /\ k = z + j
  BY <1>a, <1>3
<1>5. 8 * k <= Len(bits)
  <2>1. (i - 1) * b + b <= n * b
    <3>1. CASE b = 1  BY <3>1
    <3>2. CASE b = 2  BY <3>2
    <3>3. CASE b = 3  BY <3>3
    <3> QED
      BY <3>1, <3>2, <3>3
  <2>2. n * width = 8 * (n * b)  BY <1>a
  <2>3. PICK y \in Nat : y = n * b  BY <1>a
  <2>4. Len(bits) = 8 * y  BY <1>2, <2>2, <2>3
  <2>5. z + b <= y  BY <1>3, <2>1, <2>3
  <2>6. k = z + j /\ j \in Int /\ j <= b  BY <1>a, <1>4
  <2>7. \A u, v \in Int : u <= v => 8 * u <= 8 * v  OBVIOUS
  <2>8. k <= y /\ k \in Int  BY <2>3, <2>5, <2>6
  <2> QED
    BY <2>4, <2>7, <2>8
<1>6. \A t \in 1 .. 8 : bits[8 * (k - 1) + t] = BitOf(words[i], e + (8 - t))
  <2> TAKE t \in 1 .. 8
  <2>1. PICK u \in 1 .. width : u = 8 * (j - 1) + t  BY <1>a
  <2>2. 8 * (k - 1) + t = 8 * z + u  BY <1>3, <1>4, <2>1
  <2>3. width - u = e + (8 - t)  BY <1>b, <2>1
  <2> QED
    BY <1>2, <1>4, <2>2, <2>3
<1> HIDE DEF bits
<1>7. /\ bits[8 * (k - 1) + 1] = BitOf(words[i], e + 7)
      /\ bits[8 * (k - 1) + 2] = BitOf(words[i], e + 6)
      /\ bits[8 * (k - 1) + 3] = BitOf(words[i], e + 5)
      /\ bits[8 * (k - 1) + 4] = BitOf(words[i], e + 4)
      /\ bits[8 * (k - 1) + 5] = BitOf(words[i], e + 3)
      /\ bits[8 * (k - 1) + 6] = BitOf(words[i], e + 2)
      /\ bits[8 * (k - 1) + 7] = BitOf(words[i], e + 1)
      /\ bits[8 * (k - 1) + 8] = BitOf(words[i], e)
  BY <1>6
<1>8. GroupOf(8, bits, k) = Weight(words[i], e)
  <2>1. GroupOf(8, bits, k) =
           128 * bits[8 * (k - 1) + 1] + 64 * bits[8 * (k - 1) + 2] + 32 * bits[8 * (k - 1) + 3]
             + 16 * bits[8 * (k - 1) + 4] + 8 * bits[8 * (k - 1) + 5] + 4 * bits[8 * (k - 1) + 6]
             + 2 * bits[8 * (k - 1) + 7] + bits[8 * (k - 1) + 8]
    BY <1>2, <1>4, <1>5, Group8, ZenonT(30)
  <2> QED
    BY <1>7, <2>1, ZenonT(30) DEF Weight
<1> QED
  BY <1>b, <1>8, ByteUp DEF bits, Hears

\* Bytes are heard as they were meant.
HearEight(x, bits) == [k \in 1 .. Len(bits) \div 8 |-> <<x, GroupOf(8, bits, k) % 256>>]

LEMMA ChipBytes ==
  ASSUME NEW width \in {8, 16, 24}, NEW n, NEW words, Numbers(words, n), NEW x
  PROVE  InBytes(x, width, words) = HearEight(x, Bits(width, words))
<1>0. n \in Nat /\ DOMAIN words = 1 .. n /\ \A i \in 1 .. n : words[i] \in Nat
  BY DEF Numbers
<1> USE <1>0
<1> DEFINE byte(i, j) == ByteOf(words[i], width - 8 * j)
           all == InBytes(x, width, words)
           B == {x} \X (0 .. 255)
<1>1. PICK b \in {1, 2, 3} : b = width \div 8 /\ width = 8 * b
  OBVIOUS
<1> DEFINE s == [i \in DOMAIN words |-> [j \in 1 .. b |-> <<x, byte(i, j)>>]]
<1>2. all = FlattenSeq(s)
  BY <1>1 DEF InBytes, ByteOf
<1>3. \A i \in 1 .. n : \A j \in 1 .. b : byte(i, j) \in 0 .. 255
  <2> TAKE i \in 1 .. n
  <2> TAKE j \in 1 .. b
  <2>1. PICK e \in {0, 8, 16} : e = width - 8 * j  BY <1>1
  <2>2. words[i] \in Nat  OBVIOUS
  <2>3. ByteOf(words[i], e) \in 0 .. 255
    BY <2>2, ByteUp, ZenonT(30)
  <2> QED
    BY <2>1, <2>3
<1> HIDE DEF byte
<1>4. /\ s \in Seq(Seq(B)) /\ Len(s) = n
      /\ \A i \in 1 .. n : Len(s[i]) = b /\ \A j \in 1 .. b : s[i][j] = <<x, byte(i, j)>>
  <2>1. ASSUME NEW i \in 1 .. n
        PROVE  s[i] = [j \in 1 .. b |-> <<x, byte(i, j)>>]
    OBVIOUS
  <2>2. ASSUME NEW i \in 1 .. n
        PROVE  s[i] \in Seq(B) /\ Len(s[i]) = b
    <3>1. \A j \in 1 .. b : <<x, byte(i, j)>> \in B  BY <1>3
    <3>2. b \in Nat /\ s[i] = [j \in 1 .. b |-> s[i][j]]  BY <2>1
    <3>3. \A j \in 1 .. b : s[i][j] \in B  BY <2>1, <3>1
    <3> HIDE DEF s, B
    <3> QED
      BY <3>2, <3>3, Listed
  <2>3. s = [i \in 1 .. n |-> s[i]]  OBVIOUS
  <2> HIDE DEF s, B
  <2>4. s \in Seq(Seq(B)) /\ Len(s) = n  BY <2>2, <2>3, Listed
  <2> QED
    BY <2>1, <2>2, <2>4
<1> HIDE DEF s, B, all
<1>5. /\ FlattenSeq(s) \in Seq(B) /\ Len(FlattenSeq(s)) = Len(s) * b
      /\ \A i \in 1 .. Len(s) : \A j \in 1 .. b : FlattenSeq(s)[(i - 1) * b + j] = s[i][j]
  <2>1. Table(B, s, b)  BY <1>4 DEF Table
  <2>2. InARow(B, s, b, FlattenSeq(s))  BY <2>1, TableFlat, Zenon
  <2>3. /\ FlattenSeq(s) \in Seq(B) /\ Len(FlattenSeq(s)) = Len(s) * b  BY <2>2 DEF InARow
  <2>4. \A i \in 1 .. Len(s) : \A j \in 1 .. b : FlattenSeq(s)[(i - 1) * b + j] = s[i][j]
    BY <2>2 DEF InARow
  <2> QED
    BY <2>3, <2>4
<1>6. /\ all \in Seq(B) /\ Len(all) = n * b
      /\ \A i \in 1 .. n : \A j \in 1 .. b : all[(i - 1) * b + j] = <<x, byte(i, j)>>
  <2>1. ASSUME NEW i \in 1 .. n, NEW j \in 1 .. b
        PROVE  all[(i - 1) * b + j] = <<x, byte(i, j)>>
    <3>1. FlattenSeq(s)[(i - 1) * b + j] = s[i][j]  BY <1>4, <1>5
    <3>2. s[i][j] = <<x, byte(i, j)>>  BY <1>4
    <3> QED
      BY <1>2, <3>1, <3>2
  <2> QED
    BY <1>2, <1>4, <1>5, <2>1
<1> DEFINE heard(k) == <<x, GroupOf(8, Bits(width, words), k) % 256>>
<1>7. Len(Bits(width, words)) \div 8 = n * b
  <2>1. Len(Bits(width, words)) = n * width  BY BitsAre
  <2>2. n * width = 8 * (n * b)  BY <1>1
  <2>3. PICK z \in Nat : z = n * b  OBVIOUS
  <2> QED
    BY <2>1, <2>2, <2>3
<1>8. \A k \in 1 .. n * b : all[k] = heard(k)
  <2> TAKE k \in 1 .. n * b
  <2>1. PICK i \in 1 .. n, j \in 1 .. b : k = (i - 1) * b + j  BY Splits, ZenonT(30)
  <2>2. GroupOf(8, Bits(width, words), k) = byte(i, j)
    <3>1. j \in 1 .. width \div 8 /\ k = (i - 1) * (width \div 8) + j  BY <1>1, <2>1, Zenon
    <3>2. GroupOf(8, Bits(width, words), k) = ByteOf(words[i], width - 8 * j)
      <4>1. Numbers(words, n)  BY DEF Numbers
      <4>2. Place(width, n, i, j, k)  BY <2>1, <3>1 DEF Place
      <4> QED
        BY <4>1, <4>2, ByteAt DEF Hears
    <3> QED
      BY <3>2 DEF byte
  <2>3. byte(i, j) % 256 = byte(i, j)
    <3>1. PICK q \in 0 .. 255 : q = byte(i, j)  BY <1>3
    <3>2. q % 256 = q  OBVIOUS
    <3> QED
      BY <3>1, <3>2
  <2> QED
    BY <1>6, <2>1, <2>2, <2>3, ZenonT(30)
<1>9. all = [k \in 1 .. n * b |-> heard(k)]
  <2> HIDE DEF heard
  <2>1. all = [k \in 1 .. n * b |-> all[k]]  BY <1>6
  <2> QED
    BY <1>8, <2>1
<1> QED
  BY <1>7, <1>9 DEF all, HearEight

-----------------------------------------------------------------------------
(* Eight words of nine bits in nine bytes.                                    *)
Octet(q, a0, a1, a2, a3, a4, a5, a6, a7) ==
  q = a0 + 2 * a1 + 4 * a2 + 8 * a3 + 16 * a4 + 32 * a5 + 64 * a6 + 128 * a7

FewBits(a0, a1, a2, a3, a4, a5, a6, a7) ==
  /\ a0 \in 0 .. 1 /\ a1 \in 0 .. 1 /\ a2 \in 0 .. 1 /\ a3 \in 0 .. 1
  /\ a4 \in 0 .. 1 /\ a5 \in 0 .. 1 /\ a6 \in 0 .. 1 /\ a7 \in 0 .. 1
BitsAreOf(q, a0, a1, a2, a3, a4, a5, a6, a7) ==
  /\ q \in 0 .. 255
  /\ BitOf(q, 0) = a0 /\ BitOf(q, 1) = a1 /\ BitOf(q, 2) = a2 /\ BitOf(q, 3) = a3
  /\ BitOf(q, 4) = a4 /\ BitOf(q, 5) = a5 /\ BitOf(q, 6) = a6 /\ BitOf(q, 7) = a7

LEMMA EightBits ==
  ASSUME NEW q, NEW a0, NEW a1, NEW a2, NEW a3, NEW a4, NEW a5, NEW a6, NEW a7,
         Octet(q, a0, a1, a2, a3, a4, a5, a6, a7), FewBits(a0, a1, a2, a3, a4, a5, a6, a7)
  PROVE  BitsAreOf(q, a0, a1, a2, a3, a4, a5, a6, a7)
<1>a. /\ a0 \in 0 .. 1 /\ a1 \in 0 .. 1 /\ a2 \in 0 .. 1 /\ a3 \in 0 .. 1
      /\ a4 \in 0 .. 1 /\ a5 \in 0 .. 1 /\ a6 \in 0 .. 1 /\ a7 \in 0 .. 1
  BY DEF FewBits
<1> USE <1>a
<1>0. q = a0 + 2 * a1 + 4 * a2 + 8 * a3 + 16 * a4 + 32 * a5 + 64 * a6 + 128 * a7
  BY DEF Octet
<1> USE <1>0
<1>1. q \in 0 .. 255
  OBVIOUS
<1>2. \A h \in Nat : \A a \in 0 .. 1 : (2 * h + a) % 2 = a
  OBVIOUS
<1>3. \A a \in 0 .. 1 : a = IF a = 1 THEN 1 ELSE 0
  OBVIOUS
<1>5. PICK h1 \in Nat : h1 = a1 + 2 * a2 + 4 * a3 + 8 * a4 + 16 * a5 + 32 * a6 + 64 * a7
  OBVIOUS
<1>6. PICK h2 \in Nat : h2 = a2 + 2 * a3 + 4 * a4 + 8 * a5 + 16 * a6 + 32 * a7
  OBVIOUS
<1>7. PICK h3 \in Nat : h3 = a3 + 2 * a4 + 4 * a5 + 8 * a6 + 16 * a7
  OBVIOUS
<1>8. PICK h4 \in Nat : h4 = a4 + 2 * a5 + 4 * a6 + 8 * a7
  OBVIOUS
<1>9. PICK h5 \in Nat : h5 = a5 + 2 * a6 + 4 * a7
  OBVIOUS
<1>10. PICK h6 \in Nat : h6 = a6 + 2 * a7
  OBVIOUS
<1>11. q \div 1 = 2 * h1 + a0  BY <1>5
<1>12. q \div 2 = 2 * h2 + a1  BY <1>6
<1>13. q \div 4 = 2 * h3 + a2  BY <1>7
<1>14. q \div 8 = 2 * h4 + a3  BY <1>8
<1>15. q \div 16 = 2 * h5 + a4  BY <1>9
<1>16. q \div 32 = 2 * h6 + a5  BY <1>10
<1>17. q \div 64 = 2 * a7 + a6  OBVIOUS
<1>18. q \div 128 = 2 * 0 + a7  OBVIOUS
<1>19. BitOf(q, 0) = a0
  <2>1. (q \div 1) % 2 = a0  BY <1>2, <1>11
  <2> QED
    BY <1>3, <2>1, Powers DEF BitOf, Bit
<1>20. BitOf(q, 1) = a1
  <2>1. (q \div 2) % 2 = a1  BY <1>2, <1>12
  <2> QED
    BY <1>3, <2>1, Powers DEF BitOf, Bit
<1>21. BitOf(q, 2) = a2
  <2>1. (q \div 4) % 2 = a2  BY <1>2, <1>13
  <2> QED
    BY <1>3, <2>1, Powers DEF BitOf, Bit
<1>22. BitOf(q, 3) = a3
  <2>1. (q \div 8) % 2 = a3  BY <1>2, <1>14
  <2> QED
    BY <1>3, <2>1, Powers DEF BitOf, Bit
<1>23. BitOf(q, 4) = a4
  <2>1. (q \div 16) % 2 = a4  BY <1>2, <1>15
  <2> QED
    BY <1>3, <2>1, Powers DEF BitOf, Bit
<1>24. BitOf(q, 5) = a5
  <2>1. (q \div 32) % 2 = a5  BY <1>2, <1>16
  <2> QED
    BY <1>3, <2>1, Powers DEF BitOf, Bit
<1>25. BitOf(q, 6) = a6
  <2>1. (q \div 64) % 2 = a6  BY <1>2, <1>17
  <2> QED
    BY <1>3, <2>1, Powers DEF BitOf, Bit
<1>26. BitOf(q, 7) = a7
  <2>1. (q \div 128) % 2 = a7  BY <1>2, <1>18
  <2> QED
    BY <1>3, <2>1, Powers DEF BitOf, Bit
<1> QED
  BY <1>1, <1>19, <1>20, <1>21, <1>22, <1>23, <1>24, <1>25, <1>26 DEF BitsAreOf

LEMMA BitsOfTotal ==
  ASSUME NEW T \in SUBSET (0 .. 7), NEW q, q = Total([i \in 0 .. 9 |-> 2 ^ i], T)
  PROVE  q \in 0 .. 255 /\ \A k \in 0 .. 7 : BitOf(q, k) = IF k \in T THEN 1 ELSE 0
<1> DEFINE v == [i \in 0 .. 9 |-> 2 ^ i]
           a(k) == IF k \in T THEN 1 ELSE 0
<1>1. q = Total(v, T)
  OBVIOUS
<1>2. /\ v[0] = 1 /\ v[1] = 2 /\ v[2] = 4 /\ v[3] = 8 /\ v[4] = 16 /\ v[5] = 32 /\ v[6] = 64
      /\ v[7] = 128
  BY Powers
<1>3. 8 \notin T /\ 9 \notin T
  OBVIOUS
<1> HIDE DEF v
<1>4. /\ At(v, T, 0) = a(0) /\ At(v, T, 1) = 2 * a(1) /\ At(v, T, 2) = 4 * a(2)
      /\ At(v, T, 3) = 8 * a(3) /\ At(v, T, 4) = 16 * a(4) /\ At(v, T, 5) = 32 * a(5)
      /\ At(v, T, 6) = 64 * a(6) /\ At(v, T, 7) = 128 * a(7)
      /\ At(v, T, 8) = 0 /\ At(v, T, 9) = 0
  BY <1>2, <1>3 DEF At
<1>5. \A k \in 0 .. 7 : a(k) \in 0 .. 1
  OBVIOUS
<1> HIDE DEF a
<1>6. q = a(0) + 2 * a(1) + 4 * a(2) + 8 * a(3) + 16 * a(4) + 32 * a(5) + 64 * a(6) + 128 * a(7)
  BY <1>1, <1>4, <1>5 DEF Total
<1>7. /\ a(0) \in 0 .. 1 /\ a(1) \in 0 .. 1 /\ a(2) \in 0 .. 1 /\ a(3) \in 0 .. 1
      /\ a(4) \in 0 .. 1 /\ a(5) \in 0 .. 1 /\ a(6) \in 0 .. 1 /\ a(7) \in 0 .. 1
  BY <1>5
<1>8. /\ q \in 0 .. 255
      /\ BitOf(q, 0) = a(0) /\ BitOf(q, 1) = a(1) /\ BitOf(q, 2) = a(2) /\ BitOf(q, 3) = a(3)
      /\ BitOf(q, 4) = a(4) /\ BitOf(q, 5) = a(5) /\ BitOf(q, 6) = a(6) /\ BitOf(q, 7) = a(7)
  <2>1. Octet(q, a(0), a(1), a(2), a(3), a(4), a(5), a(6), a(7))  BY <1>6 DEF Octet
  <2>2. FewBits(a(0), a(1), a(2), a(3), a(4), a(5), a(6), a(7))  BY <1>7 DEF FewBits
  <2>3. BitsAreOf(q, a(0), a(1), a(2), a(3), a(4), a(5), a(6), a(7))
    BY <2>1, <2>2, EightBits
  <2> QED
    BY <2>3 DEF BitsAreOf
<1>9. \A k \in 0 .. 7 : BitOf(q, k) = a(k)
  <2> TAKE k \in 0 .. 7
  <2>1. \/ k = 0 \/ k = 1 \/ k = 2 \/ k = 3 \/ k = 4 \/ k = 5 \/ k = 6 \/ k = 7  OBVIOUS
  <2> QED
    BY <1>8, <2>1
<1> QED
  BY <1>8, <1>9 DEF a

LEMMA BitsOfSum ==
  ASSUME NEW T \in SUBSET (0 .. 7)
  PROVE  /\ MapThenSumSet(LAMBDA b : 2 ^ b, T) \in 0 .. 255
         /\ \A k \in 0 .. 7 :
              BitOf(MapThenSumSet(LAMBDA b : 2 ^ b, T), k) = IF k \in T THEN 1 ELSE 0
<1>1. PICK q : q = Total([i \in 0 .. 9 |-> 2 ^ i], T)
  OBVIOUS
<1>2. q \in 0 .. 255 /\ \A k \in 0 .. 7 : BitOf(q, k) = IF k \in T THEN 1 ELSE 0
  BY <1>1, BitsOfTotal
<1> QED
  BY <1>1, <1>2, SumOfBits

LEMMA LowBits ==
  ASSUME NEW w \in Nat, NEW k \in 0 .. 7
  PROVE  BitOf(w % 256, k) = BitOf(w, k)
<1>1. PICK h \in Nat, l \in 0 .. 255 : h = w \div 256 /\ l = w % 256 /\ w = 256 * h + l
  OBVIOUS
<1>2. CASE k = 0
  <2>1. (l \div 1) % 2 = (w \div 1) % 2  BY <1>1
  <2> QED
    BY <1>1, <1>2, <2>1, Powers DEF BitOf, Bit
<1>3. CASE k = 1
  <2>1. (l \div 2) % 2 = (w \div 2) % 2  BY <1>1
  <2> QED
    BY <1>1, <1>3, <2>1, Powers DEF BitOf, Bit
<1>4. CASE k = 2
  <2>1. (l \div 4) % 2 = (w \div 4) % 2  BY <1>1
  <2> QED
    BY <1>1, <1>4, <2>1, Powers DEF BitOf, Bit
<1>5. CASE k = 3
  <2>1. (l \div 8) % 2 = (w \div 8) % 2  BY <1>1
  <2> QED
    BY <1>1, <1>5, <2>1, Powers DEF BitOf, Bit
<1>6. CASE k = 4
  <2>1. (l \div 16) % 2 = (w \div 16) % 2  BY <1>1
  <2> QED
    BY <1>1, <1>6, <2>1, Powers DEF BitOf, Bit
<1>7. CASE k = 5
  <2>1. (l \div 32) % 2 = (w \div 32) % 2  BY <1>1
  <2> QED
    BY <1>1, <1>7, <2>1, Powers DEF BitOf, Bit
<1>8. CASE k = 6
  <2>1. (l \div 64) % 2 = (w \div 64) % 2  BY <1>1
  <2> QED
    BY <1>1, <1>8, <2>1, Powers DEF BitOf, Bit
<1>9. CASE k = 7
  <2>1. (l \div 128) % 2 = (w \div 128) % 2  BY <1>1
  <2> QED
    BY <1>1, <1>9, <2>1, Powers DEF BitOf, Bit
<1> QED
  BY <1>2, <1>3, <1>4, <1>5, <1>6, <1>7, <1>8, <1>9

TmpBits(w, i) == {b \in 0 .. 7 : 64 - 8 * i + b \in Tmp(w)}

LEMMA TmpByteBits ==
  ASSUME NEW w, NEW i
  PROVE  /\ TmpByte(Tmp(w), i) \in 0 .. 255
         /\ \A k \in 0 .. 7 : BitOf(TmpByte(Tmp(w), i), k) = IF k \in TmpBits(w, i) THEN 1 ELSE 0
<1>1. TmpBits(w, i) \in SUBSET (0 .. 7)
  BY DEF TmpBits
<1> QED
  BY <1>1, BitsOfSum, Zenon DEF TmpByte, TmpBits

LEMMA Pack8Bytes ==
  ASSUME NEW w, w[8] \in Nat
  PROVE  /\ Pack8(w) \in Seq(0 .. 255) /\ Len(Pack8(w)) = 9
         /\ \A i \in 1 .. 8 : Pack8(w)[i] = TmpByte(Tmp(w), i)
         /\ Pack8(w)[9] = w[8] % 256
<1> DEFINE s == [i \in 1 .. 8 |-> TmpByte(Tmp(w), i)]
<1>1. s \in Seq(0 .. 255) /\ Len(s) = 8 /\ \A i \in 1 .. 8 : s[i] = TmpByte(Tmp(w), i)
  <2>1. \A i \in 1 .. 8 : TmpByte(Tmp(w), i) \in 0 .. 255  BY TmpByteBits
  <2> QED
    BY <2>1
<1>2. PICK x \in 0 .. 255 : x = w[8] % 256
  OBVIOUS
<1> HIDE DEF s
<1>3. Pack8(w) = s \o <<x>>
  BY <1>2, Zenon DEF Pack8, s, Lo
<1>4. <<x>> \in Seq(0 .. 255) /\ Len(<<x>>) = 1 /\ <<x>>[1] = x
  OBVIOUS
<1>5. PICK y \in Seq(0 .. 255) : y = <<x>> /\ Len(y) = 1 /\ y[1] = x
  BY <1>4
<1>6. /\ s \o y \in Seq(0 .. 255) /\ Len(s \o y) = Len(s) + Len(y)
      /\ \A i \in 1 .. Len(s) : (s \o y)[i] = s[i]
      /\ \A i \in 1 .. Len(y) : (s \o y)[Len(s) + i] = y[i]
  <2>1. PICK B : B = 0 .. 255  OBVIOUS
  <2>2. s \in Seq(B) /\ y \in Seq(B)  BY <1>1, <1>5, <2>1
  <2>3. /\ s \o y \in Seq(B) /\ Len(s \o y) = Len(s) + Len(y)
        /\ \A i \in 1 .. Len(s) : (s \o y)[i] = s[i]
        /\ \A i \in 1 .. Len(y) : (s \o y)[Len(s) + i] = y[i]
    BY <2>2, JoinedIs DEF Joined
  <2> QED
    BY <2>1, <2>3, Zenon
<1>7. (s \o y)[8 + 1] = y[1]
  BY <1>1, <1>5, <1>6
<1>8. Pack8(w) = s \o y
  BY <1>3, <1>5
<1>9. Len(s \o y) = 9
  BY <1>1, <1>5, <1>6
<1>10. \A i \in 1 .. 8 : (s \o y)[i] = TmpByte(Tmp(w), i)
  BY <1>1, <1>6
<1>11. (s \o y)[9] = w[8] % 256
  <2>1. 8 + 1 = 9  OBVIOUS
  <2> QED
    BY <1>2, <1>5, <1>7, <2>1
<1>12. s \o y \in Seq(0 .. 255)
  BY <1>6
<1> QED
  BY <1>8, <1>9, <1>10, <1>11, <1>12, Zenon

\* Counted from its highest, bit 9 j + r is bit r of word j, counted from its D/C bit.
LEMMA TmpIs ==
  ASSUME NEW w
  PROVE  /\ \A j \in 0 .. 6 : \A r \in 0 .. 8 :
              63 - 9 * j - r \in Tmp(w) <=> Bit(w[j + 1], 8 - r)
         /\ 0 \in Tmp(w) <=> Bit(w[8], 8)
<1>1. ASSUME NEW j \in 0 .. 6, NEW r \in 0 .. 8
      PROVE  63 - 9 * j - r \in Tmp(w) <=> Bit(w[j + 1], 8 - r)
  <2>1. PICK b \in 0 .. 63 : b = 63 - 9 * j - r  OBVIOUS
  <2>2. (63 - b) \div 9 = j /\ (63 - b) % 9 = r  BY <2>1
  <2>3. (63 - b) \div 9 + 1 = j + 1 /\ 8 - ((63 - b) % 9) = 8 - r  BY <2>2
  <2>4. b \in Tmp(w) <=> Bit(w[(63 - b) \div 9 + 1], 8 - ((63 - b) % 9))  BY DEF Tmp
  <2> QED
    BY <2>1, <2>3, <2>4
<1>2. 0 \in Tmp(w) <=> Bit(w[8], 8)
  <2>1. 0 \in 0 .. 63 /\ (63 - 0) \div 9 + 1 = 8 /\ 8 - ((63 - 0) % 9) = 8  OBVIOUS
  <2> QED
    BY <2>1 DEF Tmp
<1> QED
  BY <1>1, <1>2

\* Bit t of byte i, counted from the highest, is bit u of word j.
LEMMA PackedBit ==
  ASSUME NEW w, w[8] \in Nat, NEW i \in 1 .. 9, NEW t \in 1 .. 8, NEW j \in 1 .. 8,
         NEW u \in 1 .. 9, 8 * (i - 1) + t = 9 * (j - 1) + u
  PROVE  BitOf(Pack8(w)[i], 8 - t) = BitOf(w[j], 9 - u)
<1>1. CASE i = 9
  <2>1. j = 8 /\ u = t + 1 /\ 8 - t = 9 - u  BY <1>1
  <2>2. PICK k \in 0 .. 7 : k = 8 - t  OBVIOUS
  <2>3. Pack8(w)[9] = w[8] % 256  BY Pack8Bytes
  <2>4. BitOf(w[8] % 256, k) = BitOf(w[8], k)  BY <2>2, LowBits
  <2> QED
    BY <1>1, <2>1, <2>2, <2>3, <2>4
<1>2. CASE i # 9
  <2>1. PICK k \in 0 .. 7 : k = 8 - t  OBVIOUS
  <2>2. i \in 1 .. 8 /\ Pack8(w)[i] = TmpByte(Tmp(w), i)  BY <1>2, Pack8Bytes, SMTT(30)
  <2>3. BitOf(TmpByte(Tmp(w), i), k) = IF 64 - 8 * i + k \in Tmp(w) THEN 1 ELSE 0
    BY TmpByteBits DEF TmpBits
  <2>4. 64 - 8 * i + k \in Tmp(w) <=> Bit(w[j], 9 - u)
    <3>1. CASE j = 8
      <4>1. u = 1 /\ 64 - 8 * i + k = 0 /\ 9 - u = 8  BY <2>1, <2>2, <3>1
      <4> QED
        BY <3>1, <4>1, TmpIs
    <3>2. CASE j # 8
      <4>1. PICK p \in 0 .. 6, r \in 0 .. 8 : p = j - 1 /\ r = u - 1  BY <3>2
      <4>2. 64 - 8 * i + k = 63 - 9 * p - r /\ p + 1 = j /\ 8 - r = 9 - u  BY <2>1, <4>1
      <4>3. 63 - 9 * p - r \in Tmp(w) <=> Bit(w[p + 1], 8 - r)  BY TmpIs
      <4> QED
        BY <4>2, <4>3
    <3> QED
      BY <3>1, <3>2
  <2> QED
    BY <2>1, <2>2, <2>3, <2>4 DEF BitOf
<1> QED
  BY <1>1, <1>2

-----------------------------------------------------------------------------
(* Words of nine bits, as the chip hears them.                                *)
NineBytes(v) == [i \in 1 .. Len(v) |-> <<v[i] \div 256, v[i] % 256>>]
HearNine(bits) ==
  [k \in 1 .. Len(bits) \div 9 |-> <<GroupOf(9, bits, k) \div 256, GroupOf(9, bits, k) % 256>>]

\* Bits that are those of the words v, nine each.
AreNine(bits, v) ==
  /\ Len(bits) = 9 * Len(v)
  /\ \A m \in 1 .. Len(v) : \A u \in 1 .. 9 : bits[9 * (m - 1) + u] = BitOf(v[m], 9 - u)

LEMMA NineHeard ==
  ASSUME NEW bits \in Seq({0, 1}), NEW v \in Seq(0 .. 511), AreNine(bits, v)
  PROVE  HearNine(bits) = NineBytes(v)
<1>1. /\ Len(v) \in Nat /\ Len(bits) = 9 * Len(v)
      /\ \A m \in 1 .. Len(v) : \A u \in 1 .. 9 : bits[9 * (m - 1) + u] = BitOf(v[m], 9 - u)
  BY LenProperties DEF AreNine
<1>2. ASSUME NEW k \in 1 .. Len(v) PROVE GroupOf(9, bits, k) = v[k]
  <2>1. v[k] \in 0 .. 511  BY ElementOfSeq, SMTT(90)
  <2>2. k \in Nat \ {0} /\ 9 * k <= Len(bits)  BY <1>1
  <2>3. GroupOf(9, bits, k) =
           256 * bits[9 * (k - 1) + 1] + 128 * bits[9 * (k - 1) + 2] + 64 * bits[9 * (k - 1) + 3]
             + 32 * bits[9 * (k - 1) + 4] + 16 * bits[9 * (k - 1) + 5] + 8 * bits[9 * (k - 1) + 6]
             + 4 * bits[9 * (k - 1) + 7] + 2 * bits[9 * (k - 1) + 8] + bits[9 * (k - 1) + 9]
    BY <2>2, Group9
  <2>4. \A u \in 1 .. 9 : bits[9 * (k - 1) + u] = BitOf(v[k], 9 - u)
    BY <1>1
  <2>5. /\ bits[9 * (k - 1) + 1] = BitOf(v[k], 8) /\ bits[9 * (k - 1) + 2] = BitOf(v[k], 7)
        /\ bits[9 * (k - 1) + 3] = BitOf(v[k], 6) /\ bits[9 * (k - 1) + 4] = BitOf(v[k], 5)
        /\ bits[9 * (k - 1) + 5] = BitOf(v[k], 4) /\ bits[9 * (k - 1) + 6] = BitOf(v[k], 3)
        /\ bits[9 * (k - 1) + 7] = BitOf(v[k], 2) /\ bits[9 * (k - 1) + 8] = BitOf(v[k], 1)
        /\ bits[9 * (k - 1) + 9] = BitOf(v[k], 0)
    BY <2>4
  <2>6. 256 * BitOf(v[k], 8) + 128 * BitOf(v[k], 7) + 64 * BitOf(v[k], 6) + 32 * BitOf(v[k], 5)
           + 16 * BitOf(v[k], 4) + 8 * BitOf(v[k], 3) + 4 * BitOf(v[k], 2) + 2 * BitOf(v[k], 1)
           + BitOf(v[k], 0) = v[k]
    BY <2>1, WordOfBits, ZenonT(30)
  <2>7. GroupOf(9, bits, k) =
           256 * BitOf(v[k], 8) + 128 * BitOf(v[k], 7) + 64 * BitOf(v[k], 6) + 32 * BitOf(v[k], 5)
             + 16 * BitOf(v[k], 4) + 8 * BitOf(v[k], 3) + 4 * BitOf(v[k], 2) + 2 * BitOf(v[k], 1)
             + BitOf(v[k], 0)
    BY <2>3, <2>5, ZenonT(30)
  <2> QED
    BY <2>6, <2>7, Zenon
<1>3. Len(bits) \div 9 = Len(v)
  BY <1>1
<1> QED
  BY <1>2, <1>3 DEF HearNine, NineBytes

LEMMA ChipNine ==
  ASSUME NEW v \in Seq(0 .. 511)
  PROVE  HearNine(Bits(9, v)) = NineBytes(v)
<1>1. DOMAIN v = 1 .. Len(v) /\ Len(v) \in Nat
  BY LenProperties
<1>2. PICK w \in Nat : w = 9
  OBVIOUS
<1>3. /\ Bits(w, v) \in Seq({0, 1}) /\ Len(Bits(w, v)) = Len(v) * w
      /\ \A i \in 1 .. Len(v) : \A k \in 1 .. w :
           Bits(w, v)[(i - 1) * w + k] = BitOf(v[i], w - k)
  BY <1>1, BitsAre
<1>4. Bits(9, v) \in Seq({0, 1}) /\ AreNine(Bits(9, v), v)
  <2>1. Len(Bits(9, v)) = 9 * Len(v)  BY <1>1, <1>2, <1>3
  <2>2. ASSUME NEW m \in 1 .. Len(v), NEW u \in 1 .. 9
        PROVE  Bits(9, v)[9 * (m - 1) + u] = BitOf(v[m], 9 - u)
    <3>1. Bits(w, v)[(m - 1) * w + u] = BitOf(v[m], w - u)  BY <1>2, <1>3
    <3>2. (m - 1) * w + u = 9 * (m - 1) + u  BY <1>2
    <3> QED
      BY <1>2, <3>1, <3>2
  <2> QED
    BY <1>2, <1>3, <2>1, <2>2 DEF AreNine
<1> QED
  BY <1>4, NineHeard

-----------------------------------------------------------------------------
(* Chunks.                                                                    *)
LEMMA CeilIs ==
  ASSUME NEW l \in Nat, NEW n \in Nat \ {0}
  PROVE  Ceil(l, n) \in Nat /\ l <= Ceil(l, n) * n /\ Ceil(l, n) * n < l + n
<1>1. PICK a \in Nat : a = l + n - 1
  OBVIOUS
<1>2. PICK q \in Int : q = a \div n /\ n * q <= a /\ a < n * q + n
  OBVIOUS
<1>3. q \in Nat
  <2>1. q >= 0
    <3>1. SUFFICES ASSUME q <= -1 PROVE FALSE  BY <1>2
    <3>2. n * q + n <= 0
      <4>1. PICK e \in Nat : q = -1 - e  BY <3>1, <1>2
      <4>2. n * q = -n - n * e /\ n * e \in Nat  BY <4>1
      <4> QED
        BY <4>2
    <3> QED
      BY <1>1, <1>2, <3>2
  <2> QED
    BY <1>2, <2>1
<1>4. PICK z \in Int : z = n * q /\ z = q * n
  BY <1>2
<1> QED
  BY <1>1, <1>2, <1>3, <1>4 DEF Ceil

\* A multiple of n below another.
LEMMA Below ==
  ASSUME NEW k \in Nat, NEW q \in Nat, NEW n \in Nat \ {0}, k < q
  PROVE  k * n \in Nat /\ k * n + n <= q * n /\ q * n \in Nat /\ (k + 1) * n = k * n + n
<1>1. PICK e \in Nat : q = k + 1 + e
  OBVIOUS
<1>2. q * n = k * n + n + e * n /\ e * n \in Nat /\ k * n \in Nat
  BY <1>1
<1> QED
  BY <1>2

ChunkLen(l, n, k) == Least(k * n, l) - (k - 1) * n

LEMMA ChunksAre ==
  ASSUME NEW S, NEW words \in Seq(S), NEW n \in Nat \ {0}
  PROVE  /\ Chunked(words, n) \in Seq(Seq(S))
         /\ Len(Chunked(words, n)) = Ceil(Len(words), n)
         /\ DOMAIN Chunked(words, n) = 1 .. Ceil(Len(words), n)
         /\ FlattenSeq(Chunked(words, n)) = words
         /\ \A k \in 1 .. Ceil(Len(words), n) :
              /\ Len(Chunked(words, n)[k]) = ChunkLen(Len(words), n, k)
              /\ ChunkLen(Len(words), n, k) \in 1 .. n
              /\ (k - 1) * n + ChunkLen(Len(words), n, k) <= Len(words)
              /\ \A i \in 1 .. ChunkLen(Len(words), n, k) :
                   Chunked(words, n)[k][i] = words[(k - 1) * n + i]
<1> DEFINE c == Chunked(words, n)
           l == Len(words)
           q == Ceil(l, n)
           cut == [k \in 0 .. q |-> Least(k * n, l)]
<1>1. l \in Nat /\ \A i \in 1 .. l : words[i] \in S
  BY LenProperties, ElementOfSeq
<1>2. q \in Nat /\ l <= q * n /\ q * n < l + n
  BY <1>1, CeilIs
<1>3. c = [k \in 1 .. q |-> SubSeq(words, (k - 1) * n + 1, Least(k * n, l))]
  BY DEF Chunked
<1> HIDE DEF c, l, q
<1>4. ASSUME NEW k \in 1 .. q
      PROVE  /\ Least((k - 1) * n, l) = (k - 1) * n /\ (k - 1) * n \in Nat
             /\ Least(k * n, l) \in (k - 1) * n + 1 .. l
             /\ Least(k * n, l) <= (k - 1) * n + n
  <2>1. PICK j \in Nat : j = k - 1  BY <1>2
  <2>2. PICK a \in Nat, b \in Nat : a = j * n /\ b = q * n /\ a + n <= b /\ k * n = a + n
    <3>1. j < q /\ j + 1 = k  BY <1>2, <2>1
    <3> QED
      BY <1>2, <3>1, Below
  <2>3. a < l /\ b < l + n  BY <1>1, <1>2, <2>2
  <2> QED
    BY <1>1, <2>1, <2>2, <2>3 DEF Least
<1>5. ASSUME NEW k \in 1 .. q
      PROVE  /\ c[k] \in Seq(S) /\ Len(c[k]) = ChunkLen(l, n, k) /\ ChunkLen(l, n, k) \in 1 .. n
             /\ (k - 1) * n + ChunkLen(l, n, k) <= l
             /\ \A i \in 1 .. ChunkLen(l, n, k) : c[k][i] = words[(k - 1) * n + i]
             /\ c[k] = SubSeq(words, (k - 1) * n + 1, Least(k * n, l))
  <2>a. PICK a \in Nat : a = (k - 1) * n  BY <1>4
  <2>b. PICK b : b = Least(k * n, l)  OBVIOUS
  <2>c. b \in a + 1 .. l /\ b <= a + n  BY <1>4, <2>a, <2>b
  <2>1. a = (k - 1) * n /\ b = Least(k * n, l) /\ b \in a + 1 .. l /\ b <= a + n /\ b \in Nat
    BY <1>1, <2>a, <2>b, <2>c
  <2>2. c[k] = SubSeq(words, a + 1, b)  BY <1>3, <2>1
  <2>3. ChunkLen(l, n, k) = b - a  BY <2>1 DEF ChunkLen
  <2>4. \A i \in a + 1 .. b : words[i] \in S  BY <1>1, <2>1
  <2>5. /\ SubSeq(words, a + 1, b) \in Seq(S)
        /\ Len(SubSeq(words, a + 1, b)) = IF a + 1 <= b THEN b - (a + 1) + 1 ELSE 0
        /\ \A i \in 1 .. b - (a + 1) + 1 : SubSeq(words, a + 1, b)[i] = words[a + 1 + i - 1]
    <3>1. a + 1 \in Int /\ b \in Int  BY <2>1
    <3> QED
      BY <2>4, <3>1, SubSeqProperties
  <2>6. \A i \in 1 .. b - a : SubSeq(words, a + 1, b)[i] = words[a + i]
    <3> TAKE i \in 1 .. b - a
    <3>1. i \in 1 .. b - (a + 1) + 1 /\ a + 1 + i - 1 = a + i  BY <2>1
    <3> QED
      BY <2>5, <3>1
  <2>7. Len(SubSeq(words, a + 1, b)) = b - a  BY <2>1, <2>5
  <2>8. b - a \in 1 .. n /\ a + (b - a) <= l  BY <1>1, <2>1
  <2>9. c[k] \in Seq(S) /\ Len(c[k]) = ChunkLen(l, n, k)  BY <2>2, <2>3, <2>5, <2>7
  <2>10. \A i \in 1 .. ChunkLen(l, n, k) : c[k][i] = words[(k - 1) * n + i]
    BY <2>1, <2>2, <2>3, <2>6, Zenon
  <2>11. ChunkLen(l, n, k) \in 1 .. n /\ (k - 1) * n + ChunkLen(l, n, k) <= l
    BY <2>1, <2>3, <2>8, Zenon
  <2> QED
    BY <2>1, <2>2, <2>9, <2>10, <2>11, Zenon
<1>6. c \in Seq(Seq(S)) /\ Len(c) = q /\ DOMAIN c = 1 .. q
  <2>1. c = [k \in 1 .. q |-> c[k]]  BY <1>3
  <2>2. \A k \in 1 .. q : c[k] \in Seq(S)  BY <1>5
  <2> QED
    BY <1>2, <2>1, <2>2, Listed
<1>7. FlattenSeq(c) = SubSeq(words, 1, cut[q])
  <2>1. \A k \in 0 .. q : cut[k] = Least(k * n, l)  OBVIOUS
  <2> HIDE DEF cut
  <2>2. cut[0] = 0  BY <1>1, <1>2, <2>1 DEF Least
  <2>3. \A k \in 1 .. q : /\ cut[k - 1] = (k - 1) * n /\ cut[k] \in (k - 1) * n + 1 .. l
                          /\ (k - 1) * n \in Nat /\ cut[k] = Least(k * n, l)
    <3> TAKE k \in 1 .. q
    <3>1. k - 1 \in 0 .. q /\ k \in 0 .. q  BY <1>2
    <3> QED
      BY <1>4, <2>1, <3>1
  <2>4. \A k \in 0 .. Len(c) : cut[k] \in 0 .. Len(words)
    <3> TAKE k \in 0 .. Len(c)
    <3>1. CASE k = 0  BY <1>1, <2>2, <3>1 DEF l
    <3>2. CASE k # 0
      <4>1. k \in 1 .. q  BY <1>2, <1>6, <3>2
      <4> QED
        BY <1>1, <2>3, <4>1 DEF l
    <3> QED
      BY <3>1, <3>2
  <2>5. \A k \in 1 .. Len(c) : cut[k - 1] <= cut[k] /\ c[k] = SubSeq(words, cut[k - 1] + 1, cut[k])
    <3> TAKE k \in 1 .. Len(c)
    <3>a. PICK a \in Nat : a = (k - 1) * n /\ a = cut[k - 1]  BY <1>6, <2>3
    <3>b. PICK b : b = Least(k * n, l) /\ b = cut[k]  BY <1>6, <2>3
    <3>c. b \in a + 1 .. l  BY <1>6, <2>3, <3>a, <3>b
    <3>1. a = cut[k - 1] /\ b = cut[k] /\ a <= b /\ a = (k - 1) * n /\ b = Least(k * n, l)
      BY <1>1, <3>a, <3>b, <3>c
    <3>2. c[k] = SubSeq(words, (k - 1) * n + 1, Least(k * n, l))  BY <1>5, <1>6
    <3> QED
      BY <3>1, <3>2
  <2> QED
    BY <1>6, <2>2, <2>4, <2>5, FlattenCuts
<1>8. cut[q] = l
  <2>1. q \in 0 .. q  BY <1>2
  <2>2. PICK z \in Nat : z = q * n /\ l <= z  BY <1>2
  <2> QED
    BY <1>1, <2>1, <2>2 DEF Least
<1>9. FlattenSeq(c) = words
  BY <1>7, <1>8, SubSeqFull DEF l
<1> QED
  BY <1>5, <1>6, <1>9 DEF c, l, q

LEMMA ChunksWhole ==
  ASSUME NEW l \in Nat, NEW n \in Nat \ {0}, NEW m \in {4, 8}, l % m = 0, n % m = 0,
         NEW k \in 1 .. Ceil(l, n), ChunkLen(l, n, k) \in 1 .. n
  PROVE  ChunkLen(l, n, k) % m = 0
<1>1. PICK a \in Nat, b \in Nat : l = m * a /\ n = m * b
  <2>1. PICK a \in Int, b \in Int : a = l \div m /\ b = n \div m  OBVIOUS
  <2>2. l = m * a /\ n = m * b /\ a \in Nat /\ b \in Nat
    <3>1. CASE m = 4  BY <2>1, <3>1
    <3>2. CASE m = 8  BY <2>1, <3>2
    <3> QED
      BY <3>1, <3>2
  <2> QED
    BY <2>2
<1>2. k \in Nat /\ k - 1 \in Nat
  BY CeilIs
<1>3. PICK x \in Nat, y \in Nat : x = k * b /\ y = (k - 1) * b
  BY <1>1, <1>2
<1>4. k * n = m * x /\ (k - 1) * n = m * y
  BY <1>1, <1>2, <1>3
<1>5. \/ ChunkLen(l, n, k) = m * x - m * y
      \/ ChunkLen(l, n, k) = m * a - m * y
  BY <1>1, <1>4 DEF ChunkLen, Least
<1> HIDE DEF ChunkLen
<1>6. CASE m = 4  BY <1>1, <1>3, <1>5, <1>6
<1>7. CASE m = 8  BY <1>1, <1>3, <1>5, <1>7
<1> QED
  BY <1>6, <1>7

\* Where a word is among eights, and a bit in eight words.
LEMMA ByEights ==
  ASSUME NEW l \in Nat, NEW q \in Nat, 8 * q = l
  PROVE  /\ (l + 8 - 1) \div 8 = q
         /\ \A k \in 1 .. q : \A j \in 1 .. 8 : 8 * (k - 1) + j \in 1 .. l
         /\ \A m \in 1 .. l : \E k \in 1 .. q : \E j \in 1 .. 8 : m = 8 * (k - 1) + j
<1>1. ASSUME NEW m \in 1 .. l
      PROVE  \E k \in 1 .. q : \E j \in 1 .. 8 : m = 8 * (k - 1) + j
  <2>1. PICK k \in Int, j \in Int : k = (m - 1) \div 8 + 1 /\ j = ((m - 1) % 8) + 1  OBVIOUS
  <2>2. k \in 1 .. q /\ j \in 1 .. 8 /\ m = 8 * (k - 1) + j  BY <2>1
  <2> QED
    BY <2>2
<1>2. \A k \in 1 .. q : \A j \in 1 .. 8 : 8 * (k - 1) + j \in 1 .. l
  OBVIOUS
<1>3. (l + 8 - 1) \div 8 = q
  OBVIOUS
<1> QED
  BY <1>1, <1>2, <1>3

LEMMA ByBits ==
  ASSUME NEW j \in 1 .. 8, NEW u \in 1 .. 9
  PROVE  \E i \in 1 .. 9 : \E t \in 1 .. 8 : 8 * (i - 1) + t = 9 * (j - 1) + u
<1>1. PICK x \in 1 .. 72 : x = 9 * (j - 1) + u
  OBVIOUS
<1>2. PICK i \in Int, t \in Int : i = (x - 1) \div 8 + 1 /\ t = ((x - 1) % 8) + 1
  OBVIOUS
<1>3. i \in 1 .. 9 /\ t \in 1 .. 8 /\ 8 * (i - 1) + t = x
  BY <1>2
<1> QED
  BY <1>1, <1>3

LEMMA SameBit ==
  ASSUME NEW k \in Int, NEW j \in Int, NEW i \in Int, NEW u \in Int, NEW t \in Int,
         8 * (i - 1) + t = 9 * (j - 1) + u,
         NEW m, m = 8 * (k - 1) + j, NEW z, z = 9 * (k - 1) + i
  PROVE  9 * (m - 1) + u = 8 * (z - 1) + t
OBVIOUS

\* Words packed by eights.
Packed(v) == FlattenSeq([k \in DOMAIN Chunked(v, 8) |-> Pack8(Chunked(v, 8)[k])])

LEMMA Eights ==
  ASSUME NEW v \in Seq(0 .. 511), Len(v) % 8 = 0
  PROVE  /\ DOMAIN Chunked(v, 8) = 1 .. Len(v) \div 8
         /\ 8 * (Len(v) \div 8) = Len(v)
         /\ \A k \in 1 .. Len(v) \div 8 : \A j \in 1 .. 8 :
              Chunked(v, 8)[k][j] = v[8 * (k - 1) + j]
         /\ \A k \in 1 .. Len(v) \div 8 : Chunked(v, 8)[k][8] \in Nat
<1> DEFINE q == Len(v) \div 8
<1>1. Len(v) \in Nat /\ 8 * q = Len(v) /\ q \in Nat /\ 8 % 8 = 0
  BY LenProperties
<1>2. Ceil(Len(v), 8) = q
  BY <1>1, ByEights DEF Ceil
<1>3. PICK n \in Nat \ {0} : n = 8
  OBVIOUS
<1> HIDE DEF q
<1>4. /\ DOMAIN Chunked(v, n) = 1 .. Ceil(Len(v), n)
      /\ \A k \in 1 .. Ceil(Len(v), n) :
           /\ ChunkLen(Len(v), n, k) \in 1 .. n
           /\ \A i \in 1 .. ChunkLen(Len(v), n, k) : Chunked(v, n)[k][i] = v[(k - 1) * n + i]
  BY ChunksAre
<1>5. \A k \in 1 .. q : ChunkLen(Len(v), 8, k) = 8
  <2> TAKE k \in 1 .. q
  <2>1. ChunkLen(Len(v), n, k) \in 1 .. n  BY <1>2, <1>3, <1>4
  <2>2. ChunkLen(Len(v), n, k) % 8 = 0
    <3>1. k \in 1 .. Ceil(Len(v), n) /\ n % 8 = 0 /\ Len(v) % 8 = 0 /\ 8 \in {4, 8}
      BY <1>1, <1>2, <1>3
    <3> QED
      BY <1>1, <2>1, <3>1, ChunksWhole
  <2> QED
    BY <1>3, <2>1, <2>2
<1>6. ASSUME NEW k \in 1 .. q, NEW j \in 1 .. 8
      PROVE  Chunked(v, 8)[k][j] = v[8 * (k - 1) + j]
  <2>1. Chunked(v, n)[k][j] = v[(k - 1) * n + j]
    <3>1. k \in 1 .. Ceil(Len(v), n) /\ j \in 1 .. ChunkLen(Len(v), n, k)  BY <1>2, <1>3, <1>5
    <3> QED
      BY <1>4, <3>1
  <2>2. (k - 1) * n + j = 8 * (k - 1) + j  BY <1>1, <1>3
  <2> QED
    BY <1>3, <2>1, <2>2
<1>7. \A k \in 1 .. q : Chunked(v, 8)[k][8] \in Nat
  <2> TAKE k \in 1 .. q
  <2>0. \A j \in 1 .. 8 : 8 * (k - 1) + j \in 1 .. Len(v)  BY <1>1, ByEights
  <2>1. PICK x : x = 8 * (k - 1) + 8 /\ x \in 1 .. Len(v)  BY <2>0
  <2>2. v[x] \in 0 .. 511  BY <2>1, ElementOfSeq, ZenonT(30)
  <2>3. 8 \in 1 .. 8 /\ \A y \in 0 .. 511 : y \in Nat  OBVIOUS
  <2>4. Chunked(v, 8)[k][8] = v[x]  BY <1>6, <2>1, <2>3, Zenon
  <2> QED
    BY <2>2, <2>3, <2>4, Zenon
<1> QED
  BY <1>1, <1>2, <1>3, <1>4, <1>6, <1>7 DEF q

LEMMA PackedBytes ==
  ASSUME NEW v \in Seq(0 .. 511), Len(v) % 8 = 0
  PROVE  /\ Packed(v) \in Seq(0 .. 255) /\ 8 * Len(Packed(v)) = 9 * Len(v)
         /\ \A k \in 1 .. Len(v) \div 8 : \A i \in 1 .. 9 :
              Packed(v)[9 * (k - 1) + i] = Pack8(Chunked(v, 8)[k])[i]
<1> DEFINE e == Chunked(v, 8)
           q == Len(v) \div 8
           s == [k \in 1 .. q |-> Pack8(e[k])]
           B == 0 .. 255
<1>1. /\ DOMAIN e = 1 .. q /\ 8 * q = Len(v)
      /\ \A k \in 1 .. q : \A j \in 1 .. 8 : e[k][j] = v[8 * (k - 1) + j]
  BY Eights
<1>2. q \in Nat /\ Len(v) \in Nat
  BY LenProperties
<1>3. Packed(v) = FlattenSeq(s)
  BY <1>1 DEF Packed
<1>4. \A k \in 1 .. q : s[k] = Pack8(e[k])
  OBVIOUS
<1>5. s = [k \in 1 .. q |-> s[k]]
  OBVIOUS
<1> HIDE DEF e, q, s, B
<1>6. \A k \in 1 .. q : e[k][8] \in Nat
  BY Eights DEF e, q
<1>7. \A k \in 1 .. q : s[k] \in Seq(B) /\ Len(s[k]) = 9
  BY <1>4, <1>6, Pack8Bytes, SMTT(90) DEF B
<1>8. PICK b \in Nat : b = 9
  OBVIOUS
<1>9. InARow(B, s, b, FlattenSeq(s)) /\ Len(s) = q
  <2>1. s \in Seq(Seq(B)) /\ Len(s) = q  BY <1>2, <1>5, <1>7, Listed
  <2>2. Table(B, s, b)  BY <1>7, <1>8, <2>1 DEF Table
  <2> QED
    BY <2>1, <2>2, TableFlat, Zenon
<1>10. ASSUME NEW k \in 1 .. q, NEW i \in 1 .. 9
       PROVE  Packed(v)[9 * (k - 1) + i] = Pack8(e[k])[i]
  <2>1. FlattenSeq(s)[(k - 1) * b + i] = s[k][i]
    <3>1. k \in 1 .. Len(s) /\ i \in 1 .. b  BY <1>8, <1>9
    <3> QED
      BY <1>9, <3>1 DEF InARow
  <2>2. (k - 1) * b + i = 9 * (k - 1) + i  BY <1>2, <1>8
  <2> QED
    BY <1>3, <1>4, <2>1, <2>2
<1>11. Len(FlattenSeq(s)) = q * b
  BY <1>9 DEF InARow
<1>12. 8 * Len(Packed(v)) = 9 * Len(v)
  <2>1. Len(Packed(v)) = 9 * q  BY <1>2, <1>3, <1>8, <1>11
  <2>2. 8 * (9 * q) = 9 * (8 * q)  BY <1>2
  <2> QED
    BY <1>1, <2>1, <2>2
<1>13. Packed(v) \in Seq(B)
  BY <1>3, <1>9 DEF InARow
<1> QED
  BY <1>10, <1>12, <1>13 DEF e, q, B

LEMMA ChipPacked ==
  ASSUME NEW v \in Seq(0 .. 511), Len(v) % 8 = 0
  PROVE  HearNine(Bits(8, Packed(v))) = NineBytes(v)
<1> DEFINE e == Chunked(v, 8)
           q == Len(v) \div 8
           p == Packed(v)
           bits == Bits(8, p)
<1>1. /\ 8 * q = Len(v) /\ q \in Nat
      /\ \A k \in 1 .. q : \A j \in 1 .. 8 : e[k][j] = v[8 * (k - 1) + j]
  BY Eights, LenProperties
<1>2. /\ p \in Seq(0 .. 255) /\ 8 * Len(p) = 9 * Len(v)
      /\ \A k \in 1 .. q : \A i \in 1 .. 9 : p[9 * (k - 1) + i] = Pack8(e[k])[i]
  BY PackedBytes
<1>3. Len(v) \in Nat /\ Len(p) \in Nat /\ DOMAIN p = 1 .. Len(p)
  BY <1>2, LenProperties
<1> HIDE DEF e, q, p
<1>4. PICK w \in Nat : w = 8
  OBVIOUS
<1>5. /\ Bits(w, p) \in Seq({0, 1}) /\ Len(Bits(w, p)) = Len(p) * w
      /\ \A i \in 1 .. Len(p) : \A t \in 1 .. w : Bits(w, p)[(i - 1) * w + t] = BitOf(p[i], w - t)
  BY <1>3, BitsAre
<1> HIDE DEF bits
<1>6. /\ bits \in Seq({0, 1}) /\ Len(bits) = 9 * Len(v)
  BY <1>2, <1>3, <1>4, <1>5 DEF bits
<1>7. ASSUME NEW z \in 1 .. Len(p), NEW t \in 1 .. 8
      PROVE  bits[8 * (z - 1) + t] = BitOf(p[z], 8 - t)
  <2>1. Bits(w, p)[(z - 1) * w + t] = BitOf(p[z], w - t)  BY <1>4, <1>5
  <2>2. (z - 1) * w + t = 8 * (z - 1) + t  BY <1>3, <1>4
  <2> QED
    BY <1>4, <2>1, <2>2 DEF bits
<1>8. ASSUME NEW m \in 1 .. Len(v), NEW u \in 1 .. 9
      PROVE  bits[9 * (m - 1) + u] = BitOf(v[m], 9 - u)
  <2>1. PICK k \in 1 .. q, j \in 1 .. 8 : m = 8 * (k - 1) + j  BY <1>1, <1>3, ByEights
  <2>2. PICK i \in 1 .. 9, t \in 1 .. 8 : 8 * (i - 1) + t = 9 * (j - 1) + u  BY ByBits
  <2>a. \A l, x \in Nat : 8 * q = l /\ 8 * x = 9 * l => 9 * (k - 1) + i \in 1 .. x  BY <1>1
  <2>3. PICK z \in 1 .. Len(p) : z = 9 * (k - 1) + i
    BY <1>1, <1>2, <1>3, <2>a
  <2>4. 9 * (m - 1) + u = 8 * (z - 1) + t
    <3>1. k \in Int /\ j \in Int /\ i \in Int /\ u \in Int /\ t \in Int  BY <1>1
    <3> QED
      BY <2>1, <2>2, <2>3, <3>1, SameBit
  <2>5. p[z] = Pack8(e[k])[i]  BY <1>2, <2>3
  <2>6. e[k][8] \in Nat  BY Eights DEF e, q
  <2>7. BitOf(Pack8(e[k])[i], 8 - t) = BitOf(e[k][j], 9 - u)
    BY <2>2, <2>6, PackedBit, ZenonT(30)
  <2>8. e[k][j] = v[m]  BY <1>1, <2>1
  <2> QED
    BY <1>7, <2>4, <2>5, <2>7, <2>8
<1>9. AreNine(bits, v)
  BY <1>6, <1>8 DEF AreNine
<1> QED
  BY <1>6, <1>9, NineHeard DEF bits, p

-----------------------------------------------------------------------------
(* Bytes.                                                                     *)
Octets == 0 .. 255

LEMMA OctetsAre == \A q \in Octets : q \in Nat /\ (q \div 1) % 256 = q /\ q % 256 = q
BY DEF Octets

\* What a chip may hear: whether it is data, and the byte.
HeardBytes == {0, 1} \X (0 .. 255)

LEMMA ByteValue ==
  ASSUME NEW w \in Nat, NEW width \in {8, 16, 24}, NEW j \in 1 .. width \div 8
  PROVE  ByteOf(w, width - 8 * j) \in 0 .. 255
<1>1. PICK e \in {0, 8, 16} : e = width - 8 * j
  OBVIOUS
<1> QED
  BY <1>1, ByteUp

\* The rows of InBytes, a word each.
Row(x, width, w) == [k \in 1 .. width \div 8 |-> <<x, ByteOf(w, width - 8 * k)>>]
Rows(x, width, words) == [i \in DOMAIN words |-> Row(x, width, words[i])]

LEMMA RowsAre ==
  ASSUME NEW x \in {0, 1}, NEW width \in {8, 16, 24}, NEW words \in Seq(Nat)
  PROVE  /\ InBytes(x, width, words) = FlattenSeq(Rows(x, width, words))
         /\ Rows(x, width, words) \in Seq(Seq(HeardBytes))
         /\ Len(Rows(x, width, words)) = Len(words)
         /\ \A i \in 1 .. Len(words) : Rows(x, width, words)[i] = Row(x, width, words[i])
<1> DEFINE s == Rows(x, width, words)
<1>1. DOMAIN words = 1 .. Len(words) /\ Len(words) \in Nat
      /\ \A i \in 1 .. Len(words) : words[i] \in Nat
  BY LenProperties, ElementOfSeq
<1>2. InBytes(x, width, words) = FlattenSeq(s)
  BY DEF InBytes, Rows, Row, ByteOf
<1>3. \A i \in 1 .. Len(words) : s[i] = Row(x, width, words[i])
  BY <1>1 DEF Rows
<1>4. s = [i \in 1 .. Len(words) |-> s[i]]
  BY <1>1 DEF Rows
<1> HIDE DEF s
<1>5. \A i \in 1 .. Len(words) : s[i] \in Seq(HeardBytes)
  <2> TAKE i \in 1 .. Len(words)
  <2>1. PICK r : r = Row(x, width, words[i])  OBVIOUS
  <2>2. words[i] \in Nat  BY <1>1
  <2>3. \A k \in 1 .. width \div 8 : ByteOf(words[i], width - 8 * k) \in 0 .. 255
    BY <2>2, ByteValue, ZenonT(30)
  <2>4. \A k \in 1 .. width \div 8 : r[k] \in HeardBytes
    BY <2>1, <2>3 DEF Row, HeardBytes
  <2>5. r = [k \in 1 .. width \div 8 |-> r[k]] /\ width \div 8 \in Nat
    BY <2>1 DEF Row
  <2>6. r \in Seq(HeardBytes)  BY <2>4, <2>5, Listed
  <2> QED
    BY <1>3, <2>1, <2>6
<1>6. s \in Seq(Seq(HeardBytes)) /\ Len(s) = Len(words)
  BY <1>1, <1>4, <1>5, Listed
<1> QED
  BY <1>2, <1>3, <1>6 DEF s

LEMMA InBytesType ==
  ASSUME NEW x \in {0, 1}, NEW width \in {8, 16, 24}, NEW words \in Seq(Nat)
  PROVE  InBytes(x, width, words) \in Seq(HeardBytes)
BY RowsAre, FlattenType

LEMMA InBytesConcat ==
  ASSUME NEW x \in {0, 1}, NEW width \in {8, 16, 24}, NEW a \in Seq(Nat), NEW b \in Seq(Nat)
  PROVE  InBytes(x, width, a \o b) = InBytes(x, width, a) \o InBytes(x, width, b)
<1> DEFINE r(w) == Rows(x, width, w)
<1>1. /\ a \o b \in Seq(Nat) /\ Len(a \o b) = Len(a) + Len(b)
      /\ \A i \in 1 .. Len(a) : (a \o b)[i] = a[i]
      /\ \A i \in 1 .. Len(b) : (a \o b)[Len(a) + i] = b[i]
  BY JoinedIs DEF Joined
<1>2. PICK c \in Seq(Nat) : c = a \o b
  BY <1>1
<1>3. /\ r(a) \in Seq(Seq(HeardBytes)) /\ Len(r(a)) = Len(a)
      /\ \A i \in 1 .. Len(a) : r(a)[i] = Row(x, width, a[i])
  BY RowsAre, ZenonT(90)
<1>4. /\ r(b) \in Seq(Seq(HeardBytes)) /\ Len(r(b)) = Len(b)
      /\ \A i \in 1 .. Len(b) : r(b)[i] = Row(x, width, b[i])
  BY RowsAre, ZenonT(90)
<1>5. /\ r(c) \in Seq(Seq(HeardBytes)) /\ Len(r(c)) = Len(c)
      /\ \A i \in 1 .. Len(c) : r(c)[i] = Row(x, width, c[i])
  BY RowsAre, ZenonT(90)
<1>6. Len(a) \in Nat /\ Len(b) \in Nat /\ Len(c) = Len(a) + Len(b)
  BY <1>1, <1>2, LenProperties
<1> HIDE DEF r
<1>7. PICK d : d = r(a) \o r(b)
  OBVIOUS
<1>8. Joined(Seq(HeardBytes), r(a), r(b), d)
  BY <1>3, <1>4, <1>7, JoinedIs
<1>9. /\ d \in Seq(Seq(HeardBytes)) /\ Len(d) = Len(a) + Len(b)
      /\ \A i \in 1 .. Len(a) : d[i] = r(a)[i]
      /\ \A i \in 1 .. Len(b) : d[Len(a) + i] = r(b)[i]
  BY <1>3, <1>4, <1>8 DEF Joined
<1>10. ASSUME NEW i \in 1 .. Len(c) PROVE r(c)[i] = d[i]
  <2>1. CASE i <= Len(a)
    <3>1. i \in 1 .. Len(a)  BY <1>6, <2>1
    <3>2. c[i] = a[i]  BY <1>1, <1>2, <3>1
    <3>3. d[i] = Row(x, width, a[i])  BY <1>3, <1>9, <3>1
    <3>4. r(c)[i] = Row(x, width, c[i])  BY <1>5
    <3> QED
      BY <3>2, <3>3, <3>4, Zenon
  <2>2. CASE ~(i <= Len(a))
    <3>0. PICK m \in Nat, n \in Nat : m = Len(a) /\ n = Len(b) /\ Len(c) = m + n  BY <1>6
    <3>a. i \in 1 .. m + n /\ ~(i <= m)  BY <2>2, <3>0
    <3>b. PICK j \in 1 .. n : i = m + j  BY <3>a
    <3>1. j \in 1 .. Len(b) /\ i = Len(a) + j  BY <3>0, <3>b
    <3>2. c[i] = b[j]  BY <1>1, <1>2, <3>1
    <3>3. d[i] = Row(x, width, b[j])  BY <1>4, <1>9, <3>1
    <3> QED
      BY <1>5, <3>2, <3>3
  <2> QED
    BY <2>1, <2>2
<1>11. r(c) = d
  BY <1>5, <1>6, <1>9, <1>10, SeqEqual
<1>12. FlattenSeq(r(a) \o r(b)) = FlattenSeq(r(a)) \o FlattenSeq(r(b))
  <2>1. FlattenSeq(r(a)) \in Seq(HeardBytes)  BY <1>3, FlattenType
  <2> QED
    BY <1>3, <1>4, <2>1, FlattenConcat
<1>13. \A w \in Seq(Nat) : InBytes(x, width, w) = FlattenSeq(r(w))
  BY RowsAre DEF r
<1> QED
  BY <1>2, <1>7, <1>11, <1>12, <1>13

\* f is, in a row, the bytes of words of b bytes.
AreBytes(x, width, words, b, f) ==
  /\ f \in Seq(HeardBytes) /\ Len(f) = Len(words) * b
  /\ \A i \in 1 .. Len(words) : \A j \in 1 .. b :
       f[(i - 1) * b + j] = <<x, ByteOf(words[i], width - 8 * j)>>

LEMMA InBytesAre ==
  ASSUME NEW x \in {0, 1}, NEW width \in {8, 16, 24}, NEW words \in Seq(Nat),
         NEW b \in Nat, b = width \div 8
  PROVE  AreBytes(x, width, words, b, InBytes(x, width, words))
<1> DEFINE s == Rows(x, width, words)
           f == InBytes(x, width, words)
<1>1. /\ f = FlattenSeq(s) /\ s \in Seq(Seq(HeardBytes)) /\ Len(s) = Len(words)
      /\ \A i \in 1 .. Len(words) : s[i] = Row(x, width, words[i])
  BY RowsAre, ZenonT(90)
<1>2. \A w : Len(Row(x, width, w)) = b
  BY DEF Row
<1>3. \A w : \A j \in 1 .. b : Row(x, width, w)[j] = <<x, ByteOf(w, width - 8 * j)>>
  BY DEF Row
<1> HIDE DEF s, f
<1>4. \A i \in 1 .. Len(s) : Len(s[i]) = b
  BY <1>1, <1>2
<1>5. InARow(HeardBytes, s, b, f)
  <2>1. Table(HeardBytes, s, b)  BY <1>1, <1>4 DEF Table
  <2> QED
    BY <1>1, <2>1, TableFlat
<1>6. /\ f \in Seq(HeardBytes) /\ Len(f) = Len(words) * b
      /\ \A i \in 1 .. Len(words) : \A j \in 1 .. b : f[(i - 1) * b + j] = s[i][j]
  BY <1>1, <1>5 DEF InARow
<1>7. ASSUME NEW i \in 1 .. Len(words), NEW j \in 1 .. b
      PROVE  f[(i - 1) * b + j] = <<x, ByteOf(words[i], width - 8 * j)>>
  <2>1. f[(i - 1) * b + j] = s[i][j]  BY <1>6
  <2>2. s[i][j] = <<x, ByteOf(words[i], width - 8 * j)>>  BY <1>1, <1>3
  <2> QED
    BY <2>1, <2>2, Zenon
<1>8. AreBytes(x, width, words, b, f)
  BY <1>6, <1>7 DEF AreBytes
<1> QED
  BY <1>8 DEF f

\* Words that are bytes already.
LEMMA BytesInBytes ==
  ASSUME NEW x \in {0, 1}, NEW bytes \in Seq(Octets)
  PROVE  InBytes(x, 8, bytes) = [k \in 1 .. Len(bytes) |-> <<x, bytes[k]>>]
<1>1. /\ Len(bytes) \in Nat
      /\ \A i \in 1 .. Len(bytes) : bytes[i] \in Octets
  BY LenProperties, ElementOfSeq
<1>2. bytes \in Seq(Nat)
  <2>1. Octets \subseteq Nat  BY OctetsAre
  <2> QED
    BY <2>1, SeqMonotonic
<1>3. PICK w : w = 8
  OBVIOUS
<1>4. w \in {8, 16, 24} /\ 1 = w \div 8 /\ w - 8 * 1 = 0 /\ 1 \in Nat
  BY <1>3
<1>5. /\ InBytes(x, w, bytes) \in Seq(HeardBytes)
      /\ Len(InBytes(x, w, bytes)) = Len(bytes) * 1
      /\ \A i \in 1 .. Len(bytes) : \A j \in 1 .. 1 :
           InBytes(x, w, bytes)[(i - 1) * 1 + j] = <<x, ByteOf(bytes[i], w - 8 * j)>>
  <2>1. AreBytes(x, w, bytes, 1, InBytes(x, w, bytes))  BY <1>2, <1>4, InBytesAre
  <2> QED
    BY <2>1 DEF AreBytes
<1>6. ASSUME NEW i \in 1 .. Len(bytes) PROVE InBytes(x, w, bytes)[i] = <<x, bytes[i]>>
  <2>1. (i - 1) * 1 + 1 = i /\ 1 \in 1 .. 1  BY <1>1
  <2>2. InBytes(x, w, bytes)[i] = <<x, ByteOf(bytes[i], 0)>>
    BY <1>4, <1>5, <2>1
  <2>3. ByteOf(bytes[i], 0) = bytes[i]
    BY <1>1, OctetsAre, Powers DEF ByteOf
  <2> QED
    BY <2>2, <2>3
<1>7. PICK f \in Seq(HeardBytes) : f = InBytes(x, w, bytes)
  BY <1>5
<1>8. Len(f) = Len(bytes)
  BY <1>1, <1>5, <1>7
<1>9. f = [k \in 1 .. Len(bytes) |-> f[k]]
  BY <1>8, LenProperties
<1>10. f = [k \in 1 .. Len(bytes) |-> <<x, bytes[k]>>]
  BY <1>6, <1>7, <1>9
<1> QED
  BY <1>3, <1>7, <1>10

\* f is, in a row, words cut into b bytes each.
AreCut(width, words, b, f) ==
  /\ f \in Seq(Octets) /\ Len(f) = Len(words) * b
  /\ \A i \in 1 .. Len(words) : \A j \in 1 .. b :
       f[(i - 1) * b + j] = ByteOf(words[i], width - 8 * j)

LEMMA AsBytesAre ==
  ASSUME NEW width \in {16, 24}, NEW words \in Seq(Nat), NEW b \in Nat, b = width \div 8
  PROVE  AreCut(width, words, b, AsBytes(width, words))
<1> DEFINE row(w) == IF width = 16 THEN <<Hi(w), Lo(w)>>
                     ELSE <<(w \div 65536) % 256, Hi(w), Lo(w)>>
           s == [i \in DOMAIN words |-> row(words[i])]
           f == AsBytes(width, words)
<1>1. /\ DOMAIN words = 1 .. Len(words) /\ Len(words) \in Nat
      /\ \A i \in 1 .. Len(words) : words[i] \in Nat
  BY LenProperties, ElementOfSeq
<1>2. f = FlattenSeq(s)
  BY DEF AsBytes
<1>3. ASSUME NEW w \in Nat
      PROVE  /\ row(w) \in Seq(Octets) /\ Len(row(w)) = b
             /\ \A j \in 1 .. b : row(w)[j] = ByteOf(w, width - 8 * j)
  <2>1. /\ ByteOf(w, 16) = (w \div 65536) % 256 /\ ByteOf(w, 8) = Hi(w) /\ ByteOf(w, 0) = Lo(w)
    <3>1. w \div 1 = w  OBVIOUS
    <3> QED
      BY <3>1, Powers DEF ByteOf, Hi, Lo
  <2>2. /\ ByteOf(w, 16) \in Octets /\ ByteOf(w, 8) \in Octets /\ ByteOf(w, 0) \in Octets
    BY ByteUp DEF Octets
  <2>3. CASE width = 16
    <3>1. row(w) = <<Hi(w), Lo(w)>> /\ b = 2  BY <2>3
    <3>2. 16 - 8 * 1 = 8 /\ 16 - 8 * 2 = 0 /\ \A j \in 1 .. 2 : j = 1 \/ j = 2  OBVIOUS
    <3>3. row(w) = <<ByteOf(w, 8), ByteOf(w, 0)>>  BY <2>1, <3>1
    <3> HIDE DEF row
    <3> QED
      BY <2>2, <2>3, <3>1, <3>2, <3>3
  <2>4. CASE width = 24
    <3>1. row(w) = <<(w \div 65536) % 256, Hi(w), Lo(w)>> /\ b = 3  BY <2>4
    <3>2. /\ 24 - 8 * 1 = 16 /\ 24 - 8 * 2 = 8 /\ 24 - 8 * 3 = 0
          /\ \A j \in 1 .. 3 : j = 1 \/ j = 2 \/ j = 3
      OBVIOUS
    <3>3. row(w) = <<ByteOf(w, 16), ByteOf(w, 8), ByteOf(w, 0)>>  BY <2>1, <3>1
    <3> HIDE DEF row
    <3> QED
      BY <2>2, <2>4, <3>1, <3>2, <3>3
  <2> QED
    BY <2>3, <2>4
<1>4. \A i \in 1 .. Len(words) : s[i] = row(words[i])
  BY <1>1
<1>5. s = [i \in 1 .. Len(words) |-> s[i]]
  BY <1>1
<1> HIDE DEF row, s, f
<1>6. ASSUME NEW i \in 1 .. Len(words)
      PROVE  /\ s[i] \in Seq(Octets) /\ Len(s[i]) = b
             /\ \A j \in 1 .. b : s[i][j] = ByteOf(words[i], width - 8 * j)
  <2>1. PICK w \in Nat : w = words[i]  BY <1>1
  <2>2. s[i] = row(w)  BY <1>4, <2>1
  <2>3. /\ row(w) \in Seq(Octets) /\ Len(row(w)) = b
        /\ \A j \in 1 .. b : row(w)[j] = ByteOf(w, width - 8 * j)
    BY <1>3
  <2> QED
    BY <2>1, <2>2, <2>3, Zenon
<1>7. s \in Seq(Seq(Octets)) /\ Len(s) = Len(words)
  BY <1>1, <1>5, <1>6, Listed
<1>8. InARow(Octets, s, b, f)
  <2>1. Table(Octets, s, b)  BY <1>6, <1>7 DEF Table
  <2> QED
    BY <1>2, <2>1, TableFlat
<1>9. /\ f \in Seq(Octets) /\ Len(f) = Len(words) * b
      /\ \A i \in 1 .. Len(words) : \A j \in 1 .. b : f[(i - 1) * b + j] = s[i][j]
  BY <1>7, <1>8 DEF InARow
<1>10. ASSUME NEW i \in 1 .. Len(words), NEW j \in 1 .. b
       PROVE  f[(i - 1) * b + j] = ByteOf(words[i], width - 8 * j)
  <2>1. f[(i - 1) * b + j] = s[i][j]  BY <1>9
  <2>2. s[i][j] = ByteOf(words[i], width - 8 * j)  BY <1>6
  <2> QED
    BY <2>1, <2>2, Zenon
<1>11. AreCut(width, words, b, f)
  BY <1>9, <1>10 DEF AreCut
<1> QED
  BY <1>11 DEF f

LEMMA SameBytes ==
  ASSUME NEW x \in {0, 1}, NEW width \in {16, 24}, NEW words \in Seq(Nat)
  PROVE  InBytes(x, 8, AsBytes(width, words)) = InBytes(x, width, words)
<1> DEFINE f == AsBytes(width, words)
           g == InBytes(x, width, words)
<1>1. PICK b \in {1, 2, 3} : b = width \div 8 /\ b \in Nat
  OBVIOUS
<1>2. /\ f \in Seq(Octets) /\ Len(f) = Len(words) * b
      /\ \A i \in 1 .. Len(words) : \A j \in 1 .. b :
           f[(i - 1) * b + j] = ByteOf(words[i], width - 8 * j)
  <2>1. AreCut(width, words, b, f)  BY <1>1, AsBytesAre
  <2> QED
    BY <2>1 DEF AreCut
<1>3. AreBytes(x, width, words, b, g)
  BY <1>1, InBytesAre
<1>4. InBytes(x, 8, f) = [k \in 1 .. Len(f) |-> <<x, f[k]>>]
  BY <1>2, BytesInBytes
<1> HIDE DEF f, g
<1>5. /\ g \in Seq(HeardBytes) /\ Len(g) = Len(f)
      /\ \A i \in 1 .. Len(words) : \A j \in 1 .. b :
           g[(i - 1) * b + j] = <<x, ByteOf(words[i], width - 8 * j)>>
  BY <1>2, <1>3 DEF AreBytes
<1>6. ASSUME NEW k \in 1 .. Len(f) PROVE g[k] = <<x, f[k]>>
  <2>1. Len(words) \in Nat /\ k \in 1 .. Len(words) * b  BY <1>2, LenProperties
  <2>2. PICK i \in 1 .. Len(words), j \in 1 .. b : k = (i - 1) * b + j  BY <2>1, Splits
  <2>3. f[(i - 1) * b + j] = ByteOf(words[i], width - 8 * j)  BY <1>2, <2>2
  <2>4. g[(i - 1) * b + j] = <<x, ByteOf(words[i], width - 8 * j)>>  BY <1>5, <2>2
  <2> QED
    BY <2>2, <2>3, <2>4, Zenon
<1>7. g = [k \in 1 .. Len(f) |-> g[k]]
  BY <1>5, LenProperties
<1>8. g = [k \in 1 .. Len(f) |-> <<x, f[k]>>]
  BY <1>6, <1>7
<1> QED
  BY <1>4, <1>8 DEF f, g

\* The bytes of chunks in a row.
EachInBytes(x, width, c) == [k \in 1 .. Len(c) |-> InBytes(x, width, c[k])]

LEMMA InBytesNone ==
  ASSUME NEW x \in {0, 1}, NEW width \in {8, 16, 24}
  PROVE  InBytes(x, width, <<>>) = <<>>
<1>1. PICK none \in Seq(Nat) : none = <<>>
  BY EmptySeq
<1>2. InBytes(x, width, none) = FlattenSeq(Rows(x, width, none))
  BY RowsAre
<1>3. Rows(x, width, <<>>) = <<>>
  BY DEF Rows
<1> QED
  BY <1>1, <1>2, <1>3, FlattenNone

LEMMA InBytesOfChunks ==
  ASSUME NEW x \in {0, 1}, NEW width \in {8, 16, 24}, NEW c \in Seq(Seq(Nat))
  PROVE  /\ EachInBytes(x, width, c) \in Seq(Seq(HeardBytes))
         /\ FlattenSeq(EachInBytes(x, width, c)) = InBytes(x, width, FlattenSeq(c))
<1> DEFINE F(d) == EachInBytes(x, width, d)
           Is(d) == /\ F(d) \in Seq(Seq(HeardBytes))
                    /\ FlattenSeq(F(d)) = InBytes(x, width, FlattenSeq(d))
           N == {n \in Nat : \A d \in Seq(Seq(Nat)) : Len(d) = n => Is(d)}
<1>1. \A w \in Seq(Nat) : InBytes(x, width, w) \in Seq(HeardBytes)
  BY InBytesType
<1>2. 0 \in N
  <2>1. ASSUME NEW d \in Seq(Seq(Nat)), Len(d) = 0 PROVE Is(d)
    <3>1. d = <<>>  BY <2>1, EmptySeq
    <3>2. F(d) = <<>>  BY <2>1 DEF EachInBytes
    <3>3. InBytes(x, width, <<>>) = <<>>  BY InBytesNone
    <3>4. <<>> \in Seq(Seq(HeardBytes))  BY EmptySeq
    <3> QED
      BY <3>1, <3>2, <3>3, <3>4, FlattenNone
  <2> QED
    BY <2>1
<1>3. ASSUME NEW n \in N PROVE n + 1 \in N
  <2>1. ASSUME NEW d \in Seq(Seq(Nat)), Len(d) = n + 1 PROVE Is(d)
    <3>1. d # <<>>  BY <2>1, EmptySeq
    <3>2. PICK e \in Seq(Seq(Nat)), w \in Seq(Nat) : d = Append(e, w)
      BY <3>1, SequenceEmptyOrAppend
    <3>3. /\ Len(e) = n /\ Len(e) \in Nat /\ d[Len(e) + 1] = w
          /\ \A i \in 1 .. Len(e) : d[i] = e[i]
      BY <2>1, <3>2, AppendProperties, LenProperties
    <3>4. Is(e)  BY <3>3
    <3>5. PICK y \in Seq(HeardBytes) : y = InBytes(x, width, w)  BY <1>1
    <3>6. PICK fe \in Seq(Seq(HeardBytes)) : fe = F(e)  BY <3>4
    <3>7. F(d) = Append(fe, y)
      <4>1. /\ Len(fe) = Len(e) /\ \A i \in 1 .. Len(e) : fe[i] = InBytes(x, width, e[i])
        BY <3>3, <3>6 DEF EachInBytes
      <4>2. /\ Append(fe, y) \in Seq(Seq(HeardBytes)) /\ Len(Append(fe, y)) = Len(e) + 1
            /\ Append(fe, y)[Len(e) + 1] = y /\ \A i \in 1 .. Len(e) : Append(fe, y)[i] = fe[i]
        BY <4>1, AppendProperties
      <4>3. PICK g : g = F(d)  OBVIOUS
      <4>4. /\ g = [k \in 1 .. Len(d) |-> g[k]]
            /\ \A k \in 1 .. Len(d) : g[k] = InBytes(x, width, d[k])
        BY <4>3 DEF EachInBytes
      <4>5. \A k \in 1 .. Len(d) : g[k] = Append(fe, y)[k]
        <5> TAKE k \in 1 .. Len(d)
        <5>1. CASE k = Len(e) + 1  BY <3>3, <3>5, <4>2, <4>4, <5>1
        <5>2. CASE k # Len(e) + 1
          <6>1. k \in 1 .. Len(e)  BY <2>1, <3>3, <5>2
          <6> QED
            BY <3>3, <4>1, <4>2, <4>4, <6>1, ZenonT(30)
        <5> QED
          BY <5>1, <5>2
      <4>6. g \in Seq(Seq(HeardBytes)) /\ Len(g) = Len(d)
        <5>1. Len(d) \in Nat /\ Len(d) = Len(e) + 1  BY <2>1, <3>3
        <5>2. \A k \in 1 .. Len(d) : g[k] \in Seq(HeardBytes)
          <6>1. \A k \in 1 .. Len(d) : d[k] \in Seq(Nat)  BY ElementOfSeq
          <6> QED
            BY <1>1, <4>4, <6>1
        <5> QED
          BY <4>4, <5>1, <5>2, Listed
      <4>7. Len(d) = Len(e) + 1  BY <2>1, <3>3
      <4>8. g = Append(fe, y)
        <5>1. PICK h \in Seq(Seq(HeardBytes)) : h = Append(fe, y)  BY <4>2
        <5>2. /\ Len(g) = Len(h) /\ \A k \in 1 .. Len(g) : g[k] = h[k]
          BY <4>2, <4>5, <4>6, <4>7, <5>1
        <5>3. g \in Seq(Seq(HeardBytes))  BY <4>6
        <5>4. g = h  BY <5>2, <5>3, SeqEqual
        <5> QED
          BY <5>1, <5>4
      <4> QED
        BY <4>3, <4>8
    <3>8. FlattenSeq(F(d)) = FlattenSeq(fe) \o y  BY <3>7, FlattenAppend
    <3>9. FlattenSeq(d) = FlattenSeq(e) \o w  BY <3>2, FlattenAppend
    <3>10. FlattenSeq(e) \in Seq(Nat)  BY FlattenType
    <3>11. InBytes(x, width, FlattenSeq(e) \o w) = InBytes(x, width, FlattenSeq(e)) \o y
      BY <3>5, <3>10, InBytesConcat
    <3>12. F(d) \in Seq(Seq(HeardBytes))
      BY <3>7, AppendProperties
    <3> QED
      BY <3>4, <3>6, <3>8, <3>9, <3>11, <3>12
  <2> QED
    BY <2>1
<1>4. N = Nat
  <2>1. N \in SUBSET Nat  OBVIOUS
  <2> HIDE DEF N
  <2> QED
    BY <1>2, <1>3, <2>1, Induction
<1>5. Len(c) \in N
  BY <1>4, LenProperties
<1> QED
  BY <1>5

-----------------------------------------------------------------------------
(* No-ops.                                                                    *)
NoNop(e) == IF e = <<0, 0>> THEN <<>> ELSE <<e>>
EachNoNop(bytes) == [i \in DOMAIN bytes |-> NoNop(bytes[i])]
NoNops(bytes) == FlattenSeq(EachNoNop(bytes))

\* WithoutNops, on the interface s.
W(s, bytes) == IF s.mode # "3wire" THEN bytes ELSE NoNops(bytes)

LEMMA NoNopIs ==
  ASSUME NEW S, NEW e \in S
  PROVE  NoNop(e) \in Seq(S)
<1>1. <<>> \in Seq(S)  BY EmptySeq
<1>2. <<e>> \in Seq(S)  OBVIOUS
<1> QED
  BY <1>1, <1>2 DEF NoNop

LEMMA EachNoNopIs ==
  ASSUME NEW S, NEW a \in Seq(S)
  PROVE  /\ EachNoNop(a) \in Seq(Seq(S)) /\ Len(EachNoNop(a)) = Len(a)
         /\ \A i \in 1 .. Len(a) : EachNoNop(a)[i] = NoNop(a[i])
<1>1. /\ DOMAIN a = 1 .. Len(a) /\ Len(a) \in Nat
      /\ \A i \in 1 .. Len(a) : a[i] \in S
  BY LenProperties, ElementOfSeq
<1>2. PICK f : f = EachNoNop(a)
  OBVIOUS
<1>3. /\ f = [i \in 1 .. Len(a) |-> f[i]]
      /\ \A i \in 1 .. Len(a) : f[i] = NoNop(a[i])
  BY <1>1, <1>2 DEF EachNoNop
<1>4. \A i \in 1 .. Len(a) : f[i] \in Seq(S)
  BY <1>1, <1>3, NoNopIs
<1>5. f \in Seq(Seq(S)) /\ Len(f) = Len(a)
  BY <1>1, <1>3, <1>4, Listed
<1> QED
  BY <1>2, <1>3, <1>5

LEMMA NoNopsConcat ==
  ASSUME NEW S, NEW a \in Seq(S), NEW b \in Seq(S)
  PROVE  /\ NoNops(a) \in Seq(S) /\ NoNops(b) \in Seq(S)
         /\ NoNops(a \o b) = NoNops(a) \o NoNops(b)
<1>1. /\ EachNoNop(a) \in Seq(Seq(S)) /\ Len(EachNoNop(a)) = Len(a)
      /\ \A i \in 1 .. Len(a) : EachNoNop(a)[i] = NoNop(a[i])
  BY EachNoNopIs
<1>2. /\ EachNoNop(b) \in Seq(Seq(S)) /\ Len(EachNoNop(b)) = Len(b)
      /\ \A i \in 1 .. Len(b) : EachNoNop(b)[i] = NoNop(b[i])
  BY EachNoNopIs
<1>3. PICK c \in Seq(S) : c = a \o b
  <2>1. Joined(S, a, b, a \o b)  BY JoinedIs
  <2> QED
    BY <2>1 DEF Joined
<1>4. /\ EachNoNop(c) \in Seq(Seq(S)) /\ Len(EachNoNop(c)) = Len(c)
      /\ \A i \in 1 .. Len(c) : EachNoNop(c)[i] = NoNop(c[i])
  BY EachNoNopIs
<1>5. PICK ea \in Seq(Seq(S)), eb \in Seq(Seq(S)), ec \in Seq(Seq(S)) :
        ea = EachNoNop(a) /\ eb = EachNoNop(b) /\ ec = EachNoNop(c)
  BY <1>1, <1>2, <1>4
<1>6. Joined(S, a, b, c)
  BY <1>3, JoinedIs
<1>7. PICK d : d = ea \o eb
  OBVIOUS
<1>8. Joined(Seq(S), ea, eb, d)
  BY <1>7, JoinedIs
<1>9. PICK m \in Nat, n \in Nat : m = Len(a) /\ n = Len(b)
  BY LenProperties
<1>10. /\ Len(c) = m + n /\ Len(ec) = m + n /\ Len(d) = m + n /\ d \in Seq(Seq(S))
       /\ \A i \in 1 .. m : c[i] = a[i] /\ d[i] = ea[i]
       /\ \A i \in 1 .. n : c[m + i] = b[i] /\ d[m + i] = eb[i]
  BY <1>1, <1>2, <1>4, <1>5, <1>6, <1>8, <1>9 DEF Joined
<1>11. ASSUME NEW i \in 1 .. m + n PROVE ec[i] = d[i]
  <2>0. ec[i] = NoNop(c[i])  BY <1>4, <1>5, <1>10
  <2>1. CASE i <= m
    <3>1. i \in 1 .. m  BY <2>1
    <3>2. c[i] = a[i] /\ d[i] = ea[i]  BY <1>10, <3>1
    <3>3. ea[i] = NoNop(a[i])  BY <1>1, <1>5, <1>9, <3>1
    <3> QED
      BY <2>0, <3>2, <3>3, Zenon
  <2>2. CASE ~(i <= m)
    <3>1. PICK j \in 1 .. n : i = m + j  BY <2>2
    <3>2. c[i] = b[j] /\ d[i] = eb[j]  BY <1>10, <3>1
    <3>3. eb[j] = NoNop(b[j])  BY <1>2, <1>5, <1>9, <3>1
    <3> QED
      BY <2>0, <3>2, <3>3, Zenon
  <2> QED
    BY <2>1, <2>2
<1>12. ec = d
  <2>1. Len(ec) = Len(d) /\ \A i \in 1 .. Len(ec) : ec[i] = d[i]
    BY <1>10, <1>11
  <2>2. d \in Seq(Seq(S))
    BY <1>10
  <2> QED
    BY <2>1, <2>2, SeqEqual
<1>13. FlattenSeq(ea) \in Seq(S) /\ FlattenSeq(eb) \in Seq(S)
  BY FlattenType
<1>14. FlattenSeq(ea \o eb) = FlattenSeq(ea) \o FlattenSeq(eb)
  BY <1>13, FlattenConcat, SMTT(30)
<1> QED
  BY <1>3, <1>5, <1>7, <1>12, <1>13, <1>14 DEF NoNops

LEMMA NoNopsNone == NoNops(<<>>) = <<>>
<1>1. EachNoNop(<<>>) = <<>>
  BY DEF EachNoNop
<1> QED
  BY <1>1, FlattenNone DEF NoNops

LEMMA WConcat ==
  ASSUME NEW s, NEW S, NEW a \in Seq(S), NEW b \in Seq(S)
  PROVE  W(s, a) \in Seq(S) /\ W(s, b) \in Seq(S) /\ W(s, a \o b) = W(s, a) \o W(s, b)
BY NoNopsConcat DEF W

LEMMA WNone == \A s : W(s, <<>>) = <<>>
BY NoNopsNone DEF W

\* What pads is forgotten.
LEMMA NoNopsPad ==
  ASSUME NEW n \in 0 .. 7
  PROVE  NoNops([i \in 1 .. n |-> <<0, 0>>]) = <<>>
<1> DEFINE pad(m) == [i \in 1 .. m |-> <<0, 0>>]
           z == <<0, 0>>
<1>1. ASSUME NEW m \in Nat PROVE pad(m) \in Seq({z}) /\ Len(pad(m)) = m
  OBVIOUS
<1>0. pad(0) = <<>>
  OBVIOUS
<1>a. pad(n) = [i \in 1 .. n |-> <<0, 0>>]
  OBVIOUS
<1>b. \A i : <<i>> \in Seq({i})
  OBVIOUS
<1>c. \A q : q = z => NoNop(q) = <<>>
  BY DEF NoNop
<1> HIDE DEF pad, z
<1>2. ASSUME NEW m \in Nat, NoNops(pad(m)) = <<>> PROVE NoNops(pad(m + 1)) = <<>>
  <2>1. PICK p \in Seq({z}) : p = pad(m)  BY <1>1
  <2>2. pad(m + 1) = p \o <<z>>
    <3>1. PICK q \in Seq({z}) : q = pad(m + 1)  BY <1>1
    <3>2. PICK r : r = p \o <<z>>  OBVIOUS
    <3>3. Joined({z}, p, <<z>>, r)
      <4>1. <<z>> \in Seq({z})  BY <1>b
      <4> QED
        BY <3>2, <4>1, JoinedIs
    <3>4. r \in Seq({z}) /\ Len(r) = m + 1
      BY <1>1, <2>1, <3>3 DEF Joined
    <3>5. Len(q) = m + 1 /\ \A i \in 1 .. m + 1 : q[i] = z
      <4>1. Len(q) = m + 1  BY <1>1, <3>1
      <4>2. \A i \in 1 .. Len(q) : q[i] \in {z}  BY ElementOfSeq
      <4> QED
        BY <4>1, <4>2
    <3>6. \A i \in 1 .. m + 1 : r[i] = z
      <4>1. \A i \in 1 .. m + 1 : r[i] \in {z}  BY <3>4, ElementOfSeq
      <4> QED
        BY <4>1
    <3>7. q = r
      <4>1. \A i \in 1 .. Len(q) : q[i] = r[i]  BY <3>5, <3>6
      <4> QED
        BY <3>4, <3>5, <4>1, SeqEqual
    <3> QED
      BY <3>1, <3>2, <3>7
  <2>3. <<z>> \in Seq({z})  BY <1>b
  <2>4. NoNops(p \o <<z>>) = NoNops(p) \o NoNops(<<z>>)  BY <2>3, NoNopsConcat
  <2>5. NoNops(<<z>>) = <<>>
    <3>1. EachNoNop(<<z>>) = << <<>> >>
      <4>1. EachNoNop(<<z>>) = <<NoNop(z)>>  BY DEF EachNoNop
      <4> QED
        BY <1>c, <4>1
    <3>2. <<>> \in Seq({z})  BY EmptySeq
    <3> QED
      BY <3>1, <3>2, FlattenOne DEF NoNops
  <2> QED
    <3>1. <<>> \o <<>> = <<>>
      <4>1. <<>> \in Seq({z})  BY EmptySeq
      <4> QED
        BY <4>1, ConcatEmptySeq
    <3> QED
      BY <1>2, <2>1, <2>2, <2>4, <2>5, <3>1
<1>3. NoNops(pad(0)) = <<>>
  BY <1>0, NoNopsNone
<1>4. NoNops(pad(1)) = <<>>  BY <1>2, <1>3
<1>5. NoNops(pad(2)) = <<>>  BY <1>2, <1>4
<1>6. NoNops(pad(3)) = <<>>  BY <1>2, <1>5
<1>7. NoNops(pad(4)) = <<>>  BY <1>2, <1>6
<1>8. NoNops(pad(5)) = <<>>  BY <1>2, <1>7
<1>9. NoNops(pad(6)) = <<>>  BY <1>2, <1>8
<1>10. NoNops(pad(7)) = <<>>  BY <1>2, <1>9
<1>11. NoNops(pad(n)) = <<>>
  BY <1>3, <1>4, <1>5, <1>6, <1>7, <1>8, <1>9, <1>10
<1> QED
  BY <1>11, <1>a

-----------------------------------------------------------------------------
(* The words of nine bits.                                                    *)
Nines == 0 .. 511

LEMMA NinesAre ==
  \A q \in Nines : q \in Nat /\ <<q \div 256, q % 256>> \in HeardBytes
<1> TAKE q \in Nines
<1>1. q \in 0 .. 511  BY DEF Nines
<1>2. q \in Nat /\ q \div 256 \in {0, 1} /\ q % 256 \in 0 .. 255  BY <1>1
<1> QED
  BY <1>2 DEF HeardBytes

LEMMA NineBitIs ==
  \A x \in {0, 1} : \A q \in Octets :
    /\ NineBit(x, q) \in Nines
    /\ NineBit(x, q) \div 256 = x /\ NineBit(x, q) % 256 = q
<1> TAKE x \in {0, 1}
<1> TAKE q \in Octets
<1>1. q \in 0 .. 255  BY DEF Octets
<1>2. CASE x = 1
  <2>1. NineBit(x, q) = 256 + q  BY <1>2 DEF NineBit
  <2> QED
    BY <1>1, <1>2, <2>1 DEF Nines
<1>3. CASE x = 0
  <2>1. NineBit(x, q) = q  BY <1>3 DEF NineBit
  <2> QED
    BY <1>1, <1>3, <2>1 DEF Nines
<1> QED
  BY <1>2, <1>3

LEMMA NineBytesAre ==
  ASSUME NEW v \in Seq(Nines)
  PROVE  /\ NineBytes(v) \in Seq(HeardBytes) /\ Len(NineBytes(v)) = Len(v)
         /\ \A i \in 1 .. Len(v) : NineBytes(v)[i] = <<v[i] \div 256, v[i] % 256>>
<1>1. Len(v) \in Nat /\ \A i \in 1 .. Len(v) : v[i] \in Nines
  BY LenProperties, ElementOfSeq
<1>2. PICK f : f = NineBytes(v)
  OBVIOUS
<1>3. /\ f = [i \in 1 .. Len(v) |-> f[i]]
      /\ \A i \in 1 .. Len(v) : f[i] = <<v[i] \div 256, v[i] % 256>>
  BY <1>2 DEF NineBytes
<1>4. \A i \in 1 .. Len(v) : f[i] \in HeardBytes
  <2> TAKE i \in 1 .. Len(v)
  <2>1. v[i] \in Nines  BY <1>1
  <2>2. <<v[i] \div 256, v[i] % 256>> \in HeardBytes  BY <2>1, NinesAre
  <2> QED
    BY <1>3, <2>2, ZenonT(30)
<1>5. f \in Seq(HeardBytes) /\ Len(f) = Len(v)
  BY <1>1, <1>3, <1>4, Listed
<1> QED
  BY <1>2, <1>3, <1>5

LEMMA NineBytesConcat ==
  ASSUME NEW a \in Seq(Nines), NEW b \in Seq(Nines)
  PROVE  NineBytes(a \o b) = NineBytes(a) \o NineBytes(b)
<1>1. PICK c \in Seq(Nines) : c = a \o b /\ Joined(Nines, a, b, c)
  <2>1. Joined(Nines, a, b, a \o b)  BY JoinedIs
  <2>2. a \o b \in Seq(Nines)  BY <2>1 DEF Joined
  <2> QED
    BY <2>1, <2>2
<1>2. PICK ea \in Seq(HeardBytes), eb \in Seq(HeardBytes), ec \in Seq(HeardBytes) :
        ea = NineBytes(a) /\ eb = NineBytes(b) /\ ec = NineBytes(c)
  BY NineBytesAre
<1>3. PICK d : d = ea \o eb
  OBVIOUS
<1>4. Joined(HeardBytes, ea, eb, d)
  BY <1>3, JoinedIs
<1>5. PICK m \in Nat, n \in Nat : m = Len(a) /\ n = Len(b)
  BY LenProperties
<1>6. Len(ea) = m /\ Len(eb) = n
  BY <1>2, <1>5, NineBytesAre
<1>7. /\ Len(c) = m + n /\ Len(d) = m + n /\ d \in Seq(HeardBytes)
      /\ \A i \in 1 .. m : c[i] = a[i] /\ d[i] = ea[i]
      /\ \A i \in 1 .. n : c[m + i] = b[i] /\ d[m + i] = eb[i]
  BY <1>1, <1>4, <1>5, <1>6 DEF Joined
<1>8. Len(ec) = m + n
  BY <1>2, <1>7, NineBytesAre
<1>9. ASSUME NEW i \in 1 .. m + n PROVE ec[i] = d[i]
  <2>0. ec[i] = <<c[i] \div 256, c[i] % 256>>  BY <1>2, <1>7, NineBytesAre
  <2>1. CASE i <= m
    <3>1. i \in 1 .. m  BY <2>1
    <3>2. c[i] = a[i] /\ d[i] = ea[i]  BY <1>7, <3>1
    <3>3. ea[i] = <<a[i] \div 256, a[i] % 256>>  BY <1>2, <1>5, <3>1, NineBytesAre
    <3> QED
      BY <2>0, <3>2, <3>3, ZenonT(30)
  <2>2. CASE ~(i <= m)
    <3>1. PICK j \in 1 .. n : i = m + j  BY <2>2
    <3>2. c[i] = b[j] /\ d[i] = eb[j]  BY <1>7, <3>1
    <3>3. eb[j] = <<b[j] \div 256, b[j] % 256>>  BY <1>2, <1>5, NineBytesAre
    <3> QED
      BY <2>0, <3>2, <3>3, ZenonT(30)
  <2> QED
    BY <2>1, <2>2
<1>10. ec = d
  <2>1. Len(ec) = Len(d) /\ \A i \in 1 .. Len(ec) : ec[i] = d[i]
    BY <1>7, <1>8, <1>9
  <2>2. d \in Seq(HeardBytes)
    BY <1>7
  <2> QED
    BY <2>1, <2>2, SeqEqual
<1> QED
  BY <1>1, <1>2, <1>3, <1>10

NinesOf(x, bytes) == [i \in 1 .. Len(bytes) |-> NineBit(x, bytes[i])]

LEMMA NinesOfAre ==
  ASSUME NEW x \in {0, 1}, NEW bytes \in Seq(Octets)
  PROVE  /\ NinesOf(x, bytes) \in Seq(Nines) /\ Len(NinesOf(x, bytes)) = Len(bytes)
         /\ NineBytes(NinesOf(x, bytes)) = InBytes(x, 8, bytes)
<1>1. Len(bytes) \in Nat /\ \A i \in 1 .. Len(bytes) : bytes[i] \in Octets
  BY LenProperties, ElementOfSeq
<1>2. PICK f : f = NinesOf(x, bytes)
  OBVIOUS
<1>3. /\ f = [i \in 1 .. Len(bytes) |-> f[i]]
      /\ \A i \in 1 .. Len(bytes) : f[i] = NineBit(x, bytes[i])
  BY <1>2 DEF NinesOf
<1>4. \A i \in 1 .. Len(bytes) :
        f[i] \in Nines /\ f[i] \div 256 = x /\ f[i] % 256 = bytes[i]
  BY <1>1, <1>3, NineBitIs
<1>5. f \in Seq(Nines) /\ Len(f) = Len(bytes)
  BY <1>1, <1>3, <1>4, Listed
<1>6. NineBytes(f) = [k \in 1 .. Len(bytes) |-> <<x, bytes[k]>>]
  BY <1>4, <1>5 DEF NineBytes
<1>7. InBytes(x, 8, bytes) = [k \in 1 .. Len(bytes) |-> <<x, bytes[k]>>]
  BY BytesInBytes
<1> QED
  BY <1>2, <1>5, <1>6, <1>7

\* As many as there are up to a multiple of 8.
LEMMA PadLength ==
  ASSUME NEW l \in Nat, NEW p, p = (8 - (l % 8)) % 8
  PROVE  /\ p \in 0 .. 7 /\ (p + l) % 8 = 0
         /\ \A q \in Nat : q % 8 = 0 /\ l < q => p + l <= q
OBVIOUS

Pad(n) == [i \in 1 .. n |-> 0]

LEMMA PadIs ==
  ASSUME NEW n \in 0 .. 7
  PROVE  Pad(n) \in Seq(Nines) /\ Len(Pad(n)) = n /\ NoNops(NineBytes(Pad(n))) = <<>>
<1>1. Pad(n) \in Seq(Nines) /\ Len(Pad(n)) = n /\ \A i \in 1 .. n : Pad(n)[i] = 0
  BY DEF Pad, Nines
<1>2. NineBytes(Pad(n)) = [i \in 1 .. n |-> <<0, 0>>]
  <2>1. 0 \div 256 = 0 /\ 0 % 256 = 0  OBVIOUS
  <2> QED
    BY <1>1, <2>1 DEF NineBytes
<1> QED
  BY <1>1, <1>2, NoNopsPad

LEMMA PaddedIs ==
  ASSUME NEW x \in {0, 1}, NEW bytes \in Seq(Octets)
  PROVE  /\ Padded(x, bytes) \in Seq(Nines) /\ Len(Padded(x, bytes)) % 8 = 0
         /\ NoNops(NineBytes(Padded(x, bytes))) = NoNops(InBytes(x, 8, bytes))
         /\ \A q \in Nat : q % 8 = 0 /\ Len(bytes) < q => Len(Padded(x, bytes)) <= q
<1>1. PICK l \in Nat : l = Len(bytes)
  BY LenProperties
<1>2. PICK p \in 0 .. 7 : p = (8 - (l % 8)) % 8
  OBVIOUS
<1>3. PICK pad \in Seq(Nines) : pad = Pad(p)
  BY PadIs
<1>4. PICK nine \in Seq(Nines) : nine = NinesOf(x, bytes)
  BY NinesOfAre
<1>5. DOMAIN bytes = 1 .. Len(bytes)
  BY LenProperties
<1>6. Padded(x, bytes) = IF x = 0 THEN pad \o nine ELSE nine \o pad
  BY <1>1, <1>2, <1>3, <1>4, <1>5 DEF Padded, Pad, NinesOf
<1>7. Len(pad) = p /\ Len(nine) = l
  BY <1>1, <1>3, <1>4, PadIs, NinesOfAre
<1>8. NoNops(NineBytes(pad)) = <<>> /\ NineBytes(nine) = InBytes(x, 8, bytes)
  BY <1>3, <1>4, PadIs, NinesOfAre
<1>9. PICK hp \in Seq(HeardBytes), hn \in Seq(HeardBytes) :
        hp = NineBytes(pad) /\ hn = NineBytes(nine)
  BY NineBytesAre
<1>10. /\ NoNops(hp \o hn) = NoNops(hn) /\ NoNops(hn \o hp) = NoNops(hn)
  <2>1. PICK z \in Seq(HeardBytes) : z = NoNops(hn)  BY NoNopsConcat
  <2>2. /\ NoNops(hp \o hn) = NoNops(hp) \o NoNops(hn)
        /\ NoNops(hn \o hp) = NoNops(hn) \o NoNops(hp)
    BY NoNopsConcat
  <2>3. z \o <<>> = z /\ <<>> \o z = z  BY ConcatEmptySeq
  <2> QED
    BY <1>8, <1>9, <2>1, <2>2, <2>3
<1>11. /\ (p + l) % 8 = 0
       /\ \A q \in Nat : q % 8 = 0 /\ l < q => p + l <= q
  BY <1>2, PadLength
<1>12. CASE x = 0
  <2>1. PICK v : v = pad \o nine  OBVIOUS
  <2>2. Joined(Nines, pad, nine, v)  BY <2>1, JoinedIs
  <2>3. v \in Seq(Nines) /\ Len(v) = p + l  BY <1>7, <2>2 DEF Joined
  <2>4. NineBytes(v) = hp \o hn  BY <1>9, <2>1, NineBytesConcat
  <2>5. NoNops(NineBytes(v)) = NoNops(InBytes(x, 8, bytes))
    BY <1>8, <1>9, <1>10, <2>4
  <2>6. Padded(x, bytes) = v  BY <1>6, <1>12, <2>1
  <2> QED
    BY <1>1, <1>11, <2>3, <2>5, <2>6
<1>13. CASE x = 1
  <2>1. PICK v : v = nine \o pad  OBVIOUS
  <2>2. Joined(Nines, nine, pad, v)  BY <2>1, JoinedIs
  <2>3. v \in Seq(Nines) /\ Len(v) = p + l  BY <1>7, <2>2 DEF Joined
  <2>4. NineBytes(v) = hn \o hp  BY <1>9, <2>1, NineBytesConcat
  <2>5. NoNops(NineBytes(v)) = NoNops(InBytes(x, 8, bytes))
    BY <1>8, <1>9, <1>10, <2>4
  <2>6. Padded(x, bytes) = v  BY <1>6, <1>13, <2>1
  <2> QED
    BY <1>1, <1>11, <2>3, <2>5, <2>6
<1> QED
  BY <1>12, <1>13

\* The words of a width.
Values(width) == 0 .. 2 ^ width - 1

LEMMA ValuesAre ==
  /\ Values(8) = Octets /\ Values(9) = Nines
  /\ \A width \in Sizes : Values(width) \subseteq Nat
<1>1. Values(8) = 0 .. 255 /\ Values(9) = 0 .. 511
  BY Powers DEF Values
<1>2. \A width \in Sizes : Values(width) \subseteq Nat
  BY DEF Values
<1> QED
  BY <1>1, <1>2 DEF Octets, Nines

LEMMA ChunkSent ==
  ASSUME NEW x \in {0, 1}, NEW width \in {8, 16}, NEW c \in Seq(Values(width))
  PROVE  /\ NineBitChunk(x, width, c) \in Seq(Nines)
         /\ Len(NineBitChunk(x, width, c)) = 2 * Len(c)
         /\ width = 16 => NineBytes(NineBitChunk(x, width, c)) = InBytes(x, width, c)
<1>1. PICK l \in Nat : l = Len(c)
  BY LenProperties
<1>2. c \in Seq(Nat)
  <2>1. Values(width) \subseteq Nat  BY ValuesAre DEF Sizes
  <2> QED
    BY <2>1, SeqMonotonic
<1>3. CASE width = 16
  <2>1. PICK w : w = 16  OBVIOUS
  <2>2. w \in {16, 24} /\ 2 \in Nat /\ 2 = w \div 8  BY <2>1
  <2>3. AreCut(w, c, 2, AsBytes(w, c))  BY <1>2, <2>2, AsBytesAre
  <2>4. PICK f \in Seq(Octets) : f = AsBytes(16, c) /\ Len(f) = 2 * l
    BY <1>1, <2>1, <2>3 DEF AreCut
  <2>5. NineBitChunk(x, width, c) = NinesOf(x, f)
    BY <1>1, <1>3, <2>4 DEF NineBitChunk, NinesOf
  <2>6. InBytes(x, 8, f) = InBytes(x, w, c)
    BY <1>2, <2>1, <2>2, <2>4, SameBytes
  <2> QED
    BY <1>1, <1>3, <2>1, <2>4, <2>5, <2>6, NinesOfAre
<1>4. CASE width = 8
  <2>1. \A i \in 1 .. l : c[i] \in Octets
    BY <1>1, <1>4, ElementOfSeq, ValuesAre
  <2>2. PICK f : f = NineBitChunk(x, width, c)
    OBVIOUS
  <2>3. /\ f = [i \in 1 .. 2 * l |-> f[i]]
        /\ \A i \in 1 .. 2 * l : f[i] = IF i <= l THEN NineBit(x, c[i]) ELSE Behind
    BY <1>1, <1>4, <2>2 DEF NineBitChunk
  <2>4. Behind \in Nines
    BY PageAssumption DEF Nines
  <2>5. \A i \in 1 .. 2 * l : f[i] \in Nines
    <3> TAKE i \in 1 .. 2 * l
    <3>1. CASE i <= l
      <4>1. i \in 1 .. l  BY <3>1
      <4>2. NineBit(x, c[i]) \in Nines  BY <2>1, <4>1, NineBitIs
      <4> QED
        BY <2>3, <3>1, <4>2
    <3>2. CASE ~(i <= l)
      BY <2>3, <2>4, <3>2
    <3> QED
      BY <3>1, <3>2
  <2>6. 2 * l \in Nat
    OBVIOUS
  <2>7. f \in Seq(Nines) /\ Len(f) = 2 * l
    BY <2>3, <2>5, <2>6, Listed
  <2> QED
    BY <1>1, <1>4, <2>2, <2>7
<1> QED
  BY <1>3, <1>4

-----------------------------------------------------------------------------
(* Transfers, and what the chip hears of them.                                *)
Fields == [index : {0, 1}, width : Sizes, words : Seq(Nat), off : {None} \cup (0 .. P - 1),
           converted : BOOLEAN]
Transfers == {t \in Fields : t.words \in Seq(Values(t.width))}

Bytes(t) == Len(t.words) * BytesPerWord(t.width)
Fits(t) == t.converted => Bytes(t) <= P

\* It can be cut at the pages without cutting what the chip takes for a byte.
Hearable(s, t) ==
  IF s.mode # "3wire" THEN t.width \in {8, 16, 24}
  ELSE /\ t.off = None /\ Bytes(t) <= P
       /\ \/ t.width = 9
          \/ t.width = 8 /\ \E v \in Seq(Nines) : Len(v) % 8 = 0 /\ t.words = Packed(v)

HearW(s, x, width, words) ==
  IF s.mode = "3wire" THEN HearNine(Bits(width, words))
                      ELSE HearEight(x, Bits(width, words))

HearT(s, t) == HearW(s, t.index, t.width, t.words)

LEMMA HeardPlain ==
  ASSUME NEW s, s.mode # "3wire", NEW x \in {0, 1}, NEW width \in {8, 16, 24},
         NEW words \in Seq(Nat)
  PROVE  HearW(s, x, width, words) = InBytes(x, width, words)
<1>1. /\ Len(words) \in Nat /\ DOMAIN words = 1 .. Len(words)
      /\ \A i \in 1 .. Len(words) : words[i] \in Nat
  BY LenProperties, ElementOfSeq
<1>2. Numbers(words, Len(words))
  BY <1>1 DEF Numbers
<1>3. InBytes(x, width, words) = HearEight(x, Bits(width, words))
  BY <1>2, ChipBytes
<1> QED
  BY <1>3 DEF HearW

LEMMA HeardType ==
  ASSUME NEW s, NEW t \in Transfers, Hearable(s, t)
  PROVE  HearT(s, t) \in Seq(HeardBytes)
<1>1. t \in Fields /\ t.words \in Seq(Values(t.width)) /\ t.words \in Seq(Nat) /\ t.index \in {0, 1}
  BY DEF Transfers, Fields
<1>2. CASE s.mode # "3wire"
  <2>1. t.width \in {8, 16, 24}  BY <1>2 DEF Hearable
  <2>2. HearT(s, t) = InBytes(t.index, t.width, t.words)
    BY <1>1, <1>2, <2>1, HeardPlain DEF HearT
  <2> QED
    BY <1>1, <2>1, <2>2, InBytesType
<1>3. CASE s.mode = "3wire"
  <2>1. CASE t.width = 9
    <3>1. t.words \in Seq(Nines)  BY <1>1, <2>1, ValuesAre
    <3>2. HearT(s, t) = NineBytes(t.words)
      BY <1>3, <2>1, <3>1, ChipNine DEF HearT, HearW, Nines
    <3> QED
      BY <3>1, <3>2, NineBytesAre
  <2>2. CASE t.width = 8 /\ \E v \in Seq(Nines) : Len(v) % 8 = 0 /\ t.words = Packed(v)
    <3>1. PICK v \in Seq(Nines) : Len(v) % 8 = 0 /\ t.words = Packed(v)  BY <2>2
    <3>2. HearT(s, t) = NineBytes(v)
      BY <1>3, <2>2, <3>1, ChipPacked DEF HearT, HearW, Nines
    <3> QED
      BY <3>1, <3>2, NineBytesAre
  <2> QED
    BY <1>3, <2>1, <2>2 DEF Hearable
<1> QED
  BY <1>2, <1>3

\* Transfers of words of nine bits.
NineDone(s, x, v, h) ==
  /\ h.ok \in BOOLEAN
  /\ h.ok <=> 9 \in Supported(s) \/ Len(v) % 8 = 0
  /\ ~h.ok => h.todo = <<>>
  /\ h.ok => \E t \in Transfers :
               /\ h.todo = <<t>> /\ t.index = x
               /\ 2 * Len(v) <= P => Hearable(s, t) /\ Fits(t)
               /\ s.mode = "3wire" => HearT(s, t) = NineBytes(v)

LEMMA NineWritten ==
  ASSUME NEW s, s.mode = "3wire", NEW x \in {0, 1}, NEW v \in Seq(Nines)
  PROVE  NineDone(s, x, v, WriteOne(s, x, 9, v, None))
<1>1. PICK l \in Nat : l = Len(v)
  BY LenProperties
<1>2. v \in Seq(Values(9)) /\ v \in Seq(Nat) /\ v \in Seq(0 .. 511)
  <2>1. Nines \subseteq Nat  BY NinesAre
  <2>2. v \in Seq(Nat)  BY <2>1, SeqMonotonic
  <2> QED
    BY <2>2, ValuesAre DEF Nines
<1>3. PICK h : h = WriteOne(s, x, 9, v, None)
  OBVIOUS
<1>4. CASE 9 \in Supported(s)
  <2>1. h = Does(<<Converted(x, 9, v)>>)  BY <1>3, <1>4 DEF WriteOne
  <2>2. PICK t : t = Converted(x, 9, v)  OBVIOUS
  <2>3. /\ t.index = x /\ t.width = 9 /\ t.words = v /\ t.off = None /\ t.converted = TRUE
        /\ t \in Fields
    BY <1>2, <2>2 DEF Converted, Fields, Sizes
  <2>4. t \in Transfers  BY <1>2, <2>3 DEF Transfers
  <2>5. h.ok = TRUE /\ h.todo = <<t>>  BY <2>1, <2>2 DEF Does
  <2>6. Bytes(t) = 2 * l  BY <1>1, <2>3 DEF Bytes, BytesPerWord
  <2>7. 2 * Len(v) <= P => Hearable(s, t) /\ Fits(t)
    BY <1>1, <2>3, <2>6 DEF Hearable, Fits
  <2>8. HearT(s, t) = NineBytes(v)
    BY <1>2, <2>3, ChipNine DEF HearT, HearW
  <2>9. NineDone(s, x, v, h)
    BY <1>4, <2>3, <2>4, <2>5, <2>7, <2>8 DEF NineDone
  <2> QED
    BY <1>3, <2>9
<1>5. CASE 9 \notin Supported(s) /\ Len(v) % 8 = 0
  <2>1. h = Does(<<Converted(x, 8, Packed(v))>>)  BY <1>3, <1>5 DEF WriteOne, Packed
  <2>2. PICK y \in Seq(Octets) : y = Packed(v) /\ 8 * Len(y) = 9 * l
    BY <1>1, <1>2, <1>5, PackedBytes DEF Octets
  <2>3. y \in Seq(Values(8)) /\ y \in Seq(Nat)
    <3>1. Octets \subseteq Nat  BY OctetsAre
    <3>2. y \in Seq(Nat)  BY <3>1, SeqMonotonic
    <3> QED
      BY <3>2, ValuesAre
  <2>4. PICK t : t = Converted(x, 8, y)  OBVIOUS
  <2>5. /\ t.index = x /\ t.width = 8 /\ t.words = y /\ t.off = None /\ t.converted = TRUE
        /\ t \in Fields
    BY <2>3, <2>4 DEF Converted, Fields, Sizes
  <2>6. t \in Transfers  BY <2>3, <2>5 DEF Transfers
  <2>7. h.ok = TRUE /\ h.todo = <<t>>  BY <2>1, <2>2, <2>4 DEF Does
  <2>8. PICK n \in Nat : n = Len(y) /\ 8 * n = 9 * l  BY <2>2, LenProperties
  <2>9. Bytes(t) = n  BY <2>5, <2>8 DEF Bytes, BytesPerWord
  <2>10. 2 * l <= P => n <= P  BY <2>8, PageAssumption
  <2>11. 2 * Len(v) <= P => Hearable(s, t) /\ Fits(t)
    BY <1>1, <1>5, <2>2, <2>5, <2>9, <2>10 DEF Hearable, Fits
  <2>12. HearT(s, t) = NineBytes(v)
    BY <1>2, <1>5, <2>2, <2>5, ChipPacked DEF HearT, HearW
  <2>13. NineDone(s, x, v, h)
    BY <1>5, <2>5, <2>6, <2>7, <2>11, <2>12 DEF NineDone
  <2> QED
    BY <1>3, <2>13
<1>6. CASE 9 \notin Supported(s) /\ Len(v) % 8 # 0
  <2>1. h = Refuses  BY <1>3, <1>6 DEF WriteOne
  <2>2. NineDone(s, x, v, h)  BY <1>6, <2>1 DEF NineDone, Refuses
  <2> QED
    BY <1>3, <2>2
<1> QED
  BY <1>4, <1>5, <1>6

-----------------------------------------------------------------------------
(* The halves of a write.                                                     *)
EachHeard(s, trs) == [k \in 1 .. Len(trs) |-> HearT(s, trs[k])]
HeardAll(s, trs) == FlattenSeq(EachHeard(s, trs))

AllHearable(s, trs) == \A k \in 1 .. Len(trs) : Hearable(s, trs[k]) /\ Fits(trs[k])

HalfTyped(x, h) ==
  /\ h.ok \in BOOLEAN /\ h.todo \in Seq(Transfers)
  /\ \A k \in 1 .. Len(h.todo) : h.todo[k].index = x

\* Why a half is refused.
Reason(s, width, words) ==
  \/ s.mode # "3wire" /\ 8 \notin Supported(s)
  \/ s.mode = "3wire" /\ 9 \in s.param
  \/ s.mode = "3wire" /\ width = 24
  \/ s.mode = "3wire" /\ 9 \notin Supported(s) /\ width = 16 /\ Len(words) % 4 # 0

\* a begins b.
Begins(a, b) == \E u \in Seq(HeardBytes) : a \o u = b

HalfHeard(s, x, width, words, h) ==
  /\ AllHearable(s, h.todo)
  /\ Begins(W(s, HeardAll(s, h.todo)), W(s, InBytes(x, width, words)))
  /\ h.ok => W(s, HeardAll(s, h.todo)) = W(s, InBytes(x, width, words))
  /\ ~h.ok => Reason(s, width, words)

LEMMA EachHeardIs ==
  ASSUME NEW s, NEW trs \in Seq(Transfers), AllHearable(s, trs)
  PROVE  /\ EachHeard(s, trs) \in Seq(Seq(HeardBytes)) /\ Len(EachHeard(s, trs)) = Len(trs)
         /\ \A k \in 1 .. Len(trs) : EachHeard(s, trs)[k] = HearT(s, trs[k])
         /\ HeardAll(s, trs) \in Seq(HeardBytes)
<1>1. Len(trs) \in Nat /\ \A k \in 1 .. Len(trs) : trs[k] \in Transfers
  BY LenProperties, ElementOfSeq
<1>2. PICK f : f = EachHeard(s, trs)
  OBVIOUS
<1>3. f = [k \in 1 .. Len(trs) |-> f[k]] /\ \A k \in 1 .. Len(trs) : f[k] = HearT(s, trs[k])
  BY <1>2 DEF EachHeard
<1>4. \A k \in 1 .. Len(trs) : f[k] \in Seq(HeardBytes)
  BY <1>1, <1>3, HeardType DEF AllHearable
<1>5. f \in Seq(Seq(HeardBytes)) /\ Len(f) = Len(trs)
  BY <1>1, <1>3, <1>4, Listed
<1>6. FlattenSeq(f) \in Seq(HeardBytes)
  BY <1>5, FlattenType
<1> QED
  BY <1>2, <1>3, <1>5, <1>6 DEF HeardAll

LEMMA OneTransfer ==
  ASSUME NEW t \in Transfers
  PROVE  /\ <<t>> \in Seq(Transfers)
         /\ \A k \in 1 .. Len(<<t>>) : <<t>>[k] = t
         /\ \A s : Hearable(s, t) => HeardAll(s, <<t>>) = HearT(s, t)
<1>1. <<t>> \in Seq(Transfers) /\ Len(<<t>>) = 1 /\ <<t>>[1] = t
  OBVIOUS
<1>2. \A k \in 1 .. Len(<<t>>) : <<t>>[k] = t
  BY <1>1
<1>3. ASSUME NEW s, Hearable(s, t) PROVE HeardAll(s, <<t>>) = HearT(s, t)
  <2>1. PICK y \in Seq(HeardBytes) : y = HearT(s, t)  BY <1>3, HeardType
  <2>2. EachHeard(s, <<t>>) = <<y>>  BY <1>1, <2>1 DEF EachHeard
  <2>3. FlattenSeq(<<y>>) = y  BY FlattenOne
  <2> QED
    BY <2>1, <2>2, <2>3 DEF HeardAll
<1> QED
  BY <1>1, <1>2, <1>3

\* The transfers are heard as the chunks.
OfChunks(s, x, width, c, trs) ==
  /\ x \in {0, 1} /\ width \in {8, 16, 24} /\ c \in Seq(Seq(Nat)) /\ Len(trs) = Len(c)
  /\ \A k \in 1 .. Len(c) : HearT(s, trs[k]) = InBytes(x, width, c[k])

LEMMA ManyTransfers ==
  ASSUME NEW s, NEW x, NEW width, NEW c, NEW trs, OfChunks(s, x, width, c, trs)
  PROVE  HeardAll(s, trs) = InBytes(x, width, FlattenSeq(c))
<1>1. EachHeard(s, trs) = EachInBytes(x, width, c)
  BY DEF OfChunks, EachHeard, EachInBytes
<1>2. x \in {0, 1} /\ width \in {8, 16, 24} /\ c \in Seq(Seq(Nat))
  BY DEF OfChunks
<1>3. FlattenSeq(EachInBytes(x, width, c)) = InBytes(x, width, FlattenSeq(c))
  BY <1>2, InBytesOfChunks
<1> QED
  BY <1>1, <1>3 DEF HeardAll

LEMMA BeginsItself ==
  ASSUME NEW a \in Seq(HeardBytes)
  PROVE  Begins(a, a) /\ Begins(<<>>, a)
<1>1. <<>> \in Seq(HeardBytes)
  BY EmptySeq
<1>2. a \o <<>> = a /\ <<>> \o a = a
  BY ConcatEmptySeq
<1> QED
  BY <1>1, <1>2 DEF Begins

LEMMA RefusedHalf ==
  ASSUME NEW s, NEW x \in {0, 1}, NEW width \in {8, 16, 24}, NEW words \in Seq(Nat),
         NEW h, h.todo = <<>>, h.ok = FALSE, Reason(s, width, words)
  PROVE  HalfTyped(x, h) /\ HalfHeard(s, x, width, words, h)
<1>1. h.todo = <<>> /\ h.ok = FALSE /\ Len(h.todo) = 0
  OBVIOUS
<1>2. <<>> \in Seq(Transfers)
  BY EmptySeq
<1>3. HeardAll(s, <<>>) = <<>>
  <2>1. EachHeard(s, <<>>) = <<>>  BY DEF EachHeard
  <2> QED
    BY <2>1, FlattenNone DEF HeardAll
<1>4. W(s, <<>>) = <<>>
  BY WNone
<1>5. PICK m \in Seq(HeardBytes) : m = W(s, InBytes(x, width, words))
  BY InBytesType, WConcat
<1>6. Begins(W(s, HeardAll(s, h.todo)), W(s, InBytes(x, width, words)))
  BY <1>1, <1>3, <1>4, <1>5, BeginsItself
<1>7. AllHearable(s, h.todo)
  BY <1>1 DEF AllHearable
<1>8. HalfTyped(x, h)
  <2>1. h.ok \in BOOLEAN /\ h.todo \in Seq(Transfers)  BY <1>1, <1>2
  <2>2. \A k \in 1 .. Len(h.todo) : h.todo[k].index = x  BY <1>1
  <2> QED
    BY <2>1, <2>2, Zenon DEF HalfTyped
<1>9. HalfHeard(s, x, width, words, h)
  BY <1>1, <1>6, <1>7, Zenon DEF HalfHeard
<1> QED
  BY <1>8, <1>9

Cuts(S, words, n, c) == words \in Seq(S) /\ n \in Nat \ {0} /\ c = Chunked(words, n)
ChunkOf(S, words, n, c, k) ==
  /\ c[k] \in Seq(S) /\ Len(c[k]) \in 1 .. n
  /\ k \in 1 .. Ceil(Len(words), n) /\ Len(c[k]) = ChunkLen(Len(words), n, k)
  /\ ChunkLen(Len(words), n, k) \in 1 .. n

LEMMA AChunk ==
  ASSUME NEW S, NEW words, NEW n, NEW c, Cuts(S, words, n, c), NEW k \in 1 .. Len(c)
  PROVE  ChunkOf(S, words, n, c, k)
<1>0. words \in Seq(S) /\ n \in Nat \ {0} /\ c = Chunked(words, n)
  BY DEF Cuts
<1> USE <1>0
<1>1. c \in Seq(Seq(S)) /\ Len(c) = Ceil(Len(words), n)
  BY ChunksAre
<1>2. k \in 1 .. Ceil(Len(words), n)
  BY <1>1
<1>3. /\ Len(Chunked(words, n)[k]) = ChunkLen(Len(words), n, k)
      /\ ChunkLen(Len(words), n, k) \in 1 .. n
  BY <1>2, ChunksAre
<1>4. c[k] \in Seq(S)
  BY <1>1, ElementOfSeq
<1> QED
  BY <1>2, <1>3, <1>4 DEF ChunkOf

\* Words, or bytes, in the order of memory.
LEMMA PlainHalf ==
  ASSUME NEW s, s.mode # "3wire", NEW x \in {0, 1}, NEW width \in {8, 16, 24},
         NEW words \in Seq(Values(width)), NEW off \in {None} \cup (0 .. P - 1)
  PROVE  /\ HalfTyped(x, WriteOne(s, x, width, words, off))
         /\ HalfHeard(s, x, width, words, WriteOne(s, x, width, words, off))
<1>1. words \in Seq(Nat) /\ width \in Sizes /\ width # 9
  <2>1. width \in Sizes /\ width # 9  BY DEF Sizes
  <2>2. Values(width) \subseteq Nat  BY <2>1, ValuesAre
  <2> QED
    BY <2>1, <2>2, SeqMonotonic
<1>2. PICK h : h = WriteOne(s, x, width, words, off)
  OBVIOUS
<1>3. PICK meant \in Seq(HeardBytes) : meant = InBytes(x, width, words)
  BY <1>1, InBytesType
<1>4. Begins(meant, meant) /\ W(s, meant) = meant
  BY BeginsItself DEF W
<1>5. CASE width \in Supported(s)
  <2>1. PICK t : t = Direct(x, width, words, off)  OBVIOUS
  <2>2. h = Does(<<t>>)  BY <1>1, <1>2, <1>5, <2>1 DEF WriteOne
  <2>3. /\ t.index = x /\ t.width = width /\ t.words = words /\ t.converted = FALSE
        /\ t \in Fields
    BY <1>1, <2>1 DEF Direct, Fields
  <2>4. t \in Transfers  BY <2>3 DEF Transfers
  <2>5. h.ok = TRUE /\ h.todo = <<t>>  BY <2>2 DEF Does
  <2>6. Hearable(s, t) /\ Fits(t)  BY <2>3 DEF Hearable, Fits
  <2>7. HearT(s, t) = meant  BY <1>1, <1>3, <2>3, HeardPlain DEF HearT
  <2>8. /\ h.todo \in Seq(Transfers) /\ \A k \in 1 .. Len(h.todo) : h.todo[k] = t
        /\ HeardAll(s, h.todo) = meant
    BY <2>4, <2>5, <2>6, <2>7, OneTransfer
  <2>9. HalfTyped(x, h)  BY <2>3, <2>5, <2>8 DEF HalfTyped
  <2>10. HalfHeard(s, x, width, words, h)
    BY <1>3, <1>4, <2>5, <2>6, <2>8 DEF HalfHeard, AllHearable
  <2> QED
    BY <1>2, <2>9, <2>10
<1>6. CASE width \notin Supported(s) /\ width \in {16, 24}
  <2>1. PICK n \in Nat \ {0} : n = TxArray(width) /\ n * (width \div 8) <= P
    <3>1. CASE width = 16
      <4>1. TxArray(width) = P \div 2 /\ width \div 8 = 2  BY <3>1 DEF TxArray
      <4>2. P \div 2 \in Nat \ {0} /\ (P \div 2) * 2 <= P  BY PageAssumption
      <4> QED
        BY <4>1, <4>2
    <3>2. CASE width = 24
      <4>1. TxArray(width) = P \div 4 /\ width \div 8 = 3  BY <3>2 DEF TxArray
      <4>2. P \div 4 \in Nat \ {0} /\ (P \div 4) * 3 <= P  BY PageAssumption
      <4> QED
        BY <4>1, <4>2
    <3> QED
      BY <1>6, <3>1, <3>2
  <2>2. PICK c \in Seq(Seq(Values(width))) : c = Chunked(words, n) /\ FlattenSeq(c) = words
    BY ChunksAre
  <2>3. ASSUME NEW k \in 1 .. Len(c)
        PROVE  c[k] \in Seq(Values(width)) /\ c[k] \in Seq(Nat) /\ Len(c[k]) \in 1 .. n
    <3>1. c[k] \in Seq(Values(width)) /\ Len(c[k]) \in 1 .. n
      <4>1. Cuts(Values(width), words, n, c)  BY <2>2 DEF Cuts
      <4> QED
        BY <4>1, AChunk DEF ChunkOf
    <3>2. Values(width) \subseteq Nat  BY <1>1, ValuesAre
    <3>3. c[k] \in Seq(Nat)  BY <3>1, <3>2, SeqMonotonic
    <3> QED
      BY <3>1, <3>3
  <2>4. DOMAIN c = 1 .. Len(c) /\ Len(c) \in Nat  BY LenProperties
  <2>5. PICK trs : trs = [k \in 1 .. Len(c) |-> Converted(x, 8, AsBytes(width, c[k]))]
    OBVIOUS
  <2>6. h = Does(trs)  BY <1>1, <1>2, <1>6, <2>1, <2>2, <2>4, <2>5 DEF WriteOne
  <2>7. h.ok = TRUE /\ h.todo = trs  BY <2>6 DEF Does
  <2>8. ASSUME NEW k \in 1 .. Len(c)
        PROVE  /\ trs[k] \in Transfers /\ trs[k].index = x
               /\ Hearable(s, trs[k]) /\ Fits(trs[k])
               /\ HearT(s, trs[k]) = InBytes(x, width, c[k])
    <3>1. PICK w \in {16, 24} : w = width  BY <1>6
    <3>2. PICK b \in Nat : b = w \div 8  OBVIOUS
    <3>3. AreCut(w, c[k], b, AsBytes(w, c[k]))  BY <2>3, <3>1, <3>2, AsBytesAre
    <3>4. PICK y \in Seq(Octets) : y = AsBytes(width, c[k]) /\ Len(y) = Len(c[k]) * b
      BY <3>1, <3>3 DEF AreCut
    <3>5. y \in Seq(Values(8)) /\ y \in Seq(Nat)
      <4>1. Octets \subseteq Nat  BY OctetsAre
      <4>2. y \in Seq(Nat)  BY <4>1, SeqMonotonic
      <4> QED
        BY <4>2, ValuesAre
    <3>6. PICK t : t = trs[k]  OBVIOUS
    <3>7. t = Converted(x, 8, y)  BY <2>5, <3>4, <3>6
    <3>8. /\ t.index = x /\ t.width = 8 /\ t.words = y /\ t.off = None /\ t.converted = TRUE
          /\ t \in Fields
      BY <3>5, <3>7 DEF Converted, Fields, Sizes
    <3>9. t \in Transfers  BY <3>5, <3>8 DEF Transfers
    <3>10. Bytes(t) = Len(c[k]) * b
      <4>1. PICK l \in Nat : l = Len(c[k]) * b  BY <3>4, LenProperties
      <4> QED
        BY <3>4, <3>8, <4>1 DEF Bytes, BytesPerWord
    <3>11. Bytes(t) <= P
      <4>1. PICK l \in 1 .. n : l = Len(c[k])  BY <2>3
      <4>2. b \in {2, 3} /\ n * b <= P  BY <2>1, <3>1, <3>2
      <4>3. l * b <= n * b  BY <4>1, <4>2
      <4>4. PICK lb \in Nat, nb \in Nat : lb = l * b /\ nb = n * b  BY <4>1, <4>2
      <4> QED
        BY <3>10, <4>1, <4>2, <4>3, <4>4, PageAssumption, SMTT(30)
    <3>12. HearT(s, t) = InBytes(x, 8, y)
      BY <3>5, <3>8, HeardPlain DEF HearT
    <3>13. InBytes(x, 8, y) = InBytes(x, width, c[k])
      BY <2>3, <3>1, <3>4, SameBytes
    <3> QED
      BY <3>6, <3>8, <3>9, <3>11, <3>12, <3>13 DEF Hearable, Fits
  <2>9. trs \in Seq(Transfers) /\ Len(trs) = Len(c)
    <3>1. trs = [k \in 1 .. Len(c) |-> trs[k]]  BY <2>5
    <3> QED
      BY <2>4, <2>8, <3>1, Listed
  <2>10. c \in Seq(Seq(Nat))
    <3>1. c = [k \in 1 .. Len(c) |-> c[k]]  BY LenProperties
    <3> QED
      BY <2>3, <2>4, <3>1, Listed
  <2>11. HeardAll(s, trs) = meant
    <3>1. OfChunks(s, x, width, c, trs)  BY <2>8, <2>9, <2>10 DEF OfChunks
    <3>2. HeardAll(s, trs) = InBytes(x, width, FlattenSeq(c))
      BY <3>1, ManyTransfers
    <3> QED
      BY <1>3, <2>2, <3>2
  <2>12. HalfTyped(x, h)  BY <2>7, <2>8, <2>9 DEF HalfTyped
  <2>13. AllHearable(s, h.todo)  BY <2>7, <2>8, <2>9 DEF AllHearable
  <2>14. HalfHeard(s, x, width, words, h)
    BY <1>3, <1>4, <2>7, <2>11, <2>13 DEF HalfHeard
  <2> QED
    BY <1>2, <2>12, <2>14
<1>7. CASE width \notin Supported(s) /\ width \notin {16, 24}
  <2>1. h.todo = <<>> /\ h.ok = FALSE  BY <1>1, <1>2, <1>7 DEF WriteOne, Refuses
  <2>2. Reason(s, width, words)  BY <1>7 DEF Reason
  <2> QED
    BY <1>1, <1>2, <2>1, <2>2, RefusedHalf
<1> QED
  BY <1>5, <1>6, <1>7

\* The chunks that are sent are those before the first that is refused.
LEMMA SentIs ==
  ASSUME NEW n \in Nat, NEW ok
  PROVE  \E m \in 0 .. n :
           /\ Cardinality({k \in 1 .. n : \A i \in 1 .. k : ok[i]}) = m
           /\ \A k \in 1 .. m : ok[k]
           /\ m < n => ~ok[m + 1]
<1> DEFINE Bad == {k \in 1 .. n : ~ok[k]}
           Set == {k \in 1 .. n : \A i \in 1 .. k : ok[i]}
<1>1. PICK m \in 0 .. n : (\A k \in 1 .. m : ok[k]) /\ (m < n => ~ok[m + 1])
  <2>1. CASE Bad = {}
    <3>1. n \in 0 .. n /\ (\A k \in 1 .. n : ok[k])  BY <2>1
    <3> QED
      BY <3>1
  <2>2. CASE Bad # {}
    <3>1. Bad \in SUBSET Nat  OBVIOUS
    <3> HIDE DEF Bad
    <3>2. PICK b \in Bad : \A y \in Bad : ~(y < b)  BY <2>2, <3>1, LeastMember
    <3>3. b \in 1 .. n /\ ~ok[b]  BY DEF Bad
    <3>4. \A k \in 1 .. b - 1 : ok[k]
      <4> TAKE k \in 1 .. b - 1
      <4>1. k \in 1 .. n /\ k < b  BY <3>3
      <4> QED
        BY <3>2, <4>1 DEF Bad
    <3>5. b - 1 \in 0 .. n /\ (b - 1) + 1 = b  BY <3>3
    <3> QED
      BY <3>3, <3>4, <3>5
  <2> QED
    BY <2>1, <2>2
<1>2. Set = 1 .. m
  <2>1. ASSUME NEW k \in 1 .. n, \A i \in 1 .. k : ok[i] PROVE k \in 1 .. m
    <3>1. CASE k <= m  BY <3>1
    <3>2. CASE ~(k <= m)
      <4>1. m < n /\ m + 1 \in 1 .. k  BY <3>2
      <4> QED
        BY <1>1, <2>1, <4>1
    <3> QED
      BY <3>1, <3>2
  <2>2. ASSUME NEW k \in 1 .. m PROVE k \in 1 .. n /\ \A i \in 1 .. k : ok[i]
    BY <1>1
  <2> QED
    BY <2>1, <2>2
<1>3. Cardinality(1 .. m) = m
  <2>1. m \in Int /\ 1 \in Int  OBVIOUS
  <2>2. Cardinality(1 .. m) = IF 1 > m THEN 0 ELSE m - 1 + 1  BY <2>1, FS_Interval
  <2> QED
    BY <2>2
<1> QED
  BY <1>1, <1>2, <1>3

\* Whether words of nine bits can be sent.
Goes(s, v) == 9 \in Supported(s) \/ Len(v) % 8 = 0

LoopDone(s, x, width, c, m, h) ==
  /\ m \in 0 .. Len(c) /\ h.ok \in BOOLEAN /\ (h.ok <=> m = Len(c))
  /\ h.todo \in Seq(Transfers) /\ Len(h.todo) = m
  /\ \A k \in 1 .. m :
       /\ Goes(s, NineBitChunk(x, width, c[k]))
       /\ h.todo[k].index = x
       /\ 2 * Len(NineBitChunk(x, width, c[k])) <= P =>
            Hearable(s, h.todo[k]) /\ Fits(h.todo[k])
       /\ HearT(s, h.todo[k]) = NineBytes(NineBitChunk(x, width, c[k]))
  /\ m < Len(c) => ~Goes(s, NineBitChunk(x, width, c[m + 1]))

NineWords(width) == IF width = 8 THEN P \div 2 ELSE P \div 4

LEMMA NineWordsAre ==
  /\ \A width : NineWords(width) \in Nat \ {0}
  /\ (P \div 2) % 8 = 0 /\ (P \div 4) % 4 = 0 /\ 4 * (P \div 4) <= P /\ 2 * (P \div 2) <= P
<1>1. P \div 2 \in Nat \ {0} /\ P \div 4 \in Nat \ {0}
  BY PageAssumption
<1>2. PICK q \in Nat : P = 16 * q
  <2>1. P = 16 * (P \div 16) + (P % 16) /\ P \div 16 \in Nat  BY PageAssumption
  <2> QED
    BY <2>1, PageAssumption
<1>3. P \div 2 = 8 * q /\ P \div 4 = 4 * q
  BY <1>2
<1>4. (8 * q) % 8 = 0 /\ (4 * q) % 4 = 0
  OBVIOUS
<1> QED
  BY <1>1, <1>2, <1>3, <1>4 DEF NineWords

LEMMA LoopWritten ==
  ASSUME NEW s, s.mode = "3wire", NEW x \in {0, 1}, NEW width \in {8, 16},
         NEW words \in Seq(Values(width)), ~IsPadded(s, width, words),
         NEW c, c = Chunked(words, NineWords(width))
  PROVE  \E m : LoopDone(s, x, width, c, m, Write9bitDc(s, x, width, words))
<1>1. PICK n \in Nat \ {0} : n = NineWords(width)
  BY NineWordsAre
<1>2. c \in Seq(Seq(Values(width))) /\ DOMAIN c = 1 .. Len(c) /\ Len(c) \in Nat
  <2>1. c \in Seq(Seq(Values(width)))  BY <1>1, ChunksAre
  <2> QED
    BY <2>1, LenProperties
<1> DEFINE v(k) == NineBitChunk(x, width, c[k])
           one(k) == WriteOne(s, x, 9, v(k), None)
           ok == [k \in 1 .. Len(c) |-> one(k).ok]
           before(k) == \A i \in 1 .. k : one(i).ok
           sent == Cardinality({k \in DOMAIN c : before(k)})
           h == Write9bitDc(s, x, width, words)
<1>3. h = [todo |-> FlattenSeq([k \in 1 .. sent |-> one(k).todo]), ok |-> sent = Len(c)]
  BY DEF Write9bitDc, NineWords
<1>4. ASSUME NEW k \in 1 .. Len(c) PROVE v(k) \in Seq(Nines) /\ NineDone(s, x, v(k), one(k))
  <2>1. c[k] \in Seq(Values(width))  BY <1>2, ElementOfSeq
  <2>2. v(k) \in Seq(Nines)  BY <2>1, ChunkSent
  <2> HIDE DEF v
  <2> QED
    BY <2>2, NineWritten
<1>5. {k \in DOMAIN c : before(k)} = {k \in 1 .. Len(c) : \A i \in 1 .. k : ok[i]}
  <2>1. ASSUME NEW k \in 1 .. Len(c) PROVE before(k) <=> \A i \in 1 .. k : ok[i]
    <3>1. ASSUME NEW i \in 1 .. k PROVE ok[i] = one(i).ok
      <4>1. i \in 1 .. Len(c)  BY <1>2
      <4> HIDE DEF one
      <4> QED
        BY <4>1
    <3> HIDE DEF one, ok
    <3> QED
      BY <3>1
  <2> HIDE DEF before, ok
  <2> QED
    BY <1>2, <2>1
<1>6. PICK m \in 0 .. Len(c) :
        /\ sent = m
        /\ \A k \in 1 .. m : ok[k]
        /\ m < Len(c) => ~ok[m + 1]
  <2> HIDE DEF before, ok
  <2> QED
    BY <1>2, <1>5, SentIs, ZenonT(30)
<1>7. \A k \in 1 .. Len(c) : ok[k] = one(k).ok
  OBVIOUS
<1> HIDE DEF v, one, ok, before, sent, h
<1>8. PICK trs : trs = [k \in 1 .. m |-> one(k).todo[1]]
  OBVIOUS
<1>9. ASSUME NEW k \in 1 .. m
      PROVE  /\ one(k).todo = <<trs[k]>> /\ trs[k] \in Transfers
             /\ Goes(s, v(k))
             /\ trs[k].index = x
             /\ 2 * Len(v(k)) <= P => Hearable(s, trs[k]) /\ Fits(trs[k])
             /\ HearT(s, trs[k]) = NineBytes(v(k))
  <2>1. k \in 1 .. Len(c) /\ m \in Nat  BY <1>2, <1>6
  <2>2. one(k).ok  BY <1>6, <1>7, <2>1
  <2>3. PICK t \in Transfers :
          /\ one(k).todo = <<t>> /\ t.index = x
          /\ 2 * Len(v(k)) <= P => Hearable(s, t) /\ Fits(t)
          /\ HearT(s, t) = NineBytes(v(k))
    BY <1>4, <2>1, <2>2 DEF NineDone
  <2>4. trs[k] = t  BY <1>8, <2>3
  <2>5. NineDone(s, x, v(k), one(k))  BY <1>4, <2>1
  <2>6. Goes(s, v(k))  BY <2>2, <2>5 DEF NineDone, Goes
  <2> QED
    BY <2>3, <2>4, <2>6
<1>10. trs \in Seq(Transfers) /\ Len(trs) = m
  <2>1. trs = [k \in 1 .. m |-> trs[k]] /\ m \in Nat  BY <1>2, <1>6, <1>8
  <2> QED
    BY <1>9, <2>1, Listed
<1>11. FlattenSeq([k \in 1 .. sent |-> one(k).todo]) = trs
  <2>1. [k \in 1 .. sent |-> one(k).todo] = [k \in 1 .. Len(trs) |-> <<trs[k]>>]
    BY <1>6, <1>9, <1>10
  <2> QED
    BY <1>10, <2>1, FlattenSingles
<1>12. h.todo = trs /\ h.ok = (m = Len(c))
  BY <1>3, <1>6, <1>11
<1>13. m < Len(c) => ~Goes(s, v(m + 1))
  <2>1. CASE m < Len(c)
    <3>1. m + 1 \in 1 .. Len(c)  BY <1>2, <1>6, <2>1
    <3>2. ~one(m + 1).ok  BY <1>6, <1>7, <2>1, <3>1
    <3>3. NineDone(s, x, v(m + 1), one(m + 1))  BY <1>4, <3>1
    <3> QED
      BY <3>2, <3>3 DEF NineDone, Goes
  <2> QED
    BY <2>1
<1>14. LoopDone(s, x, width, c, m, h)
  <2>1. \A k \in 1 .. m :
          /\ Goes(s, v(k))
          /\ h.todo[k].index = x
          /\ 2 * Len(v(k)) <= P => Hearable(s, h.todo[k]) /\ Fits(h.todo[k])
          /\ HearT(s, h.todo[k]) = NineBytes(v(k))
    BY <1>9, <1>12
  <2>2. /\ m \in 0 .. Len(c) /\ h.ok \in BOOLEAN /\ (h.ok <=> m = Len(c))
        /\ h.todo \in Seq(Transfers) /\ Len(h.todo) = m
    BY <1>10, <1>12
  <2> QED
    BY <1>13, <2>1, <2>2, Zenon DEF LoopDone, v
<1> QED
  BY <1>14 DEF h

\* What the code gets right of 9-bit words.
Fine(s, width, words) ==
  s.mode = "3wire" => 9 \notin s.param /\ (width = 8 => Len(words) < P \div 2)

LEMMA PaddedHalf ==
  ASSUME NEW s, s.mode = "3wire", NEW x \in {0, 1}, NEW width, width = 8,
         NEW words \in Seq(Values(width)), Len(words) < P \div 2,
         NEW h, h = WriteOne(s, x, 9, Padded(x, words), None)
  PROVE  HalfTyped(x, h) /\ HalfHeard(s, x, width, words, h)
<1>1. words \in Seq(Octets)
  BY ValuesAre
<1>2. PICK v \in Seq(Nines) :
        /\ v = Padded(x, words) /\ Len(v) % 8 = 0
        /\ NoNops(NineBytes(v)) = NoNops(InBytes(x, 8, words))
  BY <1>1, PaddedIs
<1>3. Len(v) <= P \div 2
  <2>1. PICK q \in Nat : q = P \div 2  BY PageAssumption
  <2>2. \A p \in Nat : p % 8 = 0 /\ Len(words) < p => Len(v) <= p  BY <1>1, <1>2, PaddedIs
  <2>3. q % 8 = 0 /\ Len(words) < q  BY <2>1, NineWordsAre
  <2> QED
    BY <2>1, <2>2, <2>3
<1>4. 2 * Len(v) <= P
  <2>1. PICK l \in Nat : l = Len(v)  BY LenProperties
  <2> QED
    BY <1>3, <2>1, PageAssumption
<1>5. NineDone(s, x, v, h)
  BY <1>2, NineWritten
<1>6. h.ok = TRUE
  BY <1>2, <1>5 DEF NineDone
<1>7. PICK t \in Transfers :
        /\ h.todo = <<t>> /\ t.index = x /\ Hearable(s, t) /\ Fits(t)
        /\ HearT(s, t) = NineBytes(v)
  BY <1>4, <1>5, <1>6 DEF NineDone
<1>8. /\ h.todo \in Seq(Transfers) /\ \A k \in 1 .. Len(h.todo) : h.todo[k] = t
      /\ HeardAll(s, h.todo) = NineBytes(v)
  <2>1. PICK td : td = <<t>>  OBVIOUS
  <2>2. td \in Seq(Transfers) /\ \A k \in 1 .. Len(td) : td[k] = t  BY <2>1, OneTransfer
  <2>3. HeardAll(s, <<t>>) = HearT(s, t)  BY <1>7, OneTransfer
  <2> QED
    BY <1>7, <2>1, <2>2, <2>3, Zenon
<1>9. W(s, HeardAll(s, h.todo)) = W(s, InBytes(x, width, words))
  BY <1>2, <1>8 DEF W
<1>10. Begins(W(s, HeardAll(s, h.todo)), W(s, InBytes(x, width, words)))
  <2>1. NineBytes(v) \in Seq(HeardBytes)  BY NineBytesAre
  <2>2. W(s, NineBytes(v)) \in Seq(HeardBytes)  BY <2>1, WConcat
  <2> QED
    BY <1>8, <1>9, <2>2, BeginsItself
<1>11. HalfTyped(x, h)
  BY <1>6, <1>7, <1>8 DEF HalfTyped
<1>12. AllHearable(s, h.todo)
  BY <1>7, <1>8 DEF AllHearable
<1> QED
  BY <1>6, <1>9, <1>10, <1>11, <1>12 DEF HalfHeard

\* Words of 16 bits go out up to a chunk that is refused.
LEMMA LoopHalf ==
  ASSUME NEW s, s.mode = "3wire", NEW x \in {0, 1}, NEW width, width = 16,
         NEW words \in Seq(Values(width)), NEW h, NEW c, c = Chunked(words, P \div 4), NEW m,
         LoopDone(s, x, width, c, m, h)
  PROVE  HalfHeard(s, x, width, words, h)
<1>1. PICK n \in Nat \ {0} : n = P \div 4 /\ 4 * n <= P /\ n % 4 = 0
  <2>1. P \div 4 \in Nat \ {0}  BY PageAssumption
  <2> QED
    BY <2>1, NineWordsAre
<1>2. words \in Seq(Nat) /\ Values(width) \subseteq Nat
  <2>1. Values(width) \subseteq Nat  BY ValuesAre DEF Sizes
  <2> QED
    BY <2>1, SeqMonotonic
<1>3. /\ c \in Seq(Seq(Nat)) /\ FlattenSeq(c) = words /\ Len(c) \in Nat
      /\ m \in 0 .. Len(c)
  <2>1. c \in Seq(Seq(Nat)) /\ FlattenSeq(c) = words  BY <1>1, <1>2, ChunksAre
  <2> QED
    BY <2>1, LenProperties DEF LoopDone
<1>a. ASSUME NEW k \in 1 .. Len(c)
      PROVE  ChunkOf(Values(width), words, n, c, k)
  <2>1. Cuts(Values(width), words, n, c)  BY <1>1 DEF Cuts
  <2> QED
    BY <2>1, AChunk
<1>4. ASSUME NEW k \in 1 .. Len(c)
      PROVE  /\ c[k] \in Seq(Values(width)) /\ Len(c[k]) \in 1 .. n
             /\ Len(NineBitChunk(x, width, c[k])) = 2 * Len(c[k])
             /\ 2 * Len(NineBitChunk(x, width, c[k])) <= P
             /\ NineBytes(NineBitChunk(x, width, c[k])) = InBytes(x, width, c[k])
  <2>1. c[k] \in Seq(Values(width)) /\ Len(c[k]) \in 1 .. n  BY <1>a DEF ChunkOf
  <2>2. PICK w \in {8, 16} : w = width  OBVIOUS
  <2>3. /\ Len(NineBitChunk(x, width, c[k])) = 2 * Len(c[k])
        /\ NineBytes(NineBitChunk(x, width, c[k])) = InBytes(x, width, c[k])
    BY <2>1, <2>2, ChunkSent
  <2>4. 2 * Len(NineBitChunk(x, width, c[k])) <= P
    <3>1. PICK l \in 1 .. n : l = Len(c[k])  BY <2>1
    <3> QED
      BY <1>1, <2>3, <3>1, PageAssumption, SMTT(90)
  <2> QED
    BY <2>1, <2>3, <2>4
<1>5. PICK d \in Seq(Seq(Nat)), e \in Seq(Seq(Nat)) :
        /\ d = SubSeq(c, 1, m) /\ e = SubSeq(c, m + 1, Len(c)) /\ c = d \o e
        /\ Len(d) = m /\ \A k \in 1 .. m : d[k] = c[k]
  <2>1. \A k \in 1 .. Len(c) : c[k] \in Seq(Nat)  BY <1>3, ElementOfSeq
  <2>2. /\ SubSeq(c, 1, m) \in Seq(Seq(Nat)) /\ Len(SubSeq(c, 1, m)) = m
        /\ \A k \in 1 .. m : SubSeq(c, 1, m)[k] = c[k]
    BY <1>3, <2>1, SubSeqProperties
  <2>3. SubSeq(c, m + 1, Len(c)) \in Seq(Seq(Nat))
    BY <1>3, <2>1, SubSeqProperties
  <2>4. SubSeq(c, 1, m) \o SubSeq(c, m + 1, Len(c)) = SubSeq(c, 1, Len(c))
    <3>1. PICK one \in Nat, l \in Nat : one = 1 /\ l = Len(c)  BY <1>3
    <3>2. /\ one \in 1 .. Len(c) + 1 /\ m \in one - 1 .. Len(c) /\ l \in m .. Len(c)
      BY <1>3, <3>1
    <3>3. SubSeq(c, one, m) \o SubSeq(c, m + 1, l) = SubSeq(c, one, l)
      BY <1>3, <3>2, ConcatAdjacentSubSeq
    <3> QED
      BY <3>1, <3>3
  <2>5. SubSeq(c, 1, Len(c)) = c
    BY <1>3, SubSeqFull
  <2> QED
    BY <2>2, <2>3, <2>4, <2>5
<1>6. PICK fd \in Seq(Nat), fe \in Seq(Nat) :
        fd = FlattenSeq(d) /\ fe = FlattenSeq(e) /\ words = fd \o fe
  <2>1. FlattenSeq(d) \in Seq(Nat) /\ FlattenSeq(e) \in Seq(Nat)  BY FlattenType
  <2>2. FlattenSeq(d \o e) = FlattenSeq(d) \o FlattenSeq(e)  BY <2>1, FlattenConcat
  <2> QED
    BY <1>3, <1>5, <2>1, <2>2
<1>7. /\ Len(h.todo) = m /\ h.ok \in BOOLEAN /\ (h.ok <=> m = Len(c))
      /\ \A k \in 1 .. m :
           /\ 2 * Len(NineBitChunk(x, width, c[k])) <= P =>
                Hearable(s, h.todo[k]) /\ Fits(h.todo[k])
           /\ HearT(s, h.todo[k]) = NineBytes(NineBitChunk(x, width, c[k]))
      /\ m < Len(c) => ~Goes(s, NineBitChunk(x, width, c[m + 1]))
  BY DEF LoopDone
<1>8. \A k \in 1 .. m : k \in 1 .. Len(c)
  BY <1>3
<1>9. AllHearable(s, h.todo)
  BY <1>4, <1>7, <1>8 DEF AllHearable
<1>10. HeardAll(s, h.todo) = InBytes(x, width, fd)
  <2>1. \A k \in 1 .. m : HearT(s, h.todo[k]) = InBytes(x, width, d[k])
    BY <1>4, <1>5, <1>7, <1>8, ZenonT(30)
  <2>2. OfChunks(s, x, width, d, h.todo)
    BY <1>5, <1>7, <2>1 DEF OfChunks
  <2> QED
    BY <1>6, <2>2, ManyTransfers
<1>11. PICK a \in Seq(HeardBytes), b \in Seq(HeardBytes) :
         /\ a = InBytes(x, width, fd) /\ b = InBytes(x, width, fe)
         /\ InBytes(x, width, words) = a \o b
  <2>1. InBytes(x, width, fd) \in Seq(HeardBytes) /\ InBytes(x, width, fe) \in Seq(HeardBytes)
    BY InBytesType
  <2>2. InBytes(x, width, fd \o fe) = InBytes(x, width, fd) \o InBytes(x, width, fe)
    BY InBytesConcat
  <2> QED
    BY <1>6, <2>1, <2>2
<1>12. Begins(W(s, HeardAll(s, h.todo)), W(s, InBytes(x, width, words)))
  <2>1. W(s, a \o b) = W(s, a) \o W(s, b)  BY WConcat, SMTT(90)
  <2>2. W(s, b) \in Seq(HeardBytes)  BY WConcat
  <2>3. Begins(W(s, a), W(s, a \o b))  BY <2>1, <2>2 DEF Begins
  <2> QED
    BY <1>10, <1>11, <2>3
<1>13. ASSUME h.ok PROVE HeardAll(s, h.todo) = InBytes(x, width, words)
  <2>1. m = Len(c)  BY <1>7, <1>13
  <2>2. d = c  BY <1>3, <1>5, <2>1, SubSeqFull
  <2> QED
    BY <1>3, <1>6, <1>10, <2>2
<1>14. ASSUME ~h.ok PROVE Reason(s, width, words)
  <2>1. m < Len(c) /\ m + 1 \in 1 .. Len(c)  BY <1>3, <1>7, <1>14, SMTT(30)
  <2>2. ~Goes(s, NineBitChunk(x, width, c[m + 1]))  BY <1>7, <2>1
  <2>3. PICK l \in Nat : l = Len(c[m + 1])
    <3>1. Len(c[m + 1]) \in 1 .. n  BY <1>4, <2>1
    <3> QED
      BY <3>1
  <2>4. 9 \notin Supported(s) /\ (2 * l) % 8 # 0
    BY <1>4, <2>1, <2>2, <2>3 DEF Goes
  <2>5. l % 4 # 0
    <3>1. ASSUME l % 4 = 0 PROVE (2 * l) % 8 = 0
      <4>1. PICK q \in Nat : l = 4 * q
        <5>1. l = 4 * (l \div 4) + (l % 4) /\ l \div 4 \in Nat  OBVIOUS
        <5> QED
          BY <3>1, <5>1
      <4> QED
        BY <4>1
    <3> QED
      BY <2>4, <3>1
  <2>6. Len(words) % 4 # 0
    <3>1. SUFFICES ASSUME Len(words) % 4 = 0 PROVE FALSE
      OBVIOUS
    <3>2. PICK lw \in Nat : lw = Len(words)  BY LenProperties
    <3>3. PICK k : k = m + 1  OBVIOUS
    <3>4. /\ k \in 1 .. Ceil(lw, n) /\ l = ChunkLen(lw, n, k) /\ ChunkLen(lw, n, k) \in 1 .. n
      <4>1. c = Chunked(words, n) /\ k \in 1 .. Len(c)  BY <1>1, <2>1, <3>3
      <4>2. /\ k \in 1 .. Ceil(Len(words), n) /\ Len(c[k]) = ChunkLen(Len(words), n, k)
            /\ ChunkLen(Len(words), n, k) \in 1 .. n
        BY <4>1, <1>a DEF ChunkOf
      <4> QED
        BY <2>3, <3>2, <3>3, <4>2
    <3>5. ChunkLen(lw, n, k) % 4 = 0
      BY <1>1, <3>1, <3>2, <3>4, ChunksWhole
    <3> QED
      BY <2>5, <3>4, <3>5
  <2> QED
    BY <2>4, <2>6 DEF Reason
<1> QED
  BY <1>9, <1>12, <1>13, <1>14 DEF HalfHeard

LEMMA LoopTyped ==
  ASSUME NEW s, NEW x \in {0, 1}, NEW width, NEW c, NEW m, NEW h,
         LoopDone(s, x, width, c, m, h)
  PROVE  HalfTyped(x, h)
<1>1. /\ h.ok \in BOOLEAN /\ h.todo \in Seq(Transfers) /\ Len(h.todo) = m
      /\ \A k \in 1 .. m : h.todo[k].index = x
  BY DEF LoopDone
<1> QED
  BY <1>1, Zenon DEF HalfTyped

\* With 9 in the parameter a command is refused: its word of 8 bits is doubled, or it is
\* of 16 bits, and there are no words of nine bits.
LEMMA NoNine ==
  ASSUME NEW s, s.mode = "3wire", 9 \in s.param, NEW x \in {0, 1}, NEW width \in {8, 16},
         NEW words \in Seq(Values(width)), Len(words) = 1
  PROVE  /\ Write9bitDc(s, x, width, words).todo = <<>>
         /\ Write9bitDc(s, x, width, words).ok = FALSE
<1>1. PICK h : h = Write9bitDc(s, x, width, words)
  OBVIOUS
<1>2. PICK n \in Nat \ {0} : n = NineWords(width)
  BY NineWordsAre
<1>3. PICK c : c = Chunked(words, n)
  OBVIOUS
<1>4. ~IsPadded(s, width, words)
  BY DEF IsPadded
<1>5. PICK m : LoopDone(s, x, width, c, m, h)
  BY <1>1, <1>2, <1>3, <1>4, LoopWritten
<1>6. Len(c) = 1
  <2>1. Len(c) = Ceil(Len(words), n)  BY <1>3, ChunksAre
  <2>2. Ceil(1, n) = 1
    <3>1. 1 + n - 1 = n /\ n \div n = 1  OBVIOUS
    <3> QED
      BY <3>1 DEF Ceil
  <2> QED
    BY <2>1, <2>2
<1>7. c[1] \in Seq(Values(width)) /\ Len(c[1]) = 1
  <2>1. PICK k : k = 1 /\ k \in 1 .. Len(c)  BY <1>6
  <2>2. c[k] \in Seq(Values(width)) /\ Len(c[k]) = ChunkLen(Len(words), n, k)
    <3>1. Cuts(Values(width), words, n, c)  BY <1>3 DEF Cuts
    <3>2. ChunkOf(Values(width), words, n, c, k)  BY <2>1, <3>1, AChunk
    <3> QED
      BY <3>2 DEF ChunkOf
  <2>3. ChunkLen(1, n, 1) = 1
    <3>1. Least(n, 1) = 1  BY DEF Least
    <3>2. 1 * n = n /\ (1 - 1) * n = 0  OBVIOUS
    <3> QED
      BY <3>1, <3>2 DEF ChunkLen
  <2> QED
    BY <2>1, <2>2, <2>3
<1>8. ~Goes(s, NineBitChunk(x, width, c[1]))
  <2>1. Len(NineBitChunk(x, width, c[1])) = 2 * Len(c[1])  BY <1>7, ChunkSent
  <2>2. Supported(s) = {}  BY DEF Supported
  <2>3. (2 * 1) % 8 # 0  OBVIOUS
  <2> QED
    BY <1>7, <2>1, <2>2, <2>3 DEF Goes
<1>9. m = 0
  <2>1. m \in 0 .. 1 /\ \A k \in 1 .. m : Goes(s, NineBitChunk(x, width, c[k]))
    BY <1>5, <1>6 DEF LoopDone
  <2>2. CASE m = 1  BY <1>8, <2>1, <2>2
  <2> QED
    BY <2>1, <2>2
<1>10. h.todo \in Seq(Transfers) /\ Len(h.todo) = 0 /\ h.ok \in BOOLEAN /\ (h.ok <=> 0 = 1)
  BY <1>5, <1>6, <1>9 DEF LoopDone
<1>11. h.todo = <<>>
  BY <1>10, EmptySeq
<1> QED
  BY <1>1, <1>10, <1>11

\* A half of a write, in either mode.
LEMMA HalfDone ==
  ASSUME NEW s, NEW x \in {0, 1}, NEW width \in {8, 16, 24},
         NEW words \in Seq(Values(width)), NEW off \in {None} \cup (0 .. P - 1)
  PROVE  /\ HalfTyped(x, WriteHalf(s, x, width, words, off))
         /\ Fine(s, width, words) =>
              HalfHeard(s, x, width, words, WriteHalf(s, x, width, words, off))
<1>1. PICK h : h = WriteHalf(s, x, width, words, off)
  OBVIOUS
<1>2. CASE s.mode # "3wire"
  <2>1. h = WriteOne(s, x, width, words, off)  BY <1>1, <1>2 DEF WriteHalf
  <2> QED
    BY <1>1, <1>2, <2>1, PlainHalf
<1>3. CASE s.mode = "3wire"
  <2>1. h = Write9bitDc(s, x, width, words)  BY <1>1, <1>3 DEF WriteHalf
  <2>2. CASE width = 24
    <3>1. h.todo = <<>> /\ h.ok = FALSE  BY <2>1, <2>2 DEF Write9bitDc, Refuses
    <3>2. Reason(s, width, words)  BY <1>3, <2>2 DEF Reason
    <3>3. words \in Seq(Nat)
      <4>1. Values(width) \subseteq Nat  BY ValuesAre DEF Sizes
      <4> QED
        BY <4>1, SeqMonotonic
    <3> QED
      BY <1>1, <3>1, <3>2, <3>3, RefusedHalf
  <2>3. CASE width # 24 /\ IsPadded(s, width, words)
    <3>1. width = 8 /\ Len(words) < P \div 2  BY <2>3 DEF IsPadded
    <3>2. h = WriteOne(s, x, 9, Padded(x, words), None)
      BY <2>1, <2>3, <3>1 DEF Write9bitDc
    <3> QED
      BY <1>1, <1>3, <3>1, <3>2, PaddedHalf
  <2>4. CASE width # 24 /\ ~IsPadded(s, width, words)
    <3>1. PICK w \in {8, 16} : w = width  BY <2>4
    <3>2. PICK c : c = Chunked(words, NineWords(w))  OBVIOUS
    <3>3. PICK m : LoopDone(s, x, w, c, m, h)
      BY <1>3, <2>1, <2>4, <3>1, <3>2, LoopWritten
    <3>4. HalfTyped(x, h)  BY <3>3, LoopTyped
    <3>5. ASSUME Fine(s, width, words) PROVE HalfHeard(s, x, width, words, h)
      <4>1. width = 16  BY <1>3, <2>4, <3>1, <3>5 DEF Fine, IsPadded
      <4>2. c = Chunked(words, P \div 4)  BY <3>1, <3>2, <4>1 DEF NineWords
      <4> QED
        BY <1>3, <3>1, <3>3, <4>1, <4>2, LoopHalf
    <3> QED
      BY <1>1, <3>4, <3>5
  <2> QED
    BY <2>2, <2>3, <2>4
<1> QED
  BY <1>2, <1>3

-----------------------------------------------------------------------------
(* The command and the data of a write.                                       *)
Cmd(s, c) == InBytes(0, s.defWidth, <<c.regnr>>)
Dat(s, c) == InBytes(1, Width(s, c), Words(s, c))
MeantOf(s, c) == W(s, Cmd(s, c) \o Dat(s, c))
OverOf(s, c) == s.mode = "3wire" /\ Width(s, c) = 8 /\ Len(c.data) >= P \div 2

Refusal(s, c) ==
  \/ s.mode # "3wire" /\ 8 \notin Supported(s)
  \/ s.mode = "3wire" /\ 9 \in s.param
  \/ s.mode = "3wire" /\ Width(s, c) = 24
  \/ s.mode = "3wire" /\ 9 \notin Supported(s)
       /\ \/ s.defWidth = 16
          \/ Width(s, c) = 16 /\ Len(c.data) % 4 # 0

LEMMA CallIs ==
  ASSUME NEW s \in Setups, NEW c \in Calls
  PROVE  /\ s.mode \in Modes /\ s.defWidth \in {8, 16}
         /\ <<c.regnr>> \in Seq(Values(s.defWidth)) /\ <<c.regnr>> \in Seq(Nat)
         /\ Width(s, c) \in {8, 16, 24}
         /\ Words(s, c) \in Seq(Values(Width(s, c))) /\ Words(s, c) \in Seq(Nat)
         /\ Len(Words(s, c)) = Len(c.data)
         /\ Offset(c) \in {None} \cup (0 .. P - 1)
<1>1. s.mode \in Modes /\ s.defWidth \in {8, 16}
  BY SetupAssumption
<1>2. /\ c.op \in {"write_buf32", "write"} /\ c.regnr \in 1 .. 255
      /\ c.width \in {0, 8, 16, 24} /\ c.data \in Seq(Nat) /\ c.off \in {None} \cup (0 .. P - 1)
  BY CallAssumption
<1>3. Width(s, c) \in {8, 16, 24} /\ (c.op # "write" => Width(s, c) = s.defWidth)
  BY <1>1, <1>2 DEF Width
<1>4. /\ Len(c.data) \in Nat /\ DOMAIN c.data = 1 .. Len(c.data)
      /\ \A i \in 1 .. Len(c.data) : c.data[i] \in Nat
  BY <1>2, LenProperties, ElementOfSeq
<1>5. \A w \in {8, 16, 24} : 2 ^ w \in Nat /\ 2 ^ w > 0 /\ Values(w) = 0 .. 2 ^ w - 1
  <2>1. 2 ^ 8 \in Nat /\ 2 ^ 16 \in Nat /\ 2 ^ 24 \in Nat /\ 2 ^ 8 > 0 /\ 2 ^ 16 > 0 /\ 2 ^ 24 > 0
    BY Powers
  <2> QED
    BY <2>1 DEF Values
<1>6. PICK d : d = c.data
  OBVIOUS
<1>7. PICK e : e = Words(s, c)
  OBVIOUS
<1>8. /\ e = [i \in 1 .. Len(d) |-> e[i]]
      /\ \A i \in 1 .. Len(d) : e[i] = IF c.op = "write" THEN d[i] ELSE d[i] % (2 ^ s.defWidth)
  BY <1>4, <1>6, <1>7 DEF Words
<1>9. ASSUME NEW i \in 1 .. Len(d) PROVE e[i] \in Values(Width(s, c))
  <2>1. d[i] \in Nat  BY <1>4, <1>6
  <2>2. CASE c.op = "write"
    <3>1. d[i] < 2 ^ Width(s, c)  BY <1>4, <1>6, <2>2, DataAssumption
    <3>2. PICK q \in Nat : q = 2 ^ Width(s, c) /\ Values(Width(s, c)) = 0 .. q - 1
      BY <1>3, <1>5
    <3> QED
      BY <1>8, <2>1, <2>2, <3>1, <3>2
  <2>3. CASE c.op # "write"
    <3>1. PICK q \in Nat : q = 2 ^ s.defWidth /\ q > 0 /\ Values(Width(s, c)) = 0 .. q - 1
      BY <1>1, <1>3, <1>5, <2>3
    <3>2. e[i] = d[i] % q  BY <1>8, <2>3, <3>1
    <3>3. d[i] % q \in 0 .. q - 1  BY <2>1, <3>1
    <3> QED
      BY <3>1, <3>2, <3>3
  <2> QED
    BY <2>2, <2>3
<1>10. e \in Seq(Values(Width(s, c))) /\ Len(e) = Len(d)
  BY <1>4, <1>6, <1>8, <1>9, Listed
<1>11. e \in Seq(Nat)
  <2>1. Values(Width(s, c)) \subseteq Nat  BY <1>3, ValuesAre DEF Sizes
  <2> QED
    BY <1>10, <2>1, SeqMonotonic
<1>12. <<c.regnr>> \in Seq(Values(s.defWidth)) /\ <<c.regnr>> \in Seq(Nat)
  <2>1. PICK r \in Nat : r = c.regnr /\ r \in Octets
    <3>1. c.regnr \in 1 .. 255  BY <1>2
    <3>2. \A r \in 1 .. 255 : r \in Nat /\ r \in Octets  BY DEF Octets
    <3> QED
      BY <3>1, <3>2
  <2>2. r \in Values(8) /\ r \in Values(16)
    <3>1. 2 ^ 16 = 65536  BY Powers
    <3> QED
      BY <2>1, <3>1, ValuesAre DEF Values, Octets
  <2>3. r \in Values(s.defWidth)  BY <1>1, <2>2
  <2> QED
    BY <2>1, <2>3
<1>13. Offset(c) \in {None} \cup (0 .. P - 1)
  BY <1>2 DEF Offset
<1> QED
  BY <1>1, <1>3, <1>6, <1>7, <1>10, <1>11, <1>12, <1>13

LEMMA CommandIs ==
  ASSUME NEW s \in Setups, NEW c \in Calls
  PROVE  /\ HalfTyped(0, Command(s, c))
         /\ HalfHeard(s, 0, s.defWidth, <<c.regnr>>, Command(s, c))
         /\ Command(s, c).ok => ~(s.mode = "3wire" /\ 9 \in s.param)
         /\ ~Command(s, c).ok => Refusal(s, c)
<1>1. PICK width \in {8, 16}, words \in Seq(Nat) :
        /\ width = s.defWidth /\ words = <<c.regnr>> /\ words \in Seq(Values(width))
        /\ Len(words) = 1
  BY CallIs
<1>2. PICK h : h = Command(s, c)
  OBVIOUS
<1>3. PICK x \in {0, 1} : x = 0
  OBVIOUS
<1>4. PICK off \in {None} \cup (0 .. P - 1) : off = None
  OBVIOUS
<1>5. h = WriteHalf(s, x, width, words, off)
  BY <1>1, <1>2, <1>3, <1>4 DEF Command
<1>6. width \in {8, 16, 24}
  OBVIOUS
<1>7. CASE s.mode = "3wire" /\ 9 \in s.param
  <2>1. h = Write9bitDc(s, x, width, words)  BY <1>5, <1>7 DEF WriteHalf
  <2>2. h.todo = <<>> /\ h.ok = FALSE  BY <1>1, <1>7, <2>1, NoNine
  <2>3. Reason(s, width, words)  BY <1>7 DEF Reason
  <2>4. HalfTyped(x, h) /\ HalfHeard(s, x, width, words, h)
    BY <1>6, <2>2, <2>3, RefusedHalf
  <2>5. Refusal(s, c)  BY <1>7 DEF Refusal
  <2> QED
    BY <1>1, <1>2, <1>3, <2>2, <2>4, <2>5
<1>8. CASE ~(s.mode = "3wire" /\ 9 \in s.param)
  <2>1. 1 < P \div 2  BY PageAssumption
  <2>2. Fine(s, width, words)  BY <1>1, <1>8, <2>1 DEF Fine
  <2>3. HalfTyped(x, h) /\ HalfHeard(s, x, width, words, h)
    BY <1>1, <1>5, <1>6, <2>2, HalfDone
  <2>4. ASSUME ~h.ok PROVE Refusal(s, c)
    <3>1. Reason(s, width, words)  BY <2>3, <2>4 DEF HalfHeard
    <3>2. \/ s.mode # "3wire" /\ 8 \notin Supported(s)
          \/ s.mode = "3wire" /\ 9 \notin Supported(s) /\ s.defWidth = 16
      <4>1. width # 24 /\ width = s.defWidth  BY <1>1
      <4> QED
        BY <1>8, <3>1, <4>1, Zenon DEF Reason
    <3> QED
      BY <3>2, Zenon DEF Refusal
  <2> QED
    BY <1>1, <1>2, <1>3, <1>8, <2>3, <2>4
<1> QED
  BY <1>7, <1>8

LEMMA DataIs ==
  ASSUME NEW s \in Setups, NEW c \in Calls, ~(s.mode = "3wire" /\ 9 \in s.param)
  PROVE  /\ HalfTyped(1, Data(s, c))
         /\ ~OverOf(s, c) =>
              /\ HalfHeard(s, 1, Width(s, c), Words(s, c), Data(s, c))
              /\ ~Data(s, c).ok => Refusal(s, c)
<1>1. PICK width \in {8, 16, 24}, words \in Seq(Values(Width(s, c))) :
        /\ width = Width(s, c) /\ words = Words(s, c)
        /\ Len(words) = Len(c.data)
  BY CallIs
<1>2. PICK h : h = Data(s, c)
  OBVIOUS
<1>3. PICK x \in {0, 1} : x = 1
  OBVIOUS
<1>4. PICK off \in {None} \cup (0 .. P - 1) : off = Offset(c)
  BY CallIs
<1>5. h = WriteHalf(s, x, width, words, off) /\ words \in Seq(Values(width))
  BY <1>1, <1>2, <1>3, <1>4 DEF Data
<1>6. HalfTyped(x, h) /\ (Fine(s, width, words) => HalfHeard(s, x, width, words, h))
  BY <1>5, HalfDone
<1>7. ASSUME ~OverOf(s, c)
      PROVE  HalfHeard(s, x, width, words, h) /\ (~h.ok => Refusal(s, c))
  <2>1. width = 8 /\ s.mode = "3wire" => Len(words) < P \div 2
    <3>1. PICK l \in Nat, q \in Nat : l = Len(words) /\ q = P \div 2
      BY LenProperties, PageAssumption
    <3> QED
      BY <1>1, <1>7, <3>1 DEF OverOf
  <2>2. Fine(s, width, words)  BY <2>1 DEF Fine
  <2>3. HalfHeard(s, x, width, words, h)  BY <1>6, <2>2
  <2>4. ASSUME ~h.ok PROVE Refusal(s, c)
    <3>1. Reason(s, width, words)  BY <2>3, <2>4 DEF HalfHeard
    <3> QED
      BY <1>1, <3>1 DEF Reason, Refusal
  <2> QED
    BY <2>3, <2>4
<1> QED
  BY <1>1, <1>2, <1>3, <1>6, <1>7

-----------------------------------------------------------------------------
(* The pages of a transfer.                                                   *)
ShiftOf(t) == IF t.off = None THEN 0 ELSE t.off
PiecesOf(t) == Ceil(Bytes(t) + ShiftOf(t), P)
CutAt(n, h, k) == IF k = 0 THEN 0 ELSE Least(n, k * P - h)
CutOf(t, k) == CutAt(Bytes(t), ShiftOf(t), k)
WordAt(t, k) == CutOf(t, k) \div BytesPerWord(t.width)

LEMMA TransferIs ==
  ASSUME NEW t \in Transfers
  PROVE  /\ t.index \in {0, 1} /\ t.width \in Sizes /\ t.words \in Seq(Nat)
         /\ t.words \in Seq(Values(t.width)) /\ Len(t.words) \in Nat
         /\ BytesPerWord(t.width) \in {1, 2, 4} /\ Bytes(t) \in Nat
         /\ ShiftOf(t) \in 0 .. P - 1 /\ PiecesOf(t) \in Nat
<1>1. /\ t.index \in {0, 1} /\ t.width \in Sizes /\ t.words \in Seq(Nat)
      /\ t.words \in Seq(Values(t.width)) /\ t.off \in {None} \cup (0 .. P - 1)
  BY DEF Transfers, Fields
<1>2. PICK l \in Nat : l = Len(t.words)
  BY <1>1, LenProperties
<1>3. PICK b \in {1, 2, 4} : b = BytesPerWord(t.width)
  BY DEF BytesPerWord
<1>4. PICK n \in Nat : n = Bytes(t)
  BY <1>2, <1>3 DEF Bytes
<1>5. PICK h \in 0 .. P - 1 : h = ShiftOf(t)
  <2>1. 0 \in 0 .. P - 1  BY PageAssumption
  <2> QED
    BY <1>1, <2>1 DEF ShiftOf
<1>6. PiecesOf(t) \in Nat
  <2>1. n + h \in Nat /\ P \in Nat \ {0}  BY PageAssumption
  <2>2. Ceil(n + h, P) \in Nat  BY <2>1, CeilIs
  <2> QED
    BY <1>4, <1>5, <2>2 DEF PiecesOf
<1> QED
  BY <1>1, <1>2, <1>3, <1>4, <1>5, <1>6

LEMMA WordsOfBytes ==
  ASSUME NEW b \in {1, 2, 4}, NEW l \in Nat, NEW u \in Nat, NEW v \in Nat, u <= v, v <= l * b
  PROVE  /\ u \div b \in 0 .. l /\ v \div b \in 0 .. l /\ u \div b <= v \div b
         /\ v = l * b => v \div b = l
<1>1. CASE b = 1  BY <1>1
<1>2. CASE b = 2  BY <1>2
<1>3. CASE b = 4  BY <1>3
<1> QED
  BY <1>1, <1>2, <1>3

\* Cuts in order.
InOrder(n, h, l, u, v) ==
  /\ u \in Nat /\ v \in Nat /\ u <= v /\ v <= n
  /\ ~(l < Ceil(n + h, P)) => v = n

LEMMA CutsAre ==
  ASSUME NEW n \in Nat, NEW h \in 0 .. P - 1, NEW k \in Nat, NEW l \in Nat, k <= l
  PROVE  InOrder(n, h, l, CutAt(n, h, k), CutAt(n, h, l))
<1>0. PICK u, v : u = CutAt(n, h, k) /\ v = CutAt(n, h, l)
  OBVIOUS
<1>1. P \in Nat \ {0}
  BY PageAssumption
<1>2. PICK kp \in Nat, lp \in Nat : kp = k * P /\ lp = l * P
  BY <1>1
<1>3. kp <= lp /\ (k # 0 => P <= kp) /\ (l # 0 => P <= lp) /\ (l = 0 => lp = 0)
  <2>1. PICK d \in Nat : l = k + d  BY <1>1
  <2>2. (k + d) * P = k * P + d * P /\ d * P \in Nat  BY <1>1
  <2>3. kp <= lp  BY <1>2, <2>1, <2>2
  <2>4. \A q \in Nat : q # 0 => P <= q * P
    <3> TAKE q \in Nat
    <3> HAVE q # 0
    <3>1. PICK r \in Nat : q = r + 1  OBVIOUS
    <3>2. (r + 1) * P = r * P + P /\ r * P \in Nat  BY <1>1
    <3> QED
      BY <1>1, <3>1, <3>2
  <2> QED
    BY <1>1, <1>2, <2>3, <2>4
<1>4. u = (IF k = 0 THEN 0 ELSE IF n < kp - h THEN n ELSE kp - h)
  BY <1>0, <1>2 DEF Least, CutAt
<1>5. v = (IF l = 0 THEN 0 ELSE IF n < lp - h THEN n ELSE lp - h)
  BY <1>0, <1>2 DEF Least, CutAt
<1>6. h \in Nat /\ h < P
  BY <1>1
<1>7. u \in Nat /\ v \in Nat /\ u <= v /\ v <= n
  BY <1>1, <1>3, <1>4, <1>5, <1>6
<1>8. ASSUME ~(l < Ceil(n + h, P)) PROVE v = n
  <2>1. PICK q \in Nat : q = Ceil(n + h, P) /\ n + h <= q * P
    <3>1. n + h \in Nat  BY <1>6
    <3> QED
      BY <1>1, <3>1, CeilIs
  <2>2. q <= l  BY <1>8, <2>1
  <2>3. q * P <= lp
    <3>1. PICK d \in Nat : l = q + d  BY <2>2
    <3>2. (q + d) * P = q * P + d * P /\ d * P \in Nat /\ q * P \in Nat  BY <1>1
    <3> QED
      BY <1>2, <3>1, <3>2
  <2>4. n + h <= lp
    <3>1. PICK qp \in Nat : qp = q * P  BY <1>1
    <3> QED
      BY <1>6, <2>1, <2>3, <3>1
  <2> QED
    BY <1>3, <1>5, <1>6, <2>4
<1> QED
  BY <1>0, <1>7, <1>8, Zenon DEF InOrder

LEMMA WordCuts ==
  ASSUME NEW t \in Transfers, NEW k \in Nat, NEW l \in Nat, k <= l
  PROVE  /\ WordAt(t, k) \in 0 .. Len(t.words) /\ WordAt(t, l) \in 0 .. Len(t.words)
         /\ WordAt(t, k) <= WordAt(t, l)
         /\ WordAt(t, 0) = 0
         /\ ~(l < PiecesOf(t)) => WordAt(t, l) = Len(t.words)
<1>1. PICK n \in Nat, h \in 0 .. P - 1, b \in {1, 2, 4}, m \in Nat :
        /\ n = Bytes(t) /\ h = ShiftOf(t) /\ b = BytesPerWord(t.width) /\ m = Len(t.words)
  BY TransferIs
<1>2. n = m * b
  BY <1>1 DEF Bytes
<1>3. PICK u \in Nat, v \in Nat :
        /\ u = CutOf(t, k) /\ v = CutOf(t, l) /\ u <= v /\ v <= n
        /\ ~(l < Ceil(n + h, P)) => v = n
  <2>1. CutOf(t, k) = CutAt(n, h, k) /\ CutOf(t, l) = CutAt(n, h, l)
    BY <1>1 DEF CutOf
  <2>2. InOrder(n, h, l, CutAt(n, h, k), CutAt(n, h, l))  BY CutsAre
  <2> QED
    BY <2>1, <2>2 DEF InOrder
<1>4. u \div b \in 0 .. m /\ v \div b \in 0 .. m /\ u \div b <= v \div b /\ (v = n => v \div b = m)
  BY <1>2, <1>3, WordsOfBytes
<1>5. WordAt(t, k) = u \div b /\ WordAt(t, l) = v \div b
  BY <1>1, <1>3 DEF WordAt
<1>6. WordAt(t, 0) = 0
  <2>1. \A d \in {1, 2, 4} : 0 \div d = 0  OBVIOUS
  <2> QED
    BY <1>1, <2>1 DEF WordAt, CutOf, CutAt
<1>7. PiecesOf(t) = Ceil(n + h, P)
  BY <1>1 DEF PiecesOf
<1> QED
  BY <1>1, <1>3, <1>4, <1>5, <1>6, <1>7

-----------------------------------------------------------------------------
(* What is left to be heard, and what a message takes off it.                 *)
PartOf(t, k, l) == SubSeq(t.words, WordAt(t, k) + 1, WordAt(t, l))
HeardPart(s, t, k, l) == HearW(s, t.index, t.width, PartOf(t, k, l))
RestOf(s, t, p) ==
  HearW(s, t.index, t.width, SubSeq(t.words, WordAt(t, p) + 1, Len(t.words)))
Left(s, trs, p) == IF trs = <<>> THEN <<>> ELSE RestOf(s, Head(trs), p) \o HeardAll(s, Tail(trs))

Places(t, k, l, n, u, v) ==
  /\ n = Len(t.words) /\ u = WordAt(t, k) /\ v = WordAt(t, l)
  /\ u <= v /\ v <= n /\ (~(l < PiecesOf(t)) => v = n)

LEMMA WordPlaces ==
  ASSUME NEW t \in Transfers, NEW k \in Nat, NEW l \in Nat, k <= l
  PROVE  \E n, u, v \in Nat : Places(t, k, l, n, u, v)
<1>1. PICK n \in Nat : n = Len(t.words)
  BY TransferIs
<1>2. /\ WordAt(t, k) \in 0 .. Len(t.words) /\ WordAt(t, l) \in 0 .. Len(t.words)
      /\ WordAt(t, k) <= WordAt(t, l)
      /\ ~(l < PiecesOf(t)) => WordAt(t, l) = Len(t.words)
  BY WordCuts
<1>3. PICK u \in 0 .. n, v \in 0 .. n : u = WordAt(t, k) /\ v = WordAt(t, l)
  BY <1>1, <1>2
<1> QED
  BY <1>1, <1>2, <1>3 DEF Places

LEMMA PartIs ==
  ASSUME NEW t \in Transfers, NEW k \in Nat, NEW l \in Nat, k <= l
  PROVE  PartOf(t, k, l) \in Seq(Nat)
<1>0. PICK n \in Nat, u \in Nat, v \in Nat : Places(t, k, l, n, u, v)
  BY WordPlaces
<1>1. /\ n = Len(t.words) /\ u = WordAt(t, k) /\ v = WordAt(t, l) /\ u <= v /\ v <= n
  BY <1>0 DEF Places
<1>2. \A i \in 1 .. n : t.words[i] \in Nat
  BY <1>1, TransferIs, ElementOfSeq
<1>3. \A i \in u + 1 .. v : t.words[i] \in Nat
  BY <1>1, <1>2
<1>4. SubSeq(t.words, u + 1, v) \in Seq(Nat)
  BY <1>3, SubSeqProperties
<1> QED
  BY <1>1, <1>4 DEF PartOf

LEMMA RestWhole ==
  ASSUME NEW s, NEW t \in Transfers
  PROVE  RestOf(s, t, 0) = HearT(s, t)
<1>1. WordAt(t, 0) = 0
  BY WordCuts
<1>2. SubSeq(t.words, 0 + 1, Len(t.words)) = t.words
  BY TransferIs, SubSeqFull
<1> QED
  BY <1>1, <1>2 DEF RestOf, HearT

LEMMA LeftWhole ==
  ASSUME NEW s, NEW trs \in Seq(Transfers), AllHearable(s, trs)
  PROVE  Left(s, trs, 0) = HeardAll(s, trs)
<1>1. CASE trs = <<>>
  <2>1. EachHeard(s, <<>>) = <<>>  BY DEF EachHeard
  <2> QED
    BY <1>1, <2>1, FlattenNone DEF Left, HeardAll
<1>2. CASE trs # <<>>
  <2>1. /\ Head(trs) \in Transfers /\ Tail(trs) \in Seq(Transfers)
        /\ Len(Tail(trs)) = Len(trs) - 1 /\ Len(trs) \in Nat \ {0}
        /\ \A i \in 1 .. Len(Tail(trs)) : Tail(trs)[i] = trs[i + 1]
    BY <1>2, HeadTailProperties, EmptySeq
  <2>2. Head(trs) = trs[1]  BY <1>2
  <2>3. PICK e \in Seq(Seq(HeardBytes)) :
          /\ e = EachHeard(s, trs) /\ Len(e) = Len(trs)
          /\ \A k \in 1 .. Len(trs) : e[k] = HearT(s, trs[k])
    BY EachHeardIs
  <2>4. e # <<>>  BY <2>1, <2>3
  <2>5. FlattenSeq(e) = Head(e) \o FlattenSeq(Tail(e))  BY <2>4, FlattenHead
  <2>6. Head(e) = HearT(s, Head(trs))
    <3>1. Head(e) = e[1] /\ 1 \in 1 .. Len(trs)  BY <2>1, <2>4
    <3> QED
      BY <2>2, <2>3, <3>1
  <2>7. Tail(e) = EachHeard(s, Tail(trs))
    <3>1. PICK te \in Seq(Seq(HeardBytes)) :
            te = Tail(e) /\ Len(te) = Len(e) - 1 /\ \A k \in 1 .. Len(te) : te[k] = e[k + 1]
      BY <2>4, HeadTailProperties
    <3>3. te = [k \in 1 .. Len(te) |-> te[k]]  BY LenProperties
    <3>2. \A k \in 1 .. Len(Tail(trs)) : e[k + 1] = HearT(s, Tail(trs)[k])
      <4> TAKE k \in 1 .. Len(Tail(trs))
      <4>1. k + 1 \in 1 .. Len(trs) /\ Tail(trs)[k] = trs[k + 1]  BY <2>1
      <4> QED
        BY <2>3, <4>1
    <3> QED
      BY <2>1, <2>3, <3>1, <3>2, <3>3 DEF EachHeard
  <2>8. RestOf(s, Head(trs), 0) = HearT(s, Head(trs))  BY <2>1, RestWhole
  <2> QED
    BY <1>2, <2>3, <2>5, <2>6, <2>7, <2>8 DEF Left, HeardAll
<1> QED
  BY <1>1, <1>2

LEMMA OnePiece ==
  ASSUME NEW s, s.mode = "3wire", NEW t \in Transfers, Hearable(s, t)
  PROVE  PiecesOf(t) <= 1
<1>1. PICK y \in Nat : y = Bytes(t)  BY TransferIs
<1>2. y <= P /\ ShiftOf(t) = 0  BY <1>1 DEF Hearable, ShiftOf
<1>3. PICK q \in Nat : q = Ceil(y, P) /\ q * P < y + P
  <2>1. P \in Nat \ {0}  BY PageAssumption
  <2> QED
    BY <2>1, CeilIs
<1>4. q <= 1
  <2>1. SUFFICES ASSUME ~(q <= 1) PROVE FALSE
    OBVIOUS
  <2>2. PICK d \in Nat : q = 2 + d  BY <2>1
  <2>3. (2 + d) * P = 2 * P + d * P /\ d * P \in Nat /\ P \in Nat  BY PageAssumption
  <2>4. PICK z \in Nat, dp \in Nat : z = q * P /\ dp = d * P /\ z = 2 * P + dp
    BY <2>2, <2>3
  <2> QED
    BY <1>2, <1>3, <2>3, <2>4
<1> QED
  BY <1>1, <1>2, <1>3, <1>4 DEF PiecesOf

\* The pieces of a transfer of words are heard one after the other; one of words of nine
\* bits is one piece.
LEMMA PieceHeard ==
  ASSUME NEW s, NEW t \in Transfers, Hearable(s, t), NEW p \in Nat, p = 0 \/ p < PiecesOf(t),
         NEW l \in Nat, p <= l, s.mode = "3wire" => ~(l < PiecesOf(t))
  PROVE  /\ HeardPart(s, t, p, l) \in Seq(HeardBytes) /\ RestOf(s, t, p) \in Seq(HeardBytes)
         /\ l < PiecesOf(t) => /\ RestOf(s, t, l) \in Seq(HeardBytes)
                               /\ RestOf(s, t, p) = HeardPart(s, t, p, l) \o RestOf(s, t, l)
         /\ ~(l < PiecesOf(t)) => RestOf(s, t, p) = HeardPart(s, t, p, l)
<1>0. PICK n \in Nat, u \in Nat, v \in Nat : Places(t, p, l, n, u, v)
  BY WordPlaces
<1>1. /\ n = Len(t.words) /\ u = WordAt(t, p) /\ v = WordAt(t, l)
      /\ u <= v /\ v <= n /\ (~(l < PiecesOf(t)) => v = n)
  BY <1>0 DEF Places
<1>2. ASSUME ~(l < PiecesOf(t)) PROVE RestOf(s, t, p) = HeardPart(s, t, p, l)
  BY <1>1, <1>2 DEF RestOf, HeardPart, PartOf
<1>3. CASE s.mode # "3wire"
  <2>1. t.width \in {8, 16, 24} /\ t.index \in {0, 1} /\ t.words \in Seq(Nat)
    BY <1>3, TransferIs DEF Hearable
  <2>2. PICK a \in Seq(Nat) : a = SubSeq(t.words, u + 1, v)
    BY <1>1, PartIs DEF PartOf
  <2>3. \A i \in 1 .. n : t.words[i] \in Nat  BY <1>1, <2>1, ElementOfSeq
  <2>4. /\ SubSeq(t.words, u + 1, n) \in Seq(Nat) /\ SubSeq(t.words, v + 1, n) \in Seq(Nat)
    <3>1. \A i \in u + 1 .. n : t.words[i] \in Nat  BY <1>1, <2>3
    <3>2. \A i \in v + 1 .. n : t.words[i] \in Nat  BY <1>1, <2>3
    <3> QED
      BY <3>1, <3>2, SubSeqProperties
  <2>5. PICK b \in Seq(Nat), c \in Seq(Nat) :
          b = SubSeq(t.words, v + 1, n) /\ c = SubSeq(t.words, u + 1, n)
    BY <2>4
  <2>6. c = a \o b
    <3>1. PICK m \in Nat : m = u + 1  BY <1>1
    <3>2. /\ m \in 1 .. Len(t.words) + 1 /\ v \in m - 1 .. Len(t.words) /\ n \in v .. Len(t.words)
      BY <1>1, <3>1
    <3>3. SubSeq(t.words, m, v) \o SubSeq(t.words, v + 1, n) = SubSeq(t.words, m, n)
      BY <2>1, <3>2, ConcatAdjacentSubSeq
    <3> QED
      BY <2>2, <2>5, <3>1, <3>3
  <2>7. /\ HeardPart(s, t, p, l) = InBytes(t.index, t.width, a)
        /\ RestOf(s, t, p) = InBytes(t.index, t.width, c)
        /\ RestOf(s, t, l) = InBytes(t.index, t.width, b)
    <3>1. \A w \in Seq(Nat) : HearW(s, t.index, t.width, w) = InBytes(t.index, t.width, w)
      BY <1>3, <2>1, HeardPlain
    <3>2. HeardPart(s, t, p, l) = HearW(s, t.index, t.width, a)
      BY <1>1, <2>2 DEF HeardPart, PartOf
    <3>3. RestOf(s, t, p) = HearW(s, t.index, t.width, c)
      BY <1>1, <2>5 DEF RestOf
    <3>4. RestOf(s, t, l) = HearW(s, t.index, t.width, b)
      BY <1>1, <2>5 DEF RestOf
    <3> QED
      BY <3>1, <3>2, <3>3, <3>4
  <2>8. /\ InBytes(t.index, t.width, a) \in Seq(HeardBytes)
        /\ InBytes(t.index, t.width, b) \in Seq(HeardBytes)
        /\ InBytes(t.index, t.width, c) \in Seq(HeardBytes)
    BY <2>1, InBytesType
  <2>9. InBytes(t.index, t.width, a \o b)
          = InBytes(t.index, t.width, a) \o InBytes(t.index, t.width, b)
    BY <2>1, InBytesConcat, ZenonT(90)
  <2> QED
    BY <1>2, <2>6, <2>7, <2>8, <2>9
<1>4. CASE s.mode = "3wire"
  <2>1. ~(l < PiecesOf(t))  BY <1>4
  <2>2. PiecesOf(t) <= 1
    BY <1>4, OnePiece
  <2>3. p = 0
    <3>1. PiecesOf(t) \in Nat  BY TransferIs
    <3> QED
      BY <2>2, <3>1
  <2>4. RestOf(s, t, p) = HearT(s, t)  BY <2>3, RestWhole
  <2>5. RestOf(s, t, p) \in Seq(HeardBytes)  BY <2>4, HeardType
  <2> QED
    BY <1>2, <2>1, <2>5
<1> QED
  BY <1>3, <1>4

-----------------------------------------------------------------------------
(* The steps of the driver.                                                   *)
Messages == [dc : {0, 1}, start : {0, 112, 114, None}, width : Sizes, words : Seq(Nat)]

Shape ==
  /\ setup \in Setups /\ call \in Calls
  /\ pc \in {"idle", "command", "data", "end"} /\ refused \in BOOLEAN
  /\ startbuf \in {"none", "kmalloc", "dma"} /\ dc \in {0, 1}
  /\ rc \in {"ok", "EINVAL", "EIO", "ENOMEM"}
  /\ todo \in Seq(Transfers) /\ wire \in Seq(Messages)
  /\ piece \in Nat
  /\ piece # 0 => todo # <<>> /\ piece < PiecesOf(Head(todo))

\* Where the write is, and what that says of what is left.
Stage ==
  /\ pc \in {"idle", "end"} => todo = <<>>
  /\ pc = "idle" => wire = <<>>
  /\ pc # "end" => rc = "ok"
  /\ pc = "command" => \A k \in 1 .. Len(todo) : todo[k].index = 0
  /\ pc = "data" => \A k \in 1 .. Len(todo) : todo[k].index = 1
  /\ setup.mode = "4wire" => (pc = "command" => dc = 0) /\ (pc = "data" => dc = 1)
  /\ (pc = "command" /\ ~refused) \/ pc = "data" => ~(setup.mode = "3wire" /\ 9 \in setup.param)
  /\ ~OverOf(setup, call) => AllHearable(setup, todo)

LEMMA TailIs ==
  ASSUME NEW trs \in Seq(Transfers), trs # <<>>
  PROVE  /\ Head(trs) \in Transfers /\ Head(trs) = trs[1] /\ 1 \in 1 .. Len(trs)
         /\ Tail(trs) \in Seq(Transfers)
         /\ \A k \in 1 .. Len(Tail(trs)) : k + 1 \in 1 .. Len(trs) /\ Tail(trs)[k] = trs[k + 1]
<1>1. Len(trs) \in Nat \ {0}
  BY EmptySeq
<1>2. /\ Head(trs) \in Transfers /\ Tail(trs) \in Seq(Transfers) /\ Len(Tail(trs)) = Len(trs) - 1
      /\ \A k \in 1 .. Len(Tail(trs)) : Tail(trs)[k] = trs[k + 1]
  BY HeadTailProperties
<1>3. Head(trs) = trs[1]
  OBVIOUS
<1> QED
  BY <1>1, <1>2, <1>3

LEMMA TailHearable ==
  ASSUME NEW s, NEW trs \in Seq(Transfers), trs # <<>>, AllHearable(s, trs)
  PROVE  Hearable(s, Head(trs)) /\ Fits(Head(trs)) /\ AllHearable(s, Tail(trs))
BY TailIs DEF AllHearable

\* The message as it is put together.
MessageOf(l, b) ==
  [dc |-> dc,
   start |-> IF setup.mode # "startbyte" THEN 0
             ELSE IF DoDma /\ setup.fetches /\ b # "dma" THEN None ELSE 112 + 2 * Head(todo).index,
   width |-> Head(todo).width, words |-> PartOf(Head(todo), piece, l)]

LEMMA MessageIs ==
  ASSUME Shape, Message
  PROVE  \E l \in Nat :
           /\ pc \in {"command", "data"} /\ todo # <<>>
           /\ piece <= l /\ l <= PiecesOf(Head(todo))
           /\ PiecesOf(Head(todo)) <= 1 => ~(l < PiecesOf(Head(todo)))
           /\ l < PiecesOf(Head(todo)) => piece < l
           /\ wire' = Append(wire, MessageOf(l, startbuf'))
           /\ \/ l < PiecesOf(Head(todo)) /\ piece' = l /\ todo' = todo
              \/ ~(l < PiecesOf(Head(todo))) /\ piece' = 0 /\ todo' = Tail(todo)
           /\ startbuf' \in {"none", "kmalloc", "dma"}
           /\ UNCHANGED <<setup, call, pc, refused, dc, rc>>
<1>1. pc \in {"command", "data"} /\ todo # <<>>
  BY DEF Message
<1>2. PICK t \in Transfers : t = Head(todo)
  BY <1>1, TailIs DEF Shape
<1>3. /\ Length = Bytes(t) /\ Shift = ShiftOf(t) /\ Pieces = PiecesOf(t)
      /\ \A k : Cut(k) = CutOf(t, k)
  BY <1>2 DEF Length, Shift, Pieces, Cut, tr, Bytes, ShiftOf, PiecesOf, CutOf, CutAt
<1>4. PICK n \in Nat : n = PiecesOf(t)
  BY TransferIs
<1>5. PICK e \in {0, 1} : e = StartEntries
  BY DEF StartEntries
<1>6. PICK p \in Nat : p = piece /\ p <= n
  BY <1>2, <1>4 DEF Shape
<1>7. PICK l \in Nat : /\ l = piece + MessagePieces /\ p <= l /\ l <= n /\ (n <= 1 => ~(l < n))
                       /\ l < n => p < l
  <2>1. MessagePieces = Least(n - p, 4 - e)
    BY <1>3, <1>4, <1>5, <1>6 DEF MessagePieces
  <2>2. Least(n - p, 4 - e) = IF n - p < 4 - e THEN n - p ELSE 4 - e
    BY DEF Least
  <2>3. PICK d \in Nat : /\ d = Least(n - p, 4 - e) /\ p + d <= n /\ (n <= 1 => ~(p + d < n))
                         /\ p + d < n => p < p + d
    BY <1>5, <1>6, <2>2
  <2> QED
    BY <1>6, <2>1, <2>3
<1>8. wire' = Append(wire, MessageOf(l, startbuf'))
  <2>1. wire' = Append(wire, Sent(l))  BY <1>7 DEF Message
  <2>2. Sent(l).words = PartOf(t, p, l)
    BY <1>2, <1>3, <1>6 DEF Sent, PartOf, WordAt, tr
  <2>3. Sent(l) = [dc |-> dc, start |-> StartByte, width |-> t.width, words |-> PartOf(t, p, l)]
    BY <1>2, <1>3, <1>6 DEF Sent, PartOf, WordAt, tr
  <2>4. StartByte = IF setup.mode # "startbyte" THEN 0
             ELSE IF DoDma /\ setup.fetches /\ startbuf' # "dma" THEN None ELSE 112 + 2 * t.index
    BY <1>2 DEF StartByte, tr
  <2> QED
    BY <1>2, <1>6, <2>1, <2>3, <2>4 DEF MessageOf
<1>9. \/ l < n /\ piece' = l /\ todo' = todo
      \/ ~(l < n) /\ piece' = 0 /\ todo' = Tail(todo)
  BY <1>3, <1>4, <1>7 DEF Message
<1>10. startbuf' \in {"none", "kmalloc", "dma"}
  BY DEF Message, AllocStart, Shape
<1>11. UNCHANGED <<setup, call, pc, refused, dc, rc>>
  BY DEF Message
<1> QED
  BY <1>1, <1>2, <1>4, <1>6, <1>7, <1>8, <1>9, <1>10, <1>11

LEMMA MessageTyped ==
  ASSUME Shape, todo # <<>>, NEW l \in Nat, piece <= l, NEW b
  PROVE  MessageOf(l, b) \in Messages
<1>1. PICK t \in Transfers : t = Head(todo)
  BY TailIs DEF Shape
<1>2. t.index \in {0, 1} /\ t.width \in Sizes
  BY TransferIs
<1>3. PartOf(t, piece, l) \in Seq(Nat)
  BY PartIs DEF Shape
<1>4. dc \in {0, 1}
  BY DEF Shape
<1>5. 112 + 2 * t.index \in {112, 114}
  BY <1>2
<1> QED
  BY <1>1, <1>2, <1>3, <1>4, <1>5 DEF MessageOf, Messages

LEMMA ShapeStarts == Init => Shape /\ Stage
<1> SUFFICES ASSUME Init PROVE Shape /\ Stage
  OBVIOUS
<1>1. /\ setup \in Setups /\ call \in Calls /\ pc = "idle" /\ todo = <<>> /\ piece = 0
      /\ refused = FALSE /\ startbuf = "none" /\ dc = 0 /\ wire = <<>> /\ rc = "ok"
  BY DEF Init
<1>2. <<>> \in Seq(Transfers) /\ <<>> \in Seq(Messages) /\ Len(<<>>) = 0
  BY EmptySeq
<1>3. Shape
  BY <1>1, <1>2 DEF Shape
<1>4. Stage
  BY <1>1, <1>2 DEF Stage, AllHearable
<1> QED
  BY <1>3, <1>4

LEMMA ShapeKept ==
  ASSUME Shape, Stage, [Next]_vars
  PROVE  Shape'
<1> USE DEF Shape
<1>0. <<>> \in Seq(Transfers) /\ <<>> \in Seq(Messages)
  BY EmptySeq
<1>1. ASSUME NEW c \in Calls, BeginWrite(c) PROVE Shape'
  <2>1. HalfTyped(0, Command(setup, c))  BY CommandIs
  <2>2. todo' \in Seq(Transfers) /\ refused' \in BOOLEAN
    BY <1>1, <2>1 DEF BeginWrite, Begin, HalfTyped
  <2> QED
    BY <1>1, <2>2 DEF BeginWrite, Begin, SetDc
<1>2. ASSUME BeginData PROVE Shape'
  <2>1. ~(setup.mode = "3wire" /\ 9 \in setup.param)  BY <1>2 DEF BeginData, Stage
  <2>2. HalfTyped(1, Data(setup, call))  BY <2>1, DataIs
  <2>3. todo' \in Seq(Transfers) /\ refused' \in BOOLEAN
    BY <1>2, <2>2 DEF BeginData, Begin, HalfTyped
  <2> QED
    BY <1>2, <2>3 DEF BeginData, Begin, SetDc
<1>3. ASSUME Message PROVE Shape'
  <2>1. PICK l \in Nat :
           /\ pc \in {"command", "data"} /\ todo # <<>>
           /\ piece <= l /\ l <= PiecesOf(Head(todo))
           /\ wire' = Append(wire, MessageOf(l, startbuf'))
           /\ \/ l < PiecesOf(Head(todo)) /\ piece' = l /\ todo' = todo
              \/ ~(l < PiecesOf(Head(todo))) /\ piece' = 0 /\ todo' = Tail(todo)
           /\ startbuf' \in {"none", "kmalloc", "dma"}
           /\ UNCHANGED <<setup, call, pc, refused, dc, rc>>
    BY <1>3, MessageIs
  <2>2. MessageOf(l, startbuf') \in Messages  BY <2>1, MessageTyped
  <2>3. wire' \in Seq(Messages)  BY <2>1, <2>2, AppendProperties
  <2>4. todo' \in Seq(Transfers)  BY <2>1, TailIs
  <2>5. piece' \in Nat /\ (piece' # 0 => todo' # <<>> /\ piece' < PiecesOf(Head(todo')))
    BY <2>1
  <2> QED
    BY <2>1, <2>3, <2>4, <2>5
<1>4. ASSUME MessageFails PROVE Shape'
  BY <1>0, <1>4 DEF MessageFails, AllocStart
<1>5. ASSUME EndWrite PROVE Shape'
  BY <1>5 DEF EndWrite
<1>6. ASSUME Return PROVE Shape'
  BY <1>0, <1>6 DEF Return
<1>7. ASSUME UNCHANGED vars PROVE Shape'
  BY <1>7 DEF vars
<1> QED
  BY <1>1, <1>2, <1>3, <1>4, <1>5, <1>6, <1>7 DEF Next

LEMMA NothingHearable == \A s : AllHearable(s, <<>>)
<1>1. Len(<<>>) = 0
  OBVIOUS
<1> QED
  BY <1>1 DEF AllHearable

LEMMA StageKept ==
  ASSUME Shape, Stage, [Next]_vars
  PROVE  Stage'
<1> USE DEF Stage
<1>0. /\ Len(<<>>) = 0 /\ setup \in Setups /\ call \in Calls /\ todo \in Seq(Transfers)
      /\ pc \in {"idle", "command", "data", "end"}
  BY DEF Shape
<1>1. ASSUME NEW c \in Calls, BeginWrite(c) PROVE Stage'
  <2>1. PICK h : h = Command(setup, c)  OBVIOUS
  <2>2. /\ HalfTyped(0, h) /\ AllHearable(setup, h.todo)
        /\ h.ok => ~(setup.mode = "3wire" /\ 9 \in setup.param)
    BY <1>0, <2>1, CommandIs DEF HalfHeard
  <2>3. /\ pc' = "command" /\ todo' = h.todo /\ refused' = ~h.ok /\ setup' = setup /\ rc' = rc
        /\ setup.mode = "4wire" => dc' = 0
        /\ pc = "idle"
    BY <1>1, <2>1 DEF BeginWrite, Begin, SetDc
  <2>4. \A k \in 1 .. Len(todo') : todo'[k].index = 0
    BY <2>2, <2>3 DEF HalfTyped
  <2>5. ~refused' => h.ok  BY <2>3
  <2> QED
    BY <2>2, <2>3, <2>4, <2>5
<1>2. ASSUME BeginData PROVE Stage'
  <2>0. ~(setup.mode = "3wire" /\ 9 \in setup.param)  BY <1>2 DEF BeginData
  <2>1. PICK h : h = Data(setup, call)  OBVIOUS
  <2>2. HalfTyped(1, h) /\ (~OverOf(setup, call) => AllHearable(setup, h.todo))
    BY <1>0, <2>0, <2>1, DataIs DEF HalfHeard
  <2>3. /\ pc' = "data" /\ todo' = h.todo /\ setup' = setup /\ rc' = rc /\ call' = call
        /\ setup.mode = "4wire" => dc' = 1
        /\ pc = "command"
    BY <1>2, <2>1 DEF BeginData, Begin, SetDc
  <2>4. \A k \in 1 .. Len(todo') : todo'[k].index = 1
    BY <2>2, <2>3 DEF HalfTyped
  <2> QED
    BY <2>0, <2>2, <2>3, <2>4
<1>3. ASSUME Message PROVE Stage'
  <2>1. /\ pc \in {"command", "data"} /\ todo # <<>> /\ (todo' = todo \/ todo' = Tail(todo))
        /\ setup' = setup /\ call' = call /\ pc' = pc /\ refused' = refused /\ dc' = dc /\ rc' = rc
    BY <1>3, MessageIs
  <2>2. AllHearable(setup, todo) => AllHearable(setup, todo')
    BY <1>0, <2>1, TailHearable, ZenonT(30)
  <2>3. \A x : (\A k \in 1 .. Len(todo) : todo[k].index = x)
                 => (\A k \in 1 .. Len(todo') : todo'[k].index = x)
    BY <1>0, <2>1, TailIs
  <2> QED
    BY <1>0, <2>1, <2>2, <2>3
<1>4. ASSUME MessageFails PROVE Stage'
  BY <1>0, <1>4, NothingHearable DEF MessageFails
<1>5. ASSUME EndWrite PROVE Stage'
  BY <1>0, <1>5, NothingHearable DEF EndWrite
<1>6. ASSUME Return PROVE Stage'
  BY <1>0, <1>6, NothingHearable DEF Return
<1>7. ASSUME UNCHANGED vars PROVE Stage'
  BY <1>7 DEF vars
<1> QED
  BY <1>1, <1>2, <1>3, <1>4, <1>5, <1>6, <1>7 DEF Next

LEMMA ShapeHolds == Spec => [](Shape /\ Stage)
<1>1. Shape /\ Stage /\ [Next]_vars => (Shape /\ Stage)'
  BY ShapeKept, StageKept
<1> QED
  BY <1>1, ShapeStarts, PTL DEF Spec

LEMMA TypesAre == Shape => TypeOK
<1> SUFFICES ASSUME Shape PROVE TypeOK
  OBVIOUS
<1>1. \A i \in DOMAIN todo :
        /\ todo[i].index \in {0, 1} /\ todo[i].width \in Sizes
        /\ todo[i].words \in Seq(0 .. 2 ^ todo[i].width - 1)
        /\ todo[i].off \in {None} \cup (0 .. P - 1)
  <2> TAKE i \in DOMAIN todo
  <2>1. todo[i] \in Transfers  BY DEF Shape
  <2>2. todo[i].words \in Seq(Values(todo[i].width)) /\ todo[i] \in Fields
    BY <2>1 DEF Transfers
  <2> QED
    BY <2>2 DEF Fields, Values
<1>2. \A i \in DOMAIN wire : wire[i].start \in {0, 112, 114, None}
  <2> TAKE i \in DOMAIN wire
  <2>1. wire[i] \in Messages  BY DEF Shape
  <2> QED
    BY <2>1 DEF Messages
<1> QED
  BY <1>1, <1>2 DEF TypeOK, Shape

\* Every transfer is for the command or for data and has words of its width, every start
\* byte on the wire is one of the two there are: the types of lcdreg-spi.c.
THEOREM TypesKept == Spec => []TypeOK
BY ShapeHolds, TypesAre, PTL

LEMMA CeilUp ==
  ASSUME NEW n \in Nat, NEW h \in 0 .. P - 1
  PROVE  /\ Ceil(n + h, P) <= Ceil(n, P) + 1 /\ Ceil(n, P) \in Nat /\ Ceil(n + h, P) \in Nat
         /\ h = 0 => Ceil(n + h, P) = Ceil(n, P)
<1>1. P \in Nat \ {0} /\ n + h \in Nat
  BY PageAssumption
<1>2. PICK a \in Nat, b \in Nat :
        a = Ceil(n, P) /\ b = Ceil(n + h, P) /\ n <= a * P /\ b * P < n + h + P
  BY <1>1, CeilIs
<1>3. b <= a + 1
  <2>1. SUFFICES ASSUME ~(b <= a + 1) PROVE FALSE
    OBVIOUS
  <2>2. PICK d \in Nat : b = a + 2 + d  BY <2>1
  <2>3. (a + 2 + d) * P = a * P + 2 * P + d * P /\ d * P \in Nat /\ a * P \in Nat  BY <1>1
  <2>4. PICK ap \in Nat, bp \in Nat, dp \in Nat : ap = a * P /\ bp = b * P /\ dp = d * P
    BY <1>1
  <2>5. n <= ap /\ bp < n + h + P /\ bp = ap + 2 * P + dp  BY <1>2, <2>2, <2>3, <2>4
  <2> QED
    BY <1>1, <2>5
<1> QED
  BY <1>2, <1>3

LEMMA LeastOf ==
  ASSUME NEW a \in Int, NEW b \in Int
  PROVE  Least(a, b) \in Int /\ Least(a, b) <= a
BY DEF Least

LEMMA RoomFor ==
  ASSUME NEW e \in {0, 1}, NEW h \in Nat, NEW q \in Nat, NEW r \in Nat, NEW z \in Int,
         z <= q, q <= r + 1, h = 0 => q = r
  PROVE  \/ e + z <= r + 1
         \/ e = 1 /\ h > 0
OBVIOUS

LEMMA BuffersFit == Shape /\ Stage => FitsBuffers
<1> SUFFICES ASSUME Shape, Stage, todo # <<>>, ~Oversent
             PROVE  /\ tr.converted => Length <= P
                    /\ \/ StartEntries + MessagePieces <= Ceil(Length, P) + 1
                       \/ StartEntries = 1 /\ Shift > 0
  BY DEF FitsBuffers
<1>1. PICK t \in Transfers : t = Head(todo)
  BY TailIs DEF Shape
<1>2. ~OverOf(setup, call)
  BY DEF Oversent, OverOf
<1>3. Fits(t)
  BY <1>1, <1>2, TailHearable DEF Shape, Stage
<1>4. /\ tr = t /\ Length = Bytes(t) /\ Shift = ShiftOf(t) /\ Pieces = PiecesOf(t)
  BY <1>1 DEF Length, Shift, Pieces, tr, Bytes, ShiftOf, PiecesOf
<1>5. PICK n \in Nat, h \in 0 .. P - 1 : n = Bytes(t) /\ h = ShiftOf(t)
  BY TransferIs
<1>6. PICK q \in Nat, r \in Nat : q = Ceil(n + h, P) /\ r = Ceil(n, P) /\ q <= r + 1
                                  /\ (h = 0 => q = r)
  BY CeilUp
<1>7. PICK e \in {0, 1} : e = StartEntries
  BY DEF StartEntries
<1>8. MessagePieces = Least(q - piece, 4 - e)
  BY <1>4, <1>5, <1>6, <1>7 DEF MessagePieces, PiecesOf
<1>9. PICK p \in Nat : p = piece
  BY DEF Shape
<1>10. PICK a \in Int, b \in Int : a = q - p /\ b = 4 - e
  OBVIOUS
<1>11. \/ e + MessagePieces <= r + 1
       \/ e = 1 /\ h > 0
  <2>1. PICK z \in Int : z = Least(a, b) /\ z <= a
    BY LeastOf
  <2>2. z <= q
    BY <1>10, <2>1
  <2>3. h \in Nat
    BY PageAssumption
  <2>4. e + z <= r + 1 \/ (e = 1 /\ h > 0)
    BY <1>6, <2>2, <2>3, RoomFor
  <2> QED
    BY <1>8, <1>9, <1>10, <2>1, <2>4
<1> QED
  BY <1>3, <1>4, <1>5, <1>6, <1>7, <1>11 DEF Fits

\* Unless short data of 8 bits fill the buffer, what lcdreg_spi_write_one and
\* lcdreg_spi_write_9bit_dc convert fits its page, and what lcdreg_spi_transfer puts in a
\* message fits its array, but for a start byte before a buffer that begins within a page.
THEOREM BuffersHold == Spec => []FitsBuffers
BY ShapeHolds, BuffersFit, PTL

-----------------------------------------------------------------------------
(* What the chip took, and what it is still to get.                           *)
IndexOf(s, m) ==
  IF s.mode = "3wire" THEN 0
  ELSE IF s.mode = "4wire" THEN m.dc
  ELSE IF m.start = None THEN None ELSE (m.start \div 2) % 2
HearM(s, m) == HearW(s, IndexOf(s, m), m.width, m.words)
EachM(s, w) == [i \in 1 .. Len(w) |-> HearM(s, w[i])]
HeardWire(s, w) == FlattenSeq(EachM(s, w))
LostOf(s, w) == s.mode = "startbyte" /\ s.fetches /\ \E i \in 1 .. Len(w) : w[i].start = None

LEMMA DecodedIs ==
  ASSUME NEW m
  PROVE  Decoded(m) = HearM(setup, m)
<1>1. PICK bits : bits = Bits(m.width, m.words)
  OBVIOUS
<1>2. CASE setup.mode = "3wire"
  <2>1. HearM(setup, m) = HearNine(bits)  BY <1>1, <1>2 DEF HearM, HearW
  <2>2. Decoded(m) = [k \in 1 .. Len(bits) \div 9 |->
                        <<GroupOf(9, bits, k) \div 256, GroupOf(9, bits, k) % 256>>]
    BY <1>1, <1>2 DEF Decoded, GroupOf
  <2> QED
    BY <2>1, <2>2 DEF HearNine
<1>3. CASE setup.mode # "3wire"
  <2>1. HearM(setup, m) = HearEight(IndexOf(setup, m), bits)
    BY <1>1, <1>3 DEF HearM, HearW
  <2>2. CASE setup.mode = "4wire"
    <3>1. Decoded(m) = [k \in 1 .. Len(bits) \div 8 |-> <<m.dc, GroupOf(8, bits, k) % 256>>]
      BY <1>1, <1>3, <2>2 DEF Decoded, GroupOf
    <3>2. IndexOf(setup, m) = m.dc  BY <2>2 DEF IndexOf
    <3> QED
      BY <2>1, <3>1, <3>2 DEF HearEight
  <2>3. CASE setup.mode # "4wire"
    <3>1. Decoded(m) = [k \in 1 .. Len(bits) \div 8 |->
                          <<IF m.start = None THEN None ELSE (m.start \div 2) % 2,
                            GroupOf(8, bits, k) % 256>>]
      BY <1>1, <1>3, <2>3 DEF Decoded, GroupOf
    <3>2. IndexOf(setup, m) = IF m.start = None THEN None ELSE (m.start \div 2) % 2
      BY <1>3, <2>3 DEF IndexOf
    <3> QED
      BY <2>1, <3>1, <3>2 DEF HearEight
  <2> QED
    BY <2>2, <2>3
<1> QED
  BY <1>2, <1>3

LEMMA WithoutNopsIs == \A bytes : WithoutNops(bytes) = W(setup, bytes)
BY DEF WithoutNops, W, NoNops, EachNoNop, NoNop

LEMMA TakenIs ==
  ASSUME Shape
  PROVE  /\ Taken = W(setup, HeardWire(setup, wire)) /\ Meant = MeantOf(setup, call)
         /\ Oversent <=> OverOf(setup, call)
         /\ StartLost <=> LostOf(setup, wire)
<1>1. DOMAIN wire = 1 .. Len(wire)
  BY LenProperties DEF Shape
<1>2. [i \in DOMAIN wire |-> Decoded(wire[i])] = EachM(setup, wire)
  BY <1>1, DecodedIs DEF EachM
<1>3. Taken = W(setup, HeardWire(setup, wire))
  BY <1>2, WithoutNopsIs DEF Taken, HeardWire
<1>4. Meant = MeantOf(setup, call)
  BY WithoutNopsIs DEF Meant, MeantOf, Cmd, Dat
<1>5. Oversent <=> OverOf(setup, call)
  BY DEF Oversent, OverOf
<1>6. StartLost <=> LostOf(setup, wire)
  BY <1>1 DEF StartLost, LostOf
<1> QED
  BY <1>3, <1>4, <1>5, <1>6

LEMMA BeginsPrefix ==
  ASSUME NEW a \in Seq(HeardBytes), NEW b, Begins(a, b)
  PROVE  IsPrefix(a, b)
<1>1. PICK u \in Seq(HeardBytes) : a \o u = b
  BY DEF Begins
<1>2. /\ Len(a) \in Nat /\ Len(u) \in Nat /\ b \in Seq(HeardBytes) /\ Len(b) = Len(a) + Len(u)
      /\ \A i \in 1 .. Len(a) : b[i] = a[i]
  <2>1. Joined(HeardBytes, a, u, b)  BY <1>1, JoinedIs
  <2>2. Len(a) \in Nat /\ Len(u) \in Nat  BY LenProperties
  <2> QED
    BY <2>1, <2>2 DEF Joined
<1>3. a = SubSeq(b, 1, Len(a))
  <2>1. PICK n \in Nat : n = Len(a) /\ n <= Len(b)  BY <1>2
  <2>2. /\ Len(SubSeq(b, 1, n)) = n /\ SubSeq(b, 1, n) \in Seq(HeardBytes)
        /\ \A i \in 1 .. n : SubSeq(b, 1, n)[i] = b[i]
    <3>1. \A i \in 1 .. n : b[i] \in HeardBytes  BY <1>2, <2>1, ElementOfSeq
    <3> QED
      BY <2>1, <3>1, SubSeqProperties
  <2>3. \A i \in 1 .. n : a[i] = SubSeq(b, 1, n)[i]  BY <1>2, <2>1, <2>2
  <2>4. a = SubSeq(b, 1, n)  BY <2>1, <2>2, <2>3, SeqEqual
  <2> QED
    BY <2>1, <2>4
<1>4. SubSeq(a, 1, Len(a)) = a
  BY SubSeqFull
<1> QED
  BY <1>2, <1>3, <1>4 DEF IsPrefix

LEMMA MeantIs ==
  ASSUME NEW s \in Setups, NEW c \in Calls
  PROVE  /\ Cmd(s, c) \in Seq(HeardBytes) /\ Dat(s, c) \in Seq(HeardBytes)
         /\ W(s, Cmd(s, c)) \in Seq(HeardBytes) /\ W(s, Dat(s, c)) \in Seq(HeardBytes)
         /\ MeantOf(s, c) = W(s, Cmd(s, c)) \o W(s, Dat(s, c))
         /\ c.data = <<>> => MeantOf(s, c) = W(s, Cmd(s, c))
<1>1. PICK width \in {8, 16, 24}, words \in Seq(Nat) :
        width = s.defWidth /\ words = <<c.regnr>>
  BY CallIs
<1>2. PICK dwidth \in {8, 16, 24}, dwords \in Seq(Nat) :
        dwidth = Width(s, c) /\ dwords = Words(s, c) /\ Len(dwords) = Len(c.data)
  BY CallIs
<1>3. PICK x \in {0, 1}, y \in {0, 1} : x = 0 /\ y = 1
  OBVIOUS
<1>4. PICK a \in Seq(HeardBytes) : a = Cmd(s, c)
  <2>1. InBytes(x, width, words) \in Seq(HeardBytes)  BY InBytesType
  <2> QED
    BY <1>1, <1>3, <2>1 DEF Cmd
<1>5. PICK b \in Seq(HeardBytes) : b = Dat(s, c)
  <2>1. InBytes(y, dwidth, dwords) \in Seq(HeardBytes)  BY InBytesType
  <2> QED
    BY <1>2, <1>3, <2>1 DEF Dat
<1>6. /\ W(s, a) \in Seq(HeardBytes) /\ W(s, b) \in Seq(HeardBytes)
      /\ W(s, a \o b) = W(s, a) \o W(s, b)
  BY WConcat
<1>7. ASSUME c.data = <<>> PROVE b = <<>>
  <2>1. dwords = <<>>  BY <1>2, <1>7, EmptySeq
  <2>2. InBytes(y, dwidth, <<>>) = <<>>  BY InBytesNone
  <2> QED
    BY <1>2, <1>3, <1>5, <2>1, <2>2 DEF Dat
<1>8. ASSUME c.data = <<>> PROVE W(s, a \o b) = W(s, a)
  BY <1>7, <1>8, ConcatEmptySeq
<1> QED
  BY <1>4, <1>5, <1>6, <1>8 DEF MeantOf

\* What the chip got of a write, and what is left of it.
GotAndLeft(s, w, trs, p) == HeardWire(s, w) \o Left(s, trs, p)
Typed(s, w, trs, p) ==
  EachM(s, w) \in Seq(Seq(HeardBytes)) /\ Left(s, trs, p) \in Seq(HeardBytes)

LEMMA NothingLeft ==
  ASSUME NEW s, NEW w, EachM(s, w) \in Seq(Seq(HeardBytes))
  PROVE  \A p : /\ Typed(s, w, <<>>, p) /\ HeardWire(s, w) \in Seq(HeardBytes)
                /\ GotAndLeft(s, w, <<>>, p) = HeardWire(s, w)
<1>1. PICK y \in Seq(HeardBytes) : y = HeardWire(s, w)
  BY FlattenType DEF HeardWire
<1>2. <<>> \in Seq(HeardBytes) /\ y \o <<>> = y
  BY EmptySeq, ConcatEmptySeq
<1>3. \A p : Left(s, <<>>, p) = <<>>
  BY DEF Left
<1> QED
  BY <1>1, <1>2, <1>3 DEF Typed, GotAndLeft

LEMMA AllLeft ==
  ASSUME NEW s, NEW w, EachM(s, w) \in Seq(Seq(HeardBytes)), NEW trs \in Seq(Transfers),
         AllHearable(s, trs)
  PROVE  /\ Typed(s, w, trs, 0) /\ HeardAll(s, trs) \in Seq(HeardBytes)
         /\ GotAndLeft(s, w, trs, 0) = HeardWire(s, w) \o HeardAll(s, trs)
<1>1. Left(s, trs, 0) = HeardAll(s, trs)
  BY LeftWhole
<1>2. HeardAll(s, trs) \in Seq(HeardBytes)
  BY EachHeardIs
<1> QED
  BY <1>1, <1>2 DEF Typed, GotAndLeft

LEMMA NothingGot ==
  ASSUME NEW s
  PROVE  EachM(s, <<>>) \in Seq(Seq(HeardBytes)) /\ HeardWire(s, <<>>) = <<>>
<1>1. EachM(s, <<>>) = <<>>
  BY DEF EachM
<1> QED
  BY <1>1, EmptySeq, FlattenNone DEF HeardWire

LEMMA EachAppend ==
  ASSUME NEW s, NEW w \in Seq(Messages), NEW m \in Messages
  PROVE  EachM(s, Append(w, m)) = Append(EachM(s, w), HearM(s, m))
<1>1. PICK n \in Nat : n = Len(w)
  BY LenProperties
<1>2. PICK v \in Seq(Messages) : v = Append(w, m)
  BY AppendProperties
<1>3. Len(v) = n + 1 /\ v[n + 1] = m /\ \A i \in 1 .. n : v[i] = w[i]
  BY <1>1, <1>2, AppendProperties
<1>4. EachM(s, v) = [i \in 1 .. n + 1 |-> IF i = n + 1 THEN HearM(s, m) ELSE HearM(s, w[i])]
  <2>1. \A i \in 1 .. n + 1 :
          HearM(s, v[i]) = IF i = n + 1 THEN HearM(s, m) ELSE HearM(s, w[i])
    <3> TAKE i \in 1 .. n + 1
    <3>1. i = n + 1 \/ i \in 1 .. n  OBVIOUS
    <3> QED
      BY <1>3, <3>1
  <2> QED
    BY <1>3, <2>1 DEF EachM
<1>5. Append([i \in 1 .. n |-> HearM(s, w[i])], HearM(s, m))
        = [i \in 1 .. n + 1 |-> IF i = n + 1 THEN HearM(s, m) ELSE HearM(s, w[i])]
  OBVIOUS
<1> QED
  BY <1>1, <1>2, <1>4, <1>5 DEF EachM

LEMMA HeardJoins ==
  \A a, b, c \in Seq(HeardBytes) :
    a \o b \in Seq(HeardBytes) /\ (a \o b) \o c = a \o (b \o c)
<1> TAKE a, b, c \in Seq(HeardBytes)
<1>1. a \o b \in Seq(HeardBytes)
  BY ConcatProperties
<1>2. (a \o b) \o c = a \o (b \o c)
  BY Assoc
<1> QED
  BY <1>1, <1>2

LEMMA HeardJoin == \A a, b \in Seq(HeardBytes) : a \o b \in Seq(HeardBytes)
BY ConcatProperties

Regroups(a, b, c) == (a \o b) \o c = a \o (b \o c)

LEMMA HeardRegroups == \A a, b, c \in Seq(HeardBytes) : Regroups(a, b, c)
BY HeardJoins DEF Regroups

LEMMA HeardJoinTwo ==
  ASSUME NEW y \in Seq(HeardBytes), NEW a \in Seq(HeardBytes), NEW d \in Seq(HeardBytes),
         NEW b \in Seq(HeardBytes)
  PROVE  Regroups(y, a, d \o b) /\ Regroups(a, d, b)
<1>1. d \o b \in Seq(HeardBytes)
  BY HeardJoin
<1> QED
  BY <1>1, HeardRegroups

\* The next message, and what is left behind it.
LEMMA MessageHeard ==
  ASSUME NEW s, NEW w \in Seq(Messages), NEW trs \in Seq(Transfers), trs # <<>>,
         EachM(s, w) \in Seq(Seq(HeardBytes)), AllHearable(s, trs),
         NEW p \in Nat, p = 0 \/ p < PiecesOf(Head(trs)), NEW l \in Nat, p <= l,
         s.mode = "3wire" => ~(l < PiecesOf(Head(trs))),
         NEW m \in Messages, HearM(s, m) = HeardPart(s, Head(trs), p, l)
  PROVE  /\ l < PiecesOf(Head(trs)) =>
              /\ Typed(s, Append(w, m), trs, l)
              /\ GotAndLeft(s, Append(w, m), trs, l) = GotAndLeft(s, w, trs, p)
         /\ ~(l < PiecesOf(Head(trs))) =>
              /\ Typed(s, Append(w, m), Tail(trs), 0)
              /\ GotAndLeft(s, Append(w, m), Tail(trs), 0) = GotAndLeft(s, w, trs, p)
<1>1. PICK t \in Transfers : t = Head(trs) /\ Hearable(s, t)
  BY TailIs, TailHearable
<1>2. PICK a \in Seq(HeardBytes) : a = HeardPart(s, t, p, l)
  BY <1>1, PieceHeard
<1>3. PICK b \in Seq(HeardBytes) : b = HeardAll(s, Tail(trs)) /\ b = Left(s, Tail(trs), 0)
  <2>1. Tail(trs) \in Seq(Transfers) /\ AllHearable(s, Tail(trs))
    BY TailIs, TailHearable
  <2> QED
    BY <2>1, LeftWhole, EachHeardIs
<1>4. PICK e \in Seq(Seq(HeardBytes)) : e = EachM(s, w)
  OBVIOUS
<1>5. PICK y \in Seq(HeardBytes) : y = HeardWire(s, w) /\ y = FlattenSeq(e)
  BY <1>4, FlattenType DEF HeardWire
<1>6. EachM(s, Append(w, m)) = Append(e, a) /\ Append(e, a) \in Seq(Seq(HeardBytes))
  <2>1. EachM(s, Append(w, m)) = Append(e, a)
    BY <1>1, <1>2, <1>4, EachAppend
  <2>2. Append(e, a) \in Seq(Seq(HeardBytes))
    BY AppendProperties
  <2> QED
    BY <2>1, <2>2
<1>7. HeardWire(s, Append(w, m)) = y \o a
  <2>1. FlattenSeq(Append(e, a)) = FlattenSeq(e) \o a
    BY FlattenAppend
  <2> QED
    BY <1>5, <1>6, <2>1 DEF HeardWire
<1>8. PICK r \in Seq(HeardBytes) : r = RestOf(s, t, p)
  BY <1>1, PieceHeard
<1>9. GotAndLeft(s, w, trs, p) = y \o (r \o b)
  BY <1>1, <1>3, <1>5, <1>8 DEF GotAndLeft, Left
<1>10. ASSUME l < PiecesOf(t)
       PROVE  /\ Typed(s, Append(w, m), trs, l)
              /\ GotAndLeft(s, Append(w, m), trs, l) = GotAndLeft(s, w, trs, p)
  <2>1. PICK d \in Seq(HeardBytes) : d = RestOf(s, t, l) /\ r = a \o d
    BY <1>1, <1>2, <1>8, <1>10, PieceHeard
  <2>2. Left(s, trs, l) = d \o b  BY <1>1, <1>3, <2>1 DEF Left
  <2>3. d \o b \in Seq(HeardBytes)  BY HeardJoin
  <2>4. (y \o a) \o (d \o b) = y \o ((a \o d) \o b)
    <3>1. Regroups(y, a, d \o b) /\ Regroups(a, d, b)  BY HeardJoinTwo
    <3> QED
      BY <3>1 DEF Regroups
  <2> QED
    BY <1>6, <1>7, <1>9, <2>1, <2>2, <2>3, <2>4 DEF Typed, GotAndLeft
<1>11. ASSUME ~(l < PiecesOf(t))
       PROVE  /\ Typed(s, Append(w, m), Tail(trs), 0)
              /\ GotAndLeft(s, Append(w, m), Tail(trs), 0) = GotAndLeft(s, w, trs, p)
  <2>1. r = a  BY <1>1, <1>2, <1>8, <1>11, PieceHeard
  <2>2. (y \o a) \o b = y \o (a \o b)  BY HeardJoins, ZenonT(30)
  <2> QED
    BY <1>3, <1>6, <1>7, <1>9, <2>1, <2>2 DEF Typed, GotAndLeft
<1> QED
  BY <1>1, <1>10, <1>11

Got(s, c, st, ref, x, r) ==
  /\ st = "command" /\ ~ref => W(s, x) = W(s, Cmd(s, c))
  /\ st = "data" /\ ~ref => W(s, x) = MeantOf(s, c)
  /\ st # "idle" => Begins(W(s, x), MeantOf(s, c))
  /\ st \in {"command", "data"} /\ ref => Refusal(s, c)
  /\ st = "end" => /\ r = "ok" => W(s, x) = MeantOf(s, c)
                   /\ ref => r = "EINVAL" /\ Refusal(s, c)

\* All that the chip got and is still to get of a write is what it means, or begins it.
Sending ==
  ~OverOf(setup, call) /\ ~LostOf(setup, wire) =>
    /\ Typed(setup, wire, todo, piece)
    /\ Got(setup, call, pc, refused, GotAndLeft(setup, wire, todo, piece), rc)

LEMMA BeginsOn ==
  ASSUME NEW a, NEW b, NEW c \in Seq(HeardBytes), a \in Seq(HeardBytes),
         Begins(a, b)
  PROVE  Begins(a, b \o c)
<1>1. PICK u \in Seq(HeardBytes) : a \o u = b
  BY DEF Begins
<1>2. u \o c \in Seq(HeardBytes) /\ a \o (u \o c) = (a \o u) \o c
  BY HeardJoins
<1> QED
  BY <1>1, <1>2 DEF Begins

LEMMA BeginsSooner ==
  ASSUME NEW a \in Seq(HeardBytes), NEW b \in Seq(HeardBytes), NEW c, Begins(a \o b, c)
  PROVE  Begins(a, c)
<1>1. PICK u \in Seq(HeardBytes) : (a \o b) \o u = c
  BY DEF Begins
<1>2. b \o u \in Seq(HeardBytes) /\ a \o (b \o u) = (a \o b) \o u
  BY HeardJoins, SMTT(30)
<1> QED
  BY <1>1, <1>2 DEF Begins

LEMMA BeginsBehind ==
  ASSUME NEW a \in Seq(HeardBytes), NEW b \in Seq(HeardBytes), NEW c, Begins(b, c)
  PROVE  Begins(a \o b, a \o c)
<1>1. PICK u \in Seq(HeardBytes) : b \o u = c
  BY DEF Begins
<1>2. (a \o b) \o u = a \o (b \o u)
  BY HeardJoins
<1> QED
  BY <1>1, <1>2 DEF Begins

LEMMA SendingStarts ==
  ASSUME Shape, Stage, NEW c \in Calls, BeginWrite(c)
  PROVE  Sending'
<1>1. PICK h : h = Command(setup, c)
  OBVIOUS
<1>2. setup \in Setups /\ wire = <<>>
  BY DEF Shape, Stage, BeginWrite
<1>3. /\ HalfTyped(0, h) /\ HalfHeard(setup, 0, setup.defWidth, <<c.regnr>>, h)
      /\ ~h.ok => Refusal(setup, c)
  BY <1>1, <1>2, CommandIs
<1>4. /\ pc' = "command" /\ setup' = setup /\ call' = c /\ wire' = <<>>
      /\ todo' = h.todo /\ piece' = 0 /\ refused' = ~h.ok
  BY <1>1, <1>2 DEF BeginWrite, Begin
<1>5. PICK y \in Seq(HeardBytes) :
        /\ y = HeardAll(setup, h.todo) /\ Typed(setup, <<>>, h.todo, 0)
        /\ y = GotAndLeft(setup, <<>>, h.todo, 0)
  <2>1. h.todo \in Seq(Transfers) /\ AllHearable(setup, h.todo)
    BY <1>3 DEF HalfTyped, HalfHeard
  <2>2. PICK y \in Seq(HeardBytes) :
          /\ y = HeardAll(setup, h.todo) /\ Typed(setup, <<>>, h.todo, 0)
          /\ GotAndLeft(setup, <<>>, h.todo, 0) = <<>> \o y
    <3>1. EachM(setup, <<>>) \in Seq(Seq(HeardBytes)) /\ HeardWire(setup, <<>>) = <<>>
      BY NothingGot
    <3>2. PICK none : none = <<>>
      OBVIOUS
    <3>3. /\ HeardAll(setup, h.todo) \in Seq(HeardBytes) /\ Typed(setup, none, h.todo, 0)
          /\ GotAndLeft(setup, none, h.todo, 0) = HeardWire(setup, none) \o HeardAll(setup, h.todo)
      BY <2>1, <3>1, <3>2, AllLeft
    <3> QED
      BY <3>1, <3>2, <3>3
  <2> QED
    BY <2>2, ConcatEmptySeq
<1>6. W(setup, y) \in Seq(HeardBytes)
  BY WConcat
<1>7. /\ Begins(W(setup, y), W(setup, Cmd(setup, c)))
      /\ h.ok => W(setup, y) = W(setup, Cmd(setup, c))
  BY <1>3, <1>5 DEF HalfHeard, Cmd
<1>8. Begins(W(setup, y), MeantOf(setup, c))
  <2>1. W(setup, Dat(setup, c)) \in Seq(HeardBytes)
        /\ MeantOf(setup, c) = W(setup, Cmd(setup, c)) \o W(setup, Dat(setup, c))
    BY <1>2, MeantIs
  <2> QED
    BY <1>6, <1>7, <2>1, BeginsOn
<1>9. Got(setup, c, "command", ~h.ok, y, rc')
  BY <1>3, <1>7, <1>8 DEF Got
<1> QED
  BY <1>4, <1>5, <1>9 DEF Sending

LEMMA SendingData ==
  ASSUME Shape, Stage, Sending, BeginData
  PROVE  Sending'
<1>1. PICK h : h = Data(setup, call)
  OBVIOUS
<1>2. setup \in Setups /\ call \in Calls /\ todo = <<>> /\ pc = "command" /\ ~refused
      /\ ~(setup.mode = "3wire" /\ 9 \in setup.param)
  BY DEF Shape, Stage, BeginData
<1>3. /\ pc' = "data" /\ setup' = setup /\ call' = call /\ wire' = wire
      /\ todo' = h.todo /\ piece' = 0 /\ refused' = ~h.ok
  BY <1>1 DEF BeginData, Begin
<1>4. SUFFICES ASSUME ~OverOf(setup, call), ~LostOf(setup, wire)
               PROVE  /\ Typed(setup, wire, h.todo, 0)
                      /\ Got(setup, call, "data", ~h.ok, GotAndLeft(setup, wire, h.todo, 0), rc')
  BY <1>3 DEF Sending
<1>5. /\ HalfTyped(1, h)
      /\ HalfHeard(setup, 1, Width(setup, call), Words(setup, call), h)
      /\ ~h.ok => Refusal(setup, call)
  BY <1>1, <1>2, <1>4, DataIs
<1>6. /\ EachM(setup, wire) \in Seq(Seq(HeardBytes))
      /\ Got(setup, call, "command", FALSE, GotAndLeft(setup, wire, <<>>, piece), rc)
  <2>1. /\ Typed(setup, wire, todo, piece)
        /\ Got(setup, call, pc, refused, GotAndLeft(setup, wire, todo, piece), rc)
    BY <1>4 DEF Sending
  <2>2. refused = FALSE  BY <1>2 DEF Shape
  <2> QED
    BY <1>2, <2>1, <2>2 DEF Typed
<1>7. PICK y \in Seq(HeardBytes) :
        y = HeardWire(setup, wire) /\ y = GotAndLeft(setup, wire, <<>>, piece)
  BY <1>6, NothingLeft
<1>8. W(setup, y) = W(setup, Cmd(setup, call))
  BY <1>6, <1>7 DEF Got
<1>9. h.todo \in Seq(Transfers) /\ AllHearable(setup, h.todo)
  BY <1>5 DEF HalfTyped, HalfHeard
<1>10. PICK z \in Seq(HeardBytes) :
         /\ z = HeardAll(setup, h.todo) /\ Typed(setup, wire, h.todo, 0)
         /\ GotAndLeft(setup, wire, h.todo, 0) = y \o z
  BY <1>6, <1>7, <1>9, AllLeft
<1>11. /\ W(setup, y) \in Seq(HeardBytes) /\ W(setup, z) \in Seq(HeardBytes)
       /\ W(setup, y \o z) = W(setup, y) \o W(setup, z)
  BY WConcat
<1>12. /\ Begins(W(setup, z), W(setup, Dat(setup, call)))
       /\ h.ok => W(setup, z) = W(setup, Dat(setup, call))
  BY <1>5, <1>10 DEF HalfHeard, Dat
<1>13. MeantOf(setup, call) = W(setup, y) \o W(setup, Dat(setup, call))
  BY <1>2, <1>8, MeantIs
<1>14. Begins(W(setup, y \o z), MeantOf(setup, call))
  BY <1>11, <1>12, <1>13, BeginsBehind
<1>15. h.ok => W(setup, y \o z) = MeantOf(setup, call)
  BY <1>11, <1>12, <1>13
<1>16. Got(setup, call, "data", ~h.ok, y \o z, rc')
  BY <1>5, <1>14, <1>15 DEF Got
<1> QED
  BY <1>10, <1>16

\* A message is heard as what it is a piece of.
LEMMA MessageIndex ==
  ASSUME Shape, Stage, pc \in {"command", "data"}, todo # <<>>, NEW l \in Nat, piece <= l, NEW b,
         ~(setup.mode = "startbyte" /\ setup.fetches /\ MessageOf(l, b).start = None)
  PROVE  HearM(setup, MessageOf(l, b)) = HeardPart(setup, Head(todo), piece, l)
<1>1. PICK t \in Transfers : t = Head(todo) /\ t = todo[1] /\ 1 \in 1 .. Len(todo)
  BY TailIs DEF Shape
<1>2. t.index \in {0, 1} /\ (pc = "command" => t.index = 0) /\ (pc = "data" => t.index = 1)
  BY <1>1, TransferIs DEF Stage
<1>3. PICK m : m = MessageOf(l, b)
  OBVIOUS
<1>4. /\ m.dc = dc /\ m.width = t.width /\ m.words = PartOf(t, piece, l)
      /\ m.start = IF setup.mode # "startbyte" THEN 0
                   ELSE IF DoDma /\ setup.fetches /\ b # "dma" THEN None ELSE 112 + 2 * t.index
  BY <1>1, <1>3 DEF MessageOf
<1>5. HeardPart(setup, t, piece, l) = HearW(setup, t.index, m.width, m.words)
  BY <1>4 DEF HeardPart
<1>6. CASE setup.mode = "3wire"
  BY <1>1, <1>3, <1>5, <1>6 DEF HearM, HearW
<1>7. CASE setup.mode = "4wire"
  <2>1. dc = t.index  BY <1>2, <1>7 DEF Stage
  <2> QED
    BY <1>1, <1>3, <1>4, <1>5, <1>7, <2>1 DEF HearM, IndexOf
<1>8. CASE setup.mode = "startbyte"
  <2>1. m.start # None /\ m.start = 112 + 2 * t.index
    BY <1>2, <1>3, <1>4, <1>8, NoneAssumption
  <2>2. ((112 + 2 * t.index) \div 2) % 2 = t.index  BY <1>2
  <2> QED
    BY <1>1, <1>3, <1>5, <1>8, <2>1, <2>2 DEF HearM, IndexOf
<1>9. setup.mode \in Modes
  BY SetupAssumption DEF Shape
<1> QED
  BY <1>6, <1>7, <1>8, <1>9 DEF Modes

LEMMA LostStays ==
  ASSUME NEW s, NEW w \in Seq(Messages), NEW m \in Messages
  PROVE  /\ LostOf(s, w) => LostOf(s, Append(w, m))
         /\ s.mode = "startbyte" /\ s.fetches /\ m.start = None => LostOf(s, Append(w, m))
<1>1. PICK n \in Nat : n = Len(w)
  BY LenProperties
<1>2. /\ Len(Append(w, m)) = n + 1 /\ Append(w, m)[n + 1] = m
      /\ \A i \in 1 .. n : Append(w, m)[i] = w[i]
  BY <1>1, AppendProperties
<1>3. n + 1 \in 1 .. n + 1 /\ \A i \in 1 .. n : i \in 1 .. n + 1
  OBVIOUS
<1> QED
  BY <1>1, <1>2, <1>3 DEF LostOf

LEMMA SendingMessage ==
  ASSUME Shape, Stage, Sending, Message
  PROVE  Sending'
<1>1. PICK l \in Nat :
        /\ pc \in {"command", "data"} /\ todo # <<>>
        /\ piece <= l /\ l <= PiecesOf(Head(todo))
        /\ PiecesOf(Head(todo)) <= 1 => ~(l < PiecesOf(Head(todo)))
        /\ wire' = Append(wire, MessageOf(l, startbuf'))
        /\ \/ l < PiecesOf(Head(todo)) /\ piece' = l /\ todo' = todo
           \/ ~(l < PiecesOf(Head(todo))) /\ piece' = 0 /\ todo' = Tail(todo)
        /\ UNCHANGED <<setup, call, pc, refused, dc, rc>>
  BY MessageIs
<1>2. PICK m \in Messages : m = MessageOf(l, startbuf') /\ wire' = Append(wire, m)
  BY <1>1, MessageTyped
<1>3. SUFFICES ASSUME ~OverOf(setup, call), ~LostOf(setup, wire')
               PROVE  /\ Typed(setup, wire', todo', piece')
                      /\ Got(setup, call, pc, refused, GotAndLeft(setup, wire', todo', piece'), rc)
  BY <1>1 DEF Sending
<1>4. /\ ~LostOf(setup, wire)
      /\ ~(setup.mode = "startbyte" /\ setup.fetches /\ m.start = None)
  BY <1>2, <1>3, LostStays DEF Shape
<1>5. /\ Typed(setup, wire, todo, piece)
      /\ Got(setup, call, pc, refused, GotAndLeft(setup, wire, todo, piece), rc)
  BY <1>3, <1>4 DEF Sending
<1>6. HearM(setup, m) = HeardPart(setup, Head(todo), piece, l)
  BY <1>1, <1>2, <1>4, MessageIndex
<1>7. AllHearable(setup, todo)
  BY <1>3 DEF Stage
<1>8. setup.mode = "3wire" => ~(l < PiecesOf(Head(todo)))
  <2>1. Head(todo) \in Transfers /\ Hearable(setup, Head(todo))
    BY <1>1, <1>7, TailIs, TailHearable DEF Shape
  <2> QED
    BY <1>1, <2>1, OnePiece
<1>9. /\ wire \in Seq(Messages) /\ todo \in Seq(Transfers) /\ piece \in Nat
      /\ piece = 0 \/ piece < PiecesOf(Head(todo))
  BY DEF Shape
<1>10. EachM(setup, wire) \in Seq(Seq(HeardBytes))
  BY <1>5 DEF Typed
<1>11. /\ Typed(setup, wire', todo', piece')
       /\ GotAndLeft(setup, wire', todo', piece') = GotAndLeft(setup, wire, todo, piece)
  <2>1. /\ l < PiecesOf(Head(todo)) =>
             /\ Typed(setup, Append(wire, m), todo, l)
             /\ GotAndLeft(setup, Append(wire, m), todo, l) = GotAndLeft(setup, wire, todo, piece)
        /\ ~(l < PiecesOf(Head(todo))) =>
             /\ Typed(setup, Append(wire, m), Tail(todo), 0)
             /\ GotAndLeft(setup, Append(wire, m), Tail(todo), 0)
                  = GotAndLeft(setup, wire, todo, piece)
    BY <1>1, <1>6, <1>7, <1>8, <1>9, <1>10, MessageHeard
  <2> QED
    BY <1>1, <1>2, <2>1
<1> QED
  BY <1>5, <1>11

LEMMA SendingFails ==
  ASSUME Shape, Stage, Sending, MessageFails
  PROVE  Sending'
<1>1. /\ pc \in {"command", "data"} /\ pc' = "end" /\ todo' = <<>>
      /\ setup' = setup /\ call' = call /\ wire' = wire /\ rc' # "ok" /\ refused' = FALSE
  BY DEF MessageFails
<1>2. SUFFICES ASSUME ~OverOf(setup, call), ~LostOf(setup, wire)
               PROVE  /\ Typed(setup, wire, <<>>, piece')
                      /\ Got(setup, call, "end", refused',
                             GotAndLeft(setup, wire, <<>>, piece'), rc')
  BY <1>1 DEF Sending
<1>3. /\ Typed(setup, wire, todo, piece)
      /\ Got(setup, call, pc, refused, GotAndLeft(setup, wire, todo, piece), rc)
  BY <1>2 DEF Sending
<1>4. EachM(setup, wire) \in Seq(Seq(HeardBytes))
  BY <1>3 DEF Typed
<1>5. PICK y \in Seq(HeardBytes) :
        /\ y = HeardWire(setup, wire) /\ y = GotAndLeft(setup, wire, <<>>, piece')
        /\ Typed(setup, wire, <<>>, piece')
  BY <1>4, NothingLeft
<1>6. PICK z \in Seq(HeardBytes) :
        z = Left(setup, todo, piece) /\ GotAndLeft(setup, wire, todo, piece) = y \o z
  BY <1>3, <1>5 DEF Typed, GotAndLeft
<1>7. Begins(W(setup, y \o z), MeantOf(setup, call))
  BY <1>1, <1>3, <1>6 DEF Got
<1>8. /\ W(setup, y) \in Seq(HeardBytes) /\ W(setup, z) \in Seq(HeardBytes)
      /\ W(setup, y \o z) = W(setup, y) \o W(setup, z)
  BY WConcat
<1>9. Begins(W(setup, y), MeantOf(setup, call))
  BY <1>7, <1>8, BeginsSooner
<1>10. Got(setup, call, "end", refused', y, rc')
  BY <1>1, <1>9 DEF Got
<1> QED
  BY <1>5, <1>10

LEMMA SendingEnds ==
  ASSUME Shape, Stage, Sending, EndWrite
  PROVE  Sending'
<1>1. /\ pc \in {"command", "data"} /\ pc' = "end" /\ todo = <<>>
      /\ pc = "command" /\ ~refused => call.data = <<>>
      /\ rc' = IF refused THEN "EINVAL" ELSE rc
      /\ UNCHANGED <<setup, call, todo, piece, refused, wire>>
  BY DEF EndWrite
<1>2. PICK x : x = GotAndLeft(setup, wire, todo, piece)
  OBVIOUS
<1>3. SUFFICES ASSUME ~OverOf(setup, call), ~LostOf(setup, wire)
               PROVE  /\ Typed(setup, wire, todo, piece)
                      /\ Got(setup, call, "end", refused, x, rc')
  BY <1>1, <1>2 DEF Sending
<1>4. Typed(setup, wire, todo, piece) /\ Got(setup, call, pc, refused, x, rc)
  BY <1>2, <1>3 DEF Sending
<1>5. setup \in Setups /\ call \in Calls /\ refused \in BOOLEAN /\ rc = "ok"
  BY <1>1 DEF Shape, Stage
<1>6. Begins(W(setup, x), MeantOf(setup, call)) /\ (refused => Refusal(setup, call))
  BY <1>1, <1>4 DEF Got
<1>7. ~refused => W(setup, x) = MeantOf(setup, call)
  <2>1. CASE pc = "data"
    BY <1>4, <2>1 DEF Got
  <2>2. CASE pc = "command"
    <3>1. ~refused => MeantOf(setup, call) = W(setup, Cmd(setup, call))
      BY <1>1, <1>5, <2>2, MeantIs
    <3> QED
      BY <1>4, <2>2, <3>1 DEF Got
  <2> QED
    BY <1>1, <2>1, <2>2
<1>8. Got(setup, call, "end", refused, x, rc')
  BY <1>1, <1>5, <1>6, <1>7 DEF Got
<1> QED
  BY <1>4, <1>8

LEMMA SendingIdle ==
  ASSUME Shape, Stage, pc = "idle"
  PROVE  Sending
<1>1. wire = <<>> /\ todo = <<>>
  BY DEF Stage
<1>2. Typed(setup, wire, todo, piece)
  BY <1>1, NothingGot, NothingLeft
<1>3. Got(setup, call, "idle", refused, GotAndLeft(setup, wire, todo, piece), rc)
  BY DEF Got
<1> QED
  BY <1>2, <1>3 DEF Sending

LEMMA SendingIdleNext ==
  ASSUME Shape', Stage', pc' = "idle"
  PROVE  Sending'
<1>1. wire' = <<>> /\ todo' = <<>>
  BY DEF Stage
<1>2. Typed(setup', wire', todo', piece')
  BY <1>1, NothingGot, NothingLeft
<1>3. Got(setup', call', "idle", refused', GotAndLeft(setup', wire', todo', piece'), rc')
  BY DEF Got
<1> QED
  BY <1>2, <1>3 DEF Sending

LEMMA SendingKept ==
  ASSUME Shape, Stage, Sending, [Next]_vars
  PROVE  Sending'
<1>1. ASSUME NEW c \in Calls, BeginWrite(c) PROVE Sending'
  BY <1>1, SendingStarts
<1>2. ASSUME Return PROVE Sending'
  <2>1. pc' = "idle"  BY <1>2 DEF Return
  <2> QED
    BY <2>1, ShapeKept, StageKept, SendingIdleNext
<1>3. ASSUME UNCHANGED vars PROVE Sending'
  BY <1>3 DEF vars, Sending
<1> QED
  BY <1>1, <1>2, <1>3, SendingData, SendingMessage, SendingFails, SendingEnds DEF Next

LEMMA SendingHolds == Spec => [](Shape /\ Stage /\ Sending)
<1>1. Init => Sending
  <2>1. Init => pc = "idle"  BY DEF Init
  <2> QED
    BY <2>1, ShapeStarts, SendingIdle
<1>2. Shape /\ Stage /\ Sending /\ [Next]_vars => Sending'
  BY SendingKept
<1> QED
  BY <1>1, <1>2, ShapeHolds, PTL DEF Spec

LEMMA FaithfulIs == Shape /\ Stage /\ Sending => Faithful
<1> SUFFICES ASSUME Shape, Stage, Sending, ~Oversent, ~StartLost
             PROVE  IsPrefix(Taken, Meant)
  BY DEF Faithful
<1>1. /\ Taken = W(setup, HeardWire(setup, wire)) /\ Meant = MeantOf(setup, call)
      /\ ~OverOf(setup, call) /\ ~LostOf(setup, wire)
  BY TakenIs
<1>2. /\ Typed(setup, wire, todo, piece)
      /\ Got(setup, call, pc, refused, GotAndLeft(setup, wire, todo, piece), rc)
  BY <1>1 DEF Sending
<1>3. PICK y \in Seq(HeardBytes) : y = HeardWire(setup, wire)
  BY <1>2, NothingLeft DEF Typed
<1>4. PICK z \in Seq(HeardBytes) :
        z = Left(setup, todo, piece) /\ GotAndLeft(setup, wire, todo, piece) = y \o z
  BY <1>2, <1>3 DEF Typed, GotAndLeft
<1>5. /\ W(setup, y) \in Seq(HeardBytes) /\ W(setup, z) \in Seq(HeardBytes)
      /\ W(setup, y \o z) = W(setup, y) \o W(setup, z)
  BY WConcat
<1>6. Begins(W(setup, y), MeantOf(setup, call))
  <2>1. CASE pc # "idle"
    <3>1. Begins(W(setup, y \o z), MeantOf(setup, call))  BY <1>2, <1>4, <2>1 DEF Got
    <3> QED
      BY <1>5, <3>1, BeginsSooner
  <2>2. CASE pc = "idle"
    <3>1. wire = <<>>  BY <2>2 DEF Stage
    <3>2. y = <<>>  BY <1>3, <3>1, NothingGot
    <3>3. W(setup, y) = <<>>  BY <3>2, WNone
    <3>4. PICK o \in Seq(HeardBytes) : o = MeantOf(setup, call)
      <4>1. setup \in Setups /\ call \in Calls  BY DEF Shape
      <4>2. PICK a \in Seq(HeardBytes), b \in Seq(HeardBytes) : MeantOf(setup, call) = a \o b
        BY <4>1, MeantIs
      <4>3. a \o b \in Seq(HeardBytes)  BY HeardJoin
      <4> QED
        BY <4>2, <4>3
    <3>5. Begins(<<>>, o)  BY BeginsItself
    <3> QED
      BY <3>3, <3>4, <3>5
  <2> QED
    BY <2>1, <2>2
<1> QED
  BY <1>1, <1>3, <1>5, <1>6, BeginsPrefix

\* Whatever words the master supports and wherever chunks, pages and messages are cut by
\* lcdreg-spi.c, the chip has at every moment got the beginning of the command and the
\* data it was to get, unless 9-bit data fill the buffer or a start byte is lost.
THEOREM FaithfulHolds == Spec => []Faithful
BY SendingHolds, FaithfulIs, PTL

LEMMA CompleteIs == Shape /\ Stage /\ Sending => Complete
<1> SUFFICES ASSUME Shape, Stage, Sending, pc = "end", ~Oversent, ~StartLost
             PROVE  /\ rc = "ok" => Taken = Meant
                    /\ refused => rc = "EINVAL" /\ Refusal(setup, call)
  BY DEF Complete, Refusal
<1>1. /\ Taken = W(setup, HeardWire(setup, wire)) /\ Meant = MeantOf(setup, call)
      /\ ~OverOf(setup, call) /\ ~LostOf(setup, wire)
  BY TakenIs
<1>2. /\ Typed(setup, wire, todo, piece)
      /\ Got(setup, call, "end", refused, GotAndLeft(setup, wire, todo, piece), rc)
  BY <1>1 DEF Sending
<1>3. todo = <<>>
  BY DEF Stage
<1>4. GotAndLeft(setup, wire, todo, piece) = HeardWire(setup, wire)
  BY <1>2, <1>3, NothingLeft DEF Typed
<1> QED
  BY <1>1, <1>2, <1>4 DEF Got

\* A write of lcdreg-spi.c that returns success has sent all of the command and the data,
\* and the interface itself, whatever errors come from below, refuses one only where it has
\* no words for its width or eight words of nine bits do not come out.
THEOREM CompleteHolds == Spec => []Complete
BY SendingHolds, CompleteIs, PTL

-----------------------------------------------------------------------------
(* A write ends.                                                              *)

\* The pages left of the first transfer.
LEMMA PiecesLeft ==
  ASSUME Shape, todo # <<>>
  PROVE  /\ Pieces = PiecesOf(Head(todo)) /\ PiecesOf(Head(todo)) \in Nat
         /\ piece \in Nat /\ PiecesOf(Head(todo)) - piece \in Nat
<1>1. PICK t \in Transfers : t = Head(todo)
  BY TailIs DEF Shape
<1>2. Pieces = PiecesOf(t)
  BY <1>1 DEF Length, Shift, Pieces, tr, Bytes, ShiftOf, PiecesOf
<1>3. PICK n \in Nat : n = PiecesOf(t)
  BY TransferIs
<1>4. PICK p \in Nat : p = piece /\ p <= n
  BY <1>1, <1>3 DEF Shape
<1> QED
  BY <1>1, <1>2, <1>3, <1>4

Placed == Distance \in Nat \X Nat \X Nat

LEMMA ShapePlaced == Shape => Placed
<1> SUFFICES ASSUME Shape PROVE Placed
  OBVIOUS
<1>1. PICK a \in Nat :
        a = CASE pc = "command" -> 3 [] pc = "data" -> 2 [] pc = "end" -> 1 [] pc = "idle" -> 0
  <2>1. pc \in {"idle", "command", "data", "end"}  BY DEF Shape
  <2> QED
    BY <2>1
<1>2. PICK b \in Nat : b = Len(todo)
  BY LenProperties DEF Shape
<1>3. PICK c \in Nat : c = IF todo = <<>> THEN 0 ELSE Pieces - piece
  <2>1. todo # <<>> => Pieces - piece \in Nat  BY PiecesLeft
  <2> QED
    BY <2>1
<1>4. Distance = <<a, b, c>>  BY <1>1, <1>2, <1>3, Zenon DEF Distance
<1> QED
  BY <1>4 DEF Placed

LEMMA StepCloser ==
  ASSUME Shape, Stage, Next, pc # "idle"
  PROVE  Closer(Distance', Distance)
<1>1. ASSUME NEW c \in Calls, BeginWrite(c) PROVE FALSE
  BY <1>1 DEF BeginWrite
<1>2. CASE BeginData
  <2>1. pc = "command" /\ pc' = "data"  BY <1>2 DEF BeginData
  <2>2. Distance[1] = 3 /\ Distance'[1] = 2  BY <2>1 DEF Distance
  <2> QED
    BY <2>2 DEF Closer
<1>3. CASE MessageFails \/ EndWrite
  <2>1. pc \in {"command", "data"} /\ pc' = "end"  BY <1>3 DEF MessageFails, EndWrite
  <2>2. Distance[1] \in {2, 3} /\ Distance'[1] = 1  BY <2>1 DEF Distance
  <2> QED
    BY <2>2 DEF Closer
<1>4. CASE Return
  <2>1. pc = "end" /\ pc' = "idle"  BY <1>4 DEF Return
  <2>2. Distance[1] = 1 /\ Distance'[1] = 0  BY <2>1 DEF Distance
  <2> QED
    BY <2>2 DEF Closer
<1>5. CASE Message
  <2>1. PICK l \in Nat :
           /\ pc \in {"command", "data"} /\ todo # <<>> /\ pc' = pc /\ setup' = setup
           /\ l < PiecesOf(Head(todo)) => piece < l
           /\ \/ l < PiecesOf(Head(todo)) /\ piece' = l /\ todo' = todo
              \/ ~(l < PiecesOf(Head(todo))) /\ todo' = Tail(todo)
    BY <1>5, MessageIs
  <2>2. Distance'[1] = Distance[1]  BY <2>1 DEF Distance
  <2>3. CASE todo' = Tail(todo)
    <3>1. PICK a \in Nat : a = Len(todo) /\ Len(Tail(todo)) = a - 1
      BY <2>1, HeadTailProperties, LenProperties DEF Shape
    <3>2. Distance[2] = a /\ Distance'[2] = a - 1  BY <2>3, <3>1 DEF Distance
    <3> QED
      BY <2>2, <3>1, <3>2 DEF Closer
  <2>4. CASE l < PiecesOf(Head(todo)) /\ piece' = l /\ todo' = todo
    <3>1. PICK n \in Nat, p \in Nat : n = Pieces /\ n = PiecesOf(Head(todo)) /\ p = piece /\ p < l
      BY <2>1, <2>4, PiecesLeft
    <3>2. Pieces' = Pieces
      BY <2>4 DEF Pieces, Length, Shift, tr
    <3>3. Distance[3] = n - p /\ Distance'[3] = n - l /\ Distance'[2] = Distance[2]
      BY <2>1, <2>4, <3>1, <3>2 DEF Distance
    <3> QED
      BY <2>2, <3>1, <3>3 DEF Closer
  <2> QED
    BY <2>1, <2>3, <2>4
<1> QED
  BY <1>1, <1>2, <1>3, <1>4, <1>5 DEF Next

\* The loop of lcdreg_spi_transfer moves on with every message and stays within the buffer,
\* and a write of lcdreg_spi_write ends, for any lengths, offsets and size of page.
THEOREM AlwaysNearer == Spec => NearerEnd
<1>1. Shape /\ Stage /\ Placed' /\ [Next]_vars
        => [pc # "idle" => /\ Distance' \in Nat \X Nat \X Nat
                           /\ Closer(Distance', Distance)]_vars
  BY StepCloser DEF Placed
<1> QED
  BY <1>1, ShapeHolds, ShapePlaced, PTL DEF Spec, NearerEnd

=============================================================================
