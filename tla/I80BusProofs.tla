---------------------------- MODULE I80BusProofs ----------------------------
(***************************************************************************)
(* For any threads, devices, accesses and failures: no device is open and  *)
(* the address pins are 0 while nobody has the bus, and a chip takes words *)
(* only from accesses of its own device if the devices are AddressesApart, *)
(* which registration does not see to.  What makes it so is that bus_lock, *)
(* isopen, the address pins and the address the GPIO master remembers stay *)
(* together.                                                               *)
(*                                                                         *)
(* And an access that returns success has put its message on the bus, or   *)
(* got what the chip told (AddressesApart again, else two chips answer at  *)
(* once), word for word.  The calls of a job are shown to be its message   *)
(* cut into pieces, through the swapped conversion buffer and any size of  *)
(* it; then the chip is followed through them: at each step it has taken   *)
(* the message up to the word the access is at.                            *)
(***************************************************************************)
EXTENDS I80Bus, SeqLemmas, TLAPS

-----------------------------------------------------------------------------
(* Bytes and words.                                                           *)
LEMMA Quotient ==
  ASSUME NEW d \in Nat \ {0}, NEW q \in Nat, NEW r \in 0 .. d - 1
  PROVE  (q * d + r) \div d = q /\ (q * d + r) % d = r
<1>1. PICK m \in Int : m = q * d + r  OBVIOUS
<1>2. /\ m \div d \in Int /\ m % d = m - d * (m \div d)
      /\ d * (m \div d) <= m /\ m < d * (m \div d) + d
  OBVIOUS
<1>3. PICK k \in Int : k = m \div d  BY <1>2
<1>4. d * k < d * (q + 1) /\ d * q < d * (k + 1)  BY <1>1, <1>2, <1>3
<1>5. k < q + 1 /\ q < k + 1  BY <1>4
<1>6. k = q  BY <1>5
<1> QED
  BY <1>1, <1>2, <1>3, <1>6

\* Two bytes make a word.
LEMMA HalvesJoined ==
  ASSUME NEW h \in ByteValues, NEW l \in ByteValues
  PROVE  /\ h * Byte + l \in WordValues
         /\ (h * Byte + l) \div Byte = h /\ (h * Byte + l) % Byte = l
<1>1. PICK d \in Nat \ {0} : d = Byte  BY BusAssumption
<1>2. h \in Nat /\ l \in Nat /\ h <= d - 1 /\ l <= d - 1  BY <1>1 DEF ByteValues
<1>3. h * d + l \in Nat  BY <1>2
<1>4. h * d <= (d - 1) * d
  <2>1. PICK e \in Nat : d - 1 = h + e  BY <1>2
  <2>2. (d - 1) * d = h * d + e * d /\ e * d \in Nat  BY <1>2, <2>1
  <2> QED
    BY <1>2, <2>2
<1>5. (d - 1) * d + d = d * d  OBVIOUS
<1>6. h * d + l <= d * d - 1  BY <1>2, <1>4, <1>5
<1>7. l \in 0 .. d - 1  BY <1>2
<1>8. (h * d + l) \div d = h /\ (h * d + l) % d = l  BY <1>2, <1>7, Quotient
<1> QED
  BY <1>1, <1>3, <1>6, <1>8 DEF WordValues

\* A word has two bytes.
LEMMA Split ==
  ASSUME NEW x \in WordValues
  PROVE  x \div Byte \in ByteValues /\ x % Byte \in ByteValues
         /\ x = (x \div Byte) * Byte + (x % Byte)
<1>1. PICK d \in Nat \ {0} : d = Byte  BY BusAssumption
<1>2. x \in Nat /\ x < d * d  BY <1>1 DEF WordValues
<1>3. x % d \in 0 .. d - 1 /\ x % d = x - d * (x \div d)
      /\ x \div d \in Int /\ d * (x \div d) <= x /\ x < d * (x \div d) + d
  BY <1>2
<1>4. PICK k \in Int, m \in Int : k = x \div d /\ m = x % d  BY <1>3
<1>5. d * 0 < d * (k + 1) /\ d * k < d * d  BY <1>2, <1>3, <1>4
<1>6. 0 < k + 1 /\ k < d  BY <1>5
<1>7. x = k * d + m /\ k \in 0 .. d - 1 /\ m \in 0 .. d - 1  BY <1>2, <1>3, <1>4, <1>6
<1> QED
  BY <1>1, <1>4, <1>7 DEF ByteValues

LEMMA Swapped ==
  ASSUME NEW x \in WordValues
  PROVE  /\ Swap(x) \in WordValues
         /\ Swap(x) % Byte = x \div Byte /\ Swap(x) \div Byte = x % Byte
  BY Split, HalvesJoined DEF Swap

\* A word as the bus brings it: low byte first in memory.
LEMMA LowFirst ==
  ASSUME NEW a \in ByteValues, NEW b \in ByteValues
  PROVE  /\ a + Byte * b \in WordValues
         /\ Swap(a + Byte * b) \in WordValues
         /\ Swap(a + Byte * b) \div Byte = a /\ Swap(a + Byte * b) % Byte = b
<1>1. a \in Nat /\ b \in Nat /\ Byte \in Nat  BY BusAssumption DEF ByteValues
<1>2. a + Byte * b = b * Byte + a  BY <1>1
<1>3. b * Byte + a \in WordValues /\ (b * Byte + a) \div Byte = b /\ (b * Byte + a) % Byte = a
  BY HalvesJoined
<1>4. Swap(b * Byte + a) = a * Byte + b  BY <1>3 DEF Swap
<1> QED
  BY <1>2, <1>3, <1>4, HalvesJoined

\* The bytes of words in memory, each word low byte first.
LEMMA BytesOfWords ==
  ASSUME NEW w \in Seq(WordValues)
  PROVE  /\ Bytes16(w) \in Seq(ByteValues) /\ Len(Bytes16(w)) = 2 * Len(w)
         /\ \A i \in 1 .. Len(w) : /\ Bytes16(w)[2 * i - 1] = w[i] % Byte
                                   /\ Bytes16(w)[2 * i] = w[i] \div Byte
<1> DEFINE s == [i \in DOMAIN w |-> <<w[i] % Byte, w[i] \div Byte>>]
<1>1. Len(w) \in Nat /\ DOMAIN w = 1 .. Len(w) /\ \A i \in 1 .. Len(w) : w[i] \in WordValues
  OBVIOUS
<1>2. \A i \in 1 .. Len(w) : <<w[i] % Byte, w[i] \div Byte>> \in Seq(ByteValues)
  <2>1. \A a, b \in ByteValues : <<a, b>> \in Seq(ByteValues)  OBVIOUS
  <2> QED
    BY <1>1, <2>1, Split
<1>3. s \in Seq(Seq(ByteValues)) /\ Len(s) = Len(w)  BY <1>1, <1>2
<1>4. \A i \in 1 .. Len(s) : Len(s[i]) = 2 /\ s[i][1] = w[i] % Byte /\ s[i][2] = w[i] \div Byte
  BY <1>1, <1>3
<1>5. Bytes16(w) = FlattenSeq(s)  BY DEF Bytes16
<1> HIDE DEF s
<1>6. /\ Bytes16(w) \in Seq(ByteValues) /\ Len(Bytes16(w)) = Len(s) * 2
      /\ \A i \in 1 .. Len(s) : \A k \in 1 .. 2 : Bytes16(w)[(i - 1) * 2 + k] = s[i][k]
  <2>1. 2 \in Nat /\ \A i \in 1 .. Len(s) : Len(s[i]) = 2  BY <1>4
  <2>2. /\ FlattenSeq(s) \in Seq(ByteValues) /\ Len(FlattenSeq(s)) = Len(s) * 2
        /\ \A i \in 1 .. Len(s) : \A k \in 1 .. 2 :
             FlattenSeq(s)[(i - 1) * 2 + k] = s[i][k]
    <3>1. Table(ByteValues, s, 2)  BY <1>3, <2>1 DEF Table
    <3>2. InARow(ByteValues, s, 2, FlattenSeq(s))  BY <3>1, TableFlat
    <3> QED
      BY <3>2 DEF InARow
  <2> QED
    BY <2>2, <1>5
<1>7. \A i \in 1 .. Len(w) : /\ (i - 1) * 2 + 1 = 2 * i - 1 /\ (i - 1) * 2 + 2 = 2 * i
  BY <1>1
<1>8. 1 \in 1 .. 2 /\ 2 \in 1 .. 2 /\ Len(w) * 2 = 2 * Len(w)  BY <1>1
<1> QED
  BY <1>3, <1>4, <1>6, <1>7, <1>8

\* The words of the bus for the data of a job, and how many one word of it makes.
DataWords(j) == FlattenSeq([i \in DOMAIN j.data |-> OnBus(j.data[i], j.width)])
PerWord(j) == IF BusWidth = 8 /\ j.width = 16 THEN 2 ELSE 1

\* How many of them were moved before data call k.
Before(j, k) == (k - 1) * Chunk * PerWord(j)

LEMMA DataWordsFacts ==
  ASSUME NEW j \in Jobs, ~Refused(j)
  PROVE  /\ DataWords(j) \in Seq(BusValues)
         /\ Len(DataWords(j)) = Len(j.data) * PerWord(j)
         /\ \A i \in 1 .. Len(j.data) :
              /\ PerWord(j) = 1 => DataWords(j)[i] = j.data[i]
              /\ PerWord(j) = 2 => /\ DataWords(j)[2 * i - 1] = j.data[i] \div Byte
                                   /\ DataWords(j)[2 * i] = j.data[i] % Byte
<1> DEFINE s == [i \in DOMAIN j.data |-> OnBus(j.data[i], j.width)]
<1>1. /\ j.data \in Seq(WordValues) /\ Len(j.data) \in Nat /\ DOMAIN j.data = 1 .. Len(j.data)
      /\ \A i \in 1 .. Len(j.data) : j.data[i] \in WordValues
  BY BusAssumption
<1>2. \A i \in 1 .. Len(j.data) :
        OnBus(j.data[i], j.width) \in Seq(BusValues) /\ Len(OnBus(j.data[i], j.width)) = PerWord(j)
  <2> SUFFICES ASSUME NEW i \in 1 .. Len(j.data)
               PROVE  OnBus(j.data[i], j.width) \in Seq(BusValues)
                      /\ Len(OnBus(j.data[i], j.width)) = PerWord(j)
    OBVIOUS
  <2>1. CASE BusWidth = 8 /\ j.width = 16
    <3>1. j.data[i] \div Byte \in BusValues /\ j.data[i] % Byte \in BusValues
      BY <1>1, <2>1, Split DEF BusValues
    <3> QED
      BY <2>1, <3>1 DEF OnBus, PerWord
  <2>2. CASE ~(BusWidth = 8 /\ j.width = 16)
    <3>1. j.data[i] \in BusValues
      <4>1. j.data # <<>>  BY <1>1
      <4>2. j.width = BusWidth  BY <2>2, <4>1 DEF Refused, Direct
      <4>3. CASE BusWidth = 8
        <5>1. j.data \in Seq(ByteValues)  BY <4>2, <4>3, ByteAssumption
        <5> QED
          BY <4>3, <5>1 DEF BusValues
      <4>4. CASE BusWidth # 8
        BY <1>1, <4>4 DEF BusValues
      <4> QED
        BY <4>3, <4>4
    <3> QED
      BY <2>2, <3>1 DEF OnBus, PerWord
  <2> QED
    BY <2>1, <2>2
<1>3. s \in Seq(Seq(BusValues)) /\ Len(s) = Len(j.data)  BY <1>1, <1>2
<1>4. \A i \in 1 .. Len(s) : s[i] = OnBus(j.data[i], j.width) /\ Len(s[i]) = PerWord(j)
  BY <1>1, <1>2, <1>3
<1>5. DataWords(j) = FlattenSeq(s)  BY DEF DataWords
<1> HIDE DEF s
<1>6. PerWord(j) \in {1, 2} /\ PerWord(j) \in Nat  BY DEF PerWord
<1>7. /\ FlattenSeq(s) \in Seq(BusValues) /\ Len(FlattenSeq(s)) = Len(s) * PerWord(j)
      /\ \A i \in 1 .. Len(s) : \A k \in 1 .. PerWord(j) :
           FlattenSeq(s)[(i - 1) * PerWord(j) + k] = s[i][k]
  <2>1. Table(BusValues, s, PerWord(j))  BY <1>3, <1>4, <1>6 DEF Table
  <2>2. InARow(BusValues, s, PerWord(j), FlattenSeq(s))  BY <2>1, TableFlat
  <2> QED
    BY <2>2 DEF InARow
<1>8. ASSUME NEW i \in 1 .. Len(j.data)
      PROVE  /\ PerWord(j) = 1 => DataWords(j)[i] = j.data[i]
             /\ PerWord(j) = 2 => /\ DataWords(j)[2 * i - 1] = j.data[i] \div Byte
                                  /\ DataWords(j)[2 * i] = j.data[i] % Byte
  <2>1. s[i] = OnBus(j.data[i], j.width)  BY <1>3, <1>4
  <2>2. CASE PerWord(j) = 1
    <3>1. s[i][1] = j.data[i]  BY <2>1, <2>2 DEF OnBus, PerWord
    <3>2. 1 \in 1 .. 1 /\ (i - 1) * 1 + 1 = i  BY <1>1
    <3>3. FlattenSeq(s)[(i - 1) * 1 + 1] = s[i][1]
      <4>1. i \in 1 .. Len(s)  BY <1>3
      <4>2. \A k \in 1 .. PerWord(j) : FlattenSeq(s)[(i - 1) * PerWord(j) + k] = s[i][k]
        BY <1>7, <4>1, Zenon
      <4> QED
        BY <2>2, <3>2, <4>2, Zenon
    <3> QED
      BY <1>5, <2>2, <3>1, <3>2, <3>3
  <2>3. CASE PerWord(j) = 2
    <3>1. s[i][1] = j.data[i] \div Byte /\ s[i][2] = j.data[i] % Byte
      BY <2>1, <2>3 DEF OnBus, PerWord
    <3>2. 1 \in 1 .. 2 /\ 2 \in 1 .. 2 /\ (i - 1) * 2 + 1 = 2 * i - 1 /\ (i - 1) * 2 + 2 = 2 * i
      BY <1>1
    <3>3. FlattenSeq(s)[(i - 1) * 2 + 1] = s[i][1] /\ FlattenSeq(s)[(i - 1) * 2 + 2] = s[i][2]
      <4>1. i \in 1 .. Len(s)  BY <1>3
      <4>2. \A k \in 1 .. PerWord(j) : FlattenSeq(s)[(i - 1) * PerWord(j) + k] = s[i][k]
        BY <1>7, <4>1, Zenon
      <4>3. \A k \in 1 .. 2 : FlattenSeq(s)[(i - 1) * 2 + k] = s[i][k]
        BY <2>3, <4>2, Zenon
      <4> QED
        BY <3>2, <4>3, Zenon
    <3> QED
      BY <1>5, <2>3, <3>1, <3>2, <3>3
  <2> QED
    BY <1>6, <2>2, <2>3
<1> QED
  BY <1>3, <1>5, <1>7, <1>8

\* The register number goes out as the chip is to take it.
LEMMA RegnrIs ==
  ASSUME NEW r \in WordValues
  PROVE  /\ RegnrWords(r) = OnBus(r, 16) /\ OnBus(r, 16) \in Seq(BusValues)
         /\ Len(OnBus(r, 16)) \in {1, 2}
<1>1. CASE BusWidth = 8
  <2>1. <<Swap(r)>> \in Seq(WordValues)  BY Swapped
  <2> DEFINE b == Bytes16(<<Swap(r)>>)
  <2>2. /\ b \in Seq(ByteValues) /\ Len(b) = 2
        /\ b[1] = r \div Byte /\ b[2] = r % Byte
    <3>1. Len(<<Swap(r)>>) = 1 /\ <<Swap(r)>>[1] = Swap(r) /\ 1 \in 1 .. 1
          /\ 2 * 1 = 2 /\ 2 * 1 - 1 = 1
      OBVIOUS
    <3> QED
      BY <2>1, <3>1, BytesOfWords, Swapped
  <2>3. RegnrWords(r) = b  BY <1>1 DEF RegnrWords, AsBusWords
  <2>4. OnBus(r, 16) = <<r \div Byte, r % Byte>>  BY <1>1 DEF OnBus
  <2> HIDE DEF b
  <2>5. b = <<r \div Byte, r % Byte>>  BY <2>2
  <2>6. BusValues = ByteValues  BY <1>1 DEF BusValues
  <2> QED
    BY <2>2, <2>3, <2>4, <2>5, <2>6
<1>2. CASE BusWidth = 16
  <2>1. <<r>> \in Seq(WordValues)  OBVIOUS
  <2> DEFINE b == Bytes16(<<r>>)
  <2>2. /\ b \in Seq(ByteValues) /\ Len(b) = 2
        /\ b[1] = r % Byte /\ b[2] = r \div Byte
    <3>1. Len(<<r>>) = 1 /\ <<r>>[1] = r /\ 1 \in 1 .. 1 /\ 2 * 1 = 2 /\ 2 * 1 - 1 = 1
      OBVIOUS
    <3> QED
      BY <2>1, <3>1, BytesOfWords
  <2>3. RegnrWords(r) = [i \in 1 .. Len(b) \div 2 |-> b[2 * i - 1] + Byte * b[2 * i]]
    BY <1>2 DEF RegnrWords, AsBusWords
  <2>4. OnBus(r, 16) = <<r>>  BY <1>2 DEF OnBus
  <2>5. (r % Byte) + Byte * (r \div Byte) = r
    <3>1. PICK h \in Nat, l \in Nat, d \in Nat :
            h = r \div Byte /\ l = r % Byte /\ d = Byte /\ r = h * d + l
      BY Split, BusAssumption DEF ByteValues
    <3> QED
      BY <3>1
  <2> HIDE DEF b
  <2>6. 2 \div 2 = 1 /\ 2 * 1 = 2 /\ 2 * 1 - 1 = 1  OBVIOUS
  <2>7. RegnrWords(r) = [i \in 1 .. 1 |-> r]
    <3>1. RegnrWords(r) = [i \in 1 .. 1 |-> b[2 * i - 1] + Byte * b[2 * i]]
      BY <2>2, <2>3, <2>6
    <3>2. \A i \in 1 .. 1 : b[2 * i - 1] + Byte * b[2 * i] = r  BY <2>2, <2>5, <2>6
    <3> QED
      BY <3>1, <3>2
  <2>8. [i \in 1 .. 1 |-> r] = <<r>>  OBVIOUS
  <2>9. BusValues = WordValues  BY <1>2 DEF BusValues
  <2> QED
    BY <2>1, <2>4, <2>7, <2>8, <2>9
<1> QED
  BY <1>1, <1>2, BusAssumption

LEMMA Halves ==
  ASSUME NEW m \in Nat, NEW i \in 1 .. 2 * m
  PROVE  \E q \in 1 .. m : i = 2 * q - 1 \/ i = 2 * q
<1>1. (i + 1) \div 2 \in 1 .. m
      /\ (i = 2 * ((i + 1) \div 2) - 1 \/ i = 2 * ((i + 1) \div 2))
  OBVIOUS
<1> QED
  BY <1>1

\* A piece of words, swapped and taken byte by byte: high byte first.
LEMMA ChunkWordsIs ==
  ASSUME BusWidth = 8, NEW w \in Seq(WordValues)
  PROVE  /\ ChunkWords(w) \in Seq(BusValues) /\ Len(ChunkWords(w)) = 2 * Len(w)
         /\ \A i \in 1 .. Len(w) : /\ ChunkWords(w)[2 * i - 1] = w[i] \div Byte
                                   /\ ChunkWords(w)[2 * i] = w[i] % Byte
<1> DEFINE s == [i \in DOMAIN w |-> Swap(w[i])]
<1>1. Len(w) \in Nat /\ DOMAIN w = 1 .. Len(w) /\ \A i \in 1 .. Len(w) : w[i] \in WordValues
  OBVIOUS
<1>2. \A i \in 1 .. Len(w) : /\ Swap(w[i]) \in WordValues
                             /\ Swap(w[i]) % Byte = w[i] \div Byte
                             /\ Swap(w[i]) \div Byte = w[i] % Byte
  BY <1>1, Swapped
<1>3. s \in Seq(WordValues) /\ Len(s) = Len(w) /\ \A i \in 1 .. Len(w) : s[i] = Swap(w[i])
  BY <1>1, <1>2
<1>4. ChunkWords(w) = Bytes16(s) /\ BusValues = ByteValues
  BY DEF ChunkWords, AsBusWords, BusValues
<1> HIDE DEF s
<1>5. /\ Bytes16(s) \in Seq(ByteValues) /\ Len(Bytes16(s)) = 2 * Len(s)
      /\ \A i \in 1 .. Len(s) : /\ Bytes16(s)[2 * i - 1] = s[i] % Byte
                                /\ Bytes16(s)[2 * i] = s[i] \div Byte
  BY <1>3, BytesOfWords
<1> QED
  BY <1>2, <1>3, <1>4, <1>5

\* On a bus of 16 bits words in memory are words of the bus.
LEMMA WordsBack ==
  ASSUME BusWidth = 16, NEW w \in Seq(WordValues)
  PROVE  AsBusWords(Bytes16(w)) = w
<1> DEFINE b == Bytes16(w)
<1>1. Len(w) \in Nat /\ w = [i \in 1 .. Len(w) |-> w[i]]
      /\ \A i \in 1 .. Len(w) : w[i] \in WordValues
  OBVIOUS
<1>2. /\ Len(b) = 2 * Len(w)
      /\ \A i \in 1 .. Len(w) : b[2 * i - 1] = w[i] % Byte /\ b[2 * i] = w[i] \div Byte
  BY BytesOfWords
<1>3. AsBusWords(b) = [i \in 1 .. Len(b) \div 2 |-> b[2 * i - 1] + Byte * b[2 * i]]
  BY DEF AsBusWords
<1> HIDE DEF b
<1>4. Len(b) \div 2 = Len(w)
  <2>1. \A x \in Nat : (2 * x) \div 2 = x  OBVIOUS
  <2> QED
    BY <2>1, <1>1, <1>2
<1>5. ASSUME NEW x \in WordValues PROVE (x % Byte) + Byte * (x \div Byte) = x
  <2>1. PICK h \in Nat, l \in Nat, d \in Nat :
          h = x \div Byte /\ l = x % Byte /\ d = Byte /\ x = h * d + l
    BY Split, BusAssumption DEF ByteValues
  <2> QED
    BY <2>1
<1>6. \A i \in 1 .. Len(w) : b[2 * i - 1] + Byte * b[2 * i] = w[i]  BY <1>1, <1>2, <1>5
<1>7. AsBusWords(b) = [i \in 1 .. Len(w) |-> w[i]]  BY <1>3, <1>4, <1>6
<1> QED
  BY <1>1, <1>7 DEF b

\* How many pieces of c words are in n words.
LEMMA Pieces ==
  ASSUME NEW n \in Nat \ {0}, NEW c \in Nat \ {0}
  PROVE  LET k == (n + c - 1) \div c
         IN  k \in Nat \ {0} /\ n <= k * c /\ (k - 1) * c < n
<1>1. PICK m \in Nat : m = n + c - 1  OBVIOUS
<1>2. m \div c \in Int /\ c * (m \div c) <= m /\ m < c * (m \div c) + c  OBVIOUS
<1>3. PICK k \in Int : k = m \div c  BY <1>2
<1>4. c * k <= n + c - 1 /\ n + c - 1 < c * k + c  BY <1>1, <1>2, <1>3
<1>5. c * 0 < c * k  BY <1>4
<1>6. 0 < k  BY <1>5
<1>7. k * c = c * k /\ (k - 1) * c = c * k - c  OBVIOUS
<1>8. k \in Nat \ {0} /\ n <= k * c /\ (k - 1) * c < n  BY <1>4, <1>6, <1>7
<1> QED
  BY <1>1, <1>3, <1>8

\* The calls for the data move its words one after the other.
LEMMA DataCallsFacts ==
  ASSUME NEW j \in Jobs, ~Refused(j), j.data # <<>>
  PROVE  LET n == Len(DataCalls(j))
         IN  /\ n \in Nat \ {0} /\ DOMAIN DataCalls(j) = 1 .. n
             /\ \A k \in 1 .. n :
                  LET w == DataCalls(j)[k]
                  IN  /\ w \in Seq(BusValues)
                      /\ Before(j, k) \in Nat
                      /\ Before(j, k) + Len(w) =
                           IF k = n THEN Len(DataWords(j)) ELSE Before(j, k + 1)
                      /\ \A i \in 1 .. Len(w) : /\ Before(j, k) + i \in 1 .. Len(DataWords(j))
                                               /\ DataWords(j)[Before(j, k) + i] = w[i]
<1> DEFINE Moves(w, before, after) ==
             /\ w \in Seq(BusValues) /\ before \in Nat /\ before + Len(w) = after
             /\ \A i \in 1 .. Len(w) : /\ before + i \in 1 .. Len(DataWords(j))
                                      /\ DataWords(j)[before + i] = w[i]
<1>1. /\ j.data \in Seq(WordValues) /\ Len(j.data) \in Nat \ {0}
      /\ \A i \in 1 .. Len(j.data) : j.data[i] \in WordValues
  BY BusAssumption
<1>2. Chunk \in Nat \ {0}  BY BusAssumption
<1>3. CASE Direct(j)
  <2>1. PerWord(j) = 1 /\ j.width = BusWidth  BY <1>3 DEF PerWord, Direct
  <2>2. DataCalls(j) = <<j.data>>
    <3>1. CASE BusWidth = 8  BY <1>3, <2>1, <3>1 DEF DataCalls
    <3>2. CASE BusWidth = 16
      BY <1>1, <1>3, <2>1, <3>2, WordsBack DEF DataCalls
    <3> QED
      BY <3>1, <3>2, BusAssumption
  <2>3. Before(j, 1) = 0  BY <1>2, <2>1 DEF Before
  <2>4. j.data \in Seq(BusValues)
    BY <1>1, <2>1, ByteAssumption DEF BusValues
  <2>5. Len(DataWords(j)) = Len(j.data) * 1
        /\ \A i \in 1 .. Len(j.data) : DataWords(j)[i] = j.data[i]
    BY <2>1, DataWordsFacts
  <2>6. \A i \in 1 .. Len(j.data) : 0 + i = i  BY <1>1
  <2>7. Moves(j.data, 0, Len(DataWords(j)))  BY <1>1, <2>4, <2>5, <2>6
  <2>8. Len(<<j.data>>) = 1 /\ <<j.data>>[1] = j.data /\ DOMAIN <<j.data>> = 1 .. 1
        /\ \A k \in 1 .. 1 : k = 1
    OBVIOUS
  <2> QED
    BY <2>2, <2>3, <2>7, <2>8
<1>4. CASE ~Direct(j)
  <2>1. j.width = 16 /\ BusWidth = 8 /\ PerWord(j) = 2  BY <1>4 DEF Refused, PerWord
  <2>2. PICK n \in Nat : n = Len(j.data) /\ n # 0  BY <1>1
  <2>3. PICK m \in Nat \ {0} :
          m = (n + Chunk - 1) \div Chunk /\ n <= m * Chunk /\ (m - 1) * Chunk < n
    BY <1>2, <2>2, Pieces
  <2>4. /\ DataCalls(j) = [k \in 1 .. m |-> ChunkWords(Chunks(j)[k])]
        /\ \A k \in 1 .. m :
             Chunks(j)[k] = SubSeq(j.data, (k - 1) * Chunk + 1,
                                   IF k * Chunk < n THEN k * Chunk ELSE n)
    BY <1>4, <2>2, <2>3 DEF DataCalls, Chunks
  <2>5. Len(DataCalls(j)) = m /\ DOMAIN DataCalls(j) = 1 .. m  BY <2>4
  <2>6. ASSUME NEW k \in 1 .. m
        PROVE  Moves(DataCalls(j)[k], Before(j, k),
                     IF k = m THEN Len(DataWords(j)) ELSE Before(j, k + 1))
    <3>1. PICK b \in Nat : b = (k - 1) * Chunk
      <4>1. k - 1 \in Nat  OBVIOUS
      <4> QED
        BY <4>1, <1>2
    <3>2. PICK e \in Nat : e = IF k * Chunk < n THEN k * Chunk ELSE n
      BY <1>2, <2>2
    <3>3. /\ b < n /\ e <= n /\ b < e
          /\ e = IF k = m THEN n ELSE b + Chunk
      <4>1. k * Chunk = b + Chunk /\ k * Chunk \in Nat
        <5>1. \A x, y \in Int : x * y = (x - 1) * y + y  OBVIOUS
        <5>2. k \in Int /\ Chunk \in Int  BY <1>2
        <5>3. k * Chunk = (k - 1) * Chunk + Chunk  BY <5>1, <5>2
        <5> QED
          BY <1>2, <3>1, <5>3
      <4>2. CASE k = m
        <5>1. b < n /\ n <= b + Chunk  BY <2>3, <3>1, <4>1, <4>2
        <5>2. e = n  BY <1>2, <2>2, <3>2, <4>1, <5>1
        <5> QED
          BY <4>2, <5>1, <5>2
      <4>3. CASE k # m
        <5>a. m - 1 - k \in Nat  BY <4>3
        <5>1. PICK d \in Nat : m - 1 = k + d  BY <5>a
        <5>2. (m - 1) * Chunk = k * Chunk + d * Chunk /\ d * Chunk \in Nat  BY <5>1, <1>2
        <5>3. k * Chunk < n
          <6>1. (m - 1) * Chunk \in Nat  BY <5>1, <1>2
          <6> QED
            BY <2>2, <2>3, <4>1, <5>2, <6>1
        <5> QED
          BY <1>2, <3>1, <3>2, <4>1, <4>3, <5>3
      <4> QED
        BY <4>2, <4>3
    <3> DEFINE c == Chunks(j)[k]
    <3>4. c = SubSeq(j.data, b + 1, e)  BY <2>4, <3>1, <3>2
    <3>5. \A i \in b + 1 .. e : j.data[i] \in WordValues  BY <1>1, <2>2, <3>3
    <3>6. /\ c \in Seq(WordValues) /\ Len(c) = e - b
          /\ \A i \in 1 .. e - b : c[i] = j.data[b + i]
      <4>1. b + 1 \in Int /\ e \in Int /\ b + 1 <= e /\ e - (b + 1) + 1 = e - b
            /\ \A i \in 1 .. e - b : (b + 1) + i - 1 = b + i
        BY <3>3
      <4>2. /\ SubSeq(j.data, b + 1, e) \in Seq(WordValues)
            /\ Len(SubSeq(j.data, b + 1, e)) = e - (b + 1) + 1
            /\ \A i \in 1 .. e - (b + 1) + 1 :
                 SubSeq(j.data, b + 1, e)[i] = j.data[(b + 1) + i - 1]
        BY <3>5, <4>1, SubSeqProperties
      <4> QED
        BY <3>4, <4>1, <4>2
    <3>7. DataCalls(j)[k] = ChunkWords(c)  BY <2>4
    <3> HIDE DEF c
    <3>8. /\ ChunkWords(c) \in Seq(BusValues) /\ Len(ChunkWords(c)) = 2 * (e - b)
          /\ \A i \in 1 .. e - b : /\ ChunkWords(c)[2 * i - 1] = c[i] \div Byte
                                   /\ ChunkWords(c)[2 * i] = c[i] % Byte
      BY <2>1, <3>6, ChunkWordsIs
    <3>9. Before(j, k) = b * 2  BY <2>1, <3>1 DEF Before
    <3>10. k # m => Before(j, k + 1) = (b + Chunk) * 2
      <4>1. ((k + 1) - 1) * Chunk = b + Chunk  BY <1>2, <3>1
      <4> QED
        BY <2>1, <4>1 DEF Before
    <3>11. Len(DataWords(j)) = n * 2  BY <2>1, <2>2, DataWordsFacts
    <3>12. ASSUME NEW i \in 1 .. 2 * (e - b)
           PROVE  /\ b * 2 + i \in 1 .. Len(DataWords(j))
                  /\ DataWords(j)[b * 2 + i] = ChunkWords(c)[i]
      <4>1. e - b \in Nat  BY <3>3
      <4>2. PICK q \in 1 .. e - b : i = 2 * q - 1 \/ i = 2 * q  BY <4>1, Halves
      <4>3. b + q \in 1 .. Len(j.data) /\ c[q] = j.data[b + q]
        <5>1. c[q] = j.data[b + q]  BY <3>6, <4>2
        <5>2. b + q \in 1 .. n  BY <3>3, <4>2
        <5> QED
          BY <2>2, <5>1, <5>2
      <4>4. /\ DataWords(j)[2 * (b + q) - 1] = j.data[b + q] \div Byte
            /\ DataWords(j)[2 * (b + q)] = j.data[b + q] % Byte
        BY <2>1, <4>3, DataWordsFacts
      <4>5. 2 * (b + q) - 1 = b * 2 + (2 * q - 1) /\ 2 * (b + q) = b * 2 + 2 * q
        BY <4>2
      <4>6. b * 2 + i \in 1 .. n * 2  BY <3>3
      <4> QED
        BY <3>8, <3>11, <4>2, <4>3, <4>4, <4>5, <4>6
    <3>13. b * 2 + 2 * (e - b) = IF k = m THEN Len(DataWords(j)) ELSE Before(j, k + 1)
      <4>1. b * 2 + 2 * (e - b) = e * 2  BY <3>3
      <4> QED
        BY <3>3, <3>10, <3>11, <4>1
    <3> QED
      BY <3>7, <3>8, <3>9, <3>12, <3>13
  <2> QED
    BY <2>5, <2>6
<1> QED
  BY <1>3, <1>4

-----------------------------------------------------------------------------
(* The calls of a job.                                                        *)

LEMMA DivNat ==
  ASSUME NEW a \in Nat, NEW c \in Nat \ {0}
  PROVE  a \div c \in Nat
  OBVIOUS

LEMMA ChunksCount ==
  ASSUME NEW j \in Jobs
  PROVE  /\ DOMAIN Chunks(j) = 1 .. (Len(j.data) + Chunk - 1) \div Chunk
         /\ (Len(j.data) + Chunk - 1) \div Chunk \in Nat
<1>1. Len(j.data) \in Nat /\ Chunk \in Nat \ {0}
  BY BusAssumption
<1>2. Len(j.data) + Chunk - 1 \in Nat
  BY <1>1
<1>3. (Len(j.data) + Chunk - 1) \div Chunk \in Nat
  BY <1>1, <1>2, DivNat
<1> QED BY <1>3 DEF Chunks

\* The register number first, at offset 0; then data, at offset 1.
LEMMA CallsAre ==
  ASSUME NEW j \in Jobs
  PROVE  /\ Len(DataCalls(j)) \in Nat /\ Len(Calls(j)) = 1 + Len(DataCalls(j))
         /\ DOMAIN Calls(j) = 1 .. Len(Calls(j))
         /\ Calls(j)[1].index = 0 /\ Calls(j)[1].input = FALSE
         /\ Calls(j)[1].words = RegnrWords(j.regnr)
         /\ \A k \in 1 .. Len(DataCalls(j)) :
              /\ Calls(j)[1 + k].index = 1 /\ Calls(j)[1 + k].input = (j.op = "read")
              /\ Calls(j)[1 + k].words = DataCalls(j)[k]
<1> DEFINE n == Len(DataCalls(j))
           tail == [k \in DOMAIN DataCalls(j) |->
                      [index |-> 1, input |-> j.op = "read", words |-> DataCalls(j)[k]]]
           first == [index |-> 0, input |-> FALSE, words |-> RegnrWords(j.regnr)]
<1>1. n \in Nat /\ DOMAIN DataCalls(j) = 1 .. n
  <2>1. CASE j.data = <<>> \/ Refused(j)
    BY <2>1 DEF DataCalls
  <2>2. CASE ~(j.data = <<>> \/ Refused(j)) /\ Direct(j)
    BY <2>2 DEF DataCalls
  <2>3. CASE ~(j.data = <<>> \/ Refused(j)) /\ ~Direct(j)
    <3>1. DataCalls(j) = [k \in DOMAIN Chunks(j) |-> ChunkWords(Chunks(j)[k])]
      BY <2>3 DEF DataCalls
    <3> QED BY <3>1, ChunksCount
  <2> QED BY <2>1, <2>2, <2>3
<1>2. Calls(j) = <<first>> \o tail
  BY DEF Calls
<1>3. Len(tail) = n
  BY <1>1
<1>4. \A k \in 1 .. n : /\ tail[k].index = 1 /\ tail[k].input = (j.op = "read")
                        /\ tail[k].words = DataCalls(j)[k]
  BY <1>1
<1>5. first.index = 0 /\ first.input = FALSE /\ first.words = RegnrWords(j.regnr)
  OBVIOUS
<1> DEFINE S == {first} \cup {tail[k] : k \in 1 .. n}
<1>6. <<first>> \in Seq(S) /\ tail \in Seq(S)
  BY <1>1
<1> HIDE DEF n, tail, first, S
<1>7. PICK h \in Seq(S) : h = <<first>> /\ Len(h) = 1 /\ h[1] = first
  BY <1>6
<1>8. /\ h \o tail \in Seq(S) /\ Len(h \o tail) = Len(h) + Len(tail)
      /\ \A i \in 1 .. Len(h) : (h \o tail)[i] = h[i]
      /\ \A i \in 1 .. Len(tail) : (h \o tail)[Len(h) + i] = tail[i]
  BY <1>6, <1>7, ConcatIs
<1>9. PICK c : c = h \o tail  OBVIOUS
<1>10. c \in Seq(S) /\ Calls(j) = c  BY <1>2, <1>7, <1>8, <1>9
<1>11. DOMAIN c = 1 .. Len(c) /\ Len(c) = 1 + n
  BY <1>3, <1>7, <1>8, <1>9, <1>10, LenProperties
<1>12. c[1] = first  BY <1>7, <1>8, <1>9
<1>13. \A k \in 1 .. n : c[1 + k] = tail[k]  BY <1>3, <1>7, <1>8, <1>9
<1>14. \A k \in 1 .. n : /\ c[1 + k].index = 1 /\ c[1 + k].input = (j.op = "read")
                         /\ c[1 + k].words = DataCalls(j)[k]
  BY <1>4, <1>13
<1> QED
  BY <1>1, <1>5, <1>10, <1>11, <1>12, <1>14 DEF n

LEMMA CallsFacts ==
  ASSUME NEW j \in Jobs
  PROVE  /\ Len(Calls(j)) \in Nat \ {0}
         /\ DOMAIN Calls(j) = 1 .. Len(Calls(j))
         /\ \A k \in DOMAIN Calls(j) : Calls(j)[k].index \in {0, 1}
<1>1. PICK n \in Nat : n = Len(DataCalls(j)) /\ Len(Calls(j)) = 1 + n  BY CallsAre
<1>2. DOMAIN Calls(j) = 1 .. 1 + n  BY <1>1, CallsAre
<1>3. ASSUME NEW k \in 1 .. 1 + n PROVE Calls(j)[k].index \in {0, 1}
  <2>1. CASE k = 1
    <3>1. Calls(j)[1].index = 0  BY CallsAre, Zenon
    <3> QED
      BY <2>1, <3>1
  <2>2. CASE k # 1
    <3>1. k - 1 \in 1 .. n /\ 1 + (k - 1) = k  BY <2>2
    <3>2. Calls(j)[1 + (k - 1)].index = 1  BY <1>1, <3>1, CallsAre
    <3> QED
      BY <3>1, <3>2
  <2> QED
    BY <2>1, <2>2
<1> QED
  BY <1>1, <1>2, <1>3

\* A job that is refused moves its register number only; else all its words are words
\* of the bus, and data follow unless there are none.
LEMMA CallWords ==
  ASSUME NEW j \in Jobs, NEW c \in 1 .. Len(Calls(j))
  PROVE  /\ Calls(j)[c].words \in Seq(BusValues) /\ Len(Calls(j)[c].words) \in Nat
         /\ Calls(j)[c].input = (c # 1 /\ j.op = "read")
         /\ Calls(j)[c].index = IF c = 1 THEN 0 ELSE 1
         /\ c # 1 => /\ ~Refused(j) /\ j.data # <<>>
                     /\ c - 1 \in 1 .. Len(DataCalls(j))
                     /\ Calls(j)[c].words = DataCalls(j)[c - 1]
         /\ Len(Calls(j)) = 1 => Refused(j) \/ j.data = <<>>
<1>1. PICK n \in Nat : n = Len(DataCalls(j)) /\ Len(Calls(j)) = 1 + n  BY CallsAre
<1>2. CASE c = 1
  <2>1. Calls(j)[1].words = RegnrWords(j.regnr) /\ Calls(j)[1].input = FALSE
        /\ Calls(j)[1].index = 0
    BY CallsAre, Zenon
  <2>2. j.regnr \in WordValues  BY BusAssumption
  <2>3. RegnrWords(j.regnr) \in Seq(BusValues)
    <3>1. PICK r \in WordValues : r = j.regnr  BY <2>2
    <3>2. RegnrWords(r) \in Seq(BusValues)
      <4>1. RegnrWords(r) = OnBus(r, 16) /\ OnBus(r, 16) \in Seq(BusValues)  BY RegnrIs
      <4> QED
        BY <4>1
    <3> QED
      BY <3>1, <3>2
  <2>4. ASSUME Len(Calls(j)) = 1 PROVE Refused(j) \/ j.data = <<>>
    <3>1. n = 0
      <4>1. \A m \in Nat : 1 + m = 1 => m = 0  OBVIOUS
      <4> QED
        BY <1>1, <2>4, <4>1, Zenon
    <3>2. ASSUME ~Refused(j), j.data # <<>> PROVE n \in Nat \ {0}
      BY <1>1, <3>2, DataCallsFacts
    <3> QED
      BY <3>1, <3>2
  <2>5. Len(RegnrWords(j.regnr)) \in Nat  BY <2>3
  <2>6. (c # 1) = FALSE /\ (IF c = 1 THEN 0 ELSE 1) = 0 /\ Calls(j)[c] = Calls(j)[1]
    BY <1>2
  <2> QED
    BY <1>2, <2>1, <2>3, <2>4, <2>5, <2>6, Zenon
<1>3. CASE c # 1
  <2>1. PICK k \in 1 .. n : c = 1 + k /\ c - 1 = k
    <3>1. c - 1 \in 1 .. n /\ c = 1 + (c - 1)  BY <1>1, <1>3
    <3> QED
      BY <3>1
  <2>2. /\ Calls(j)[1 + k].index = 1 /\ Calls(j)[1 + k].input = (j.op = "read")
        /\ Calls(j)[1 + k].words = DataCalls(j)[k]
    BY <1>1, CallsAre
  <2>3. ~Refused(j) /\ j.data # <<>>
    <3>1. ASSUME Refused(j) \/ j.data = <<>> PROVE FALSE
      <4>1. DataCalls(j) = <<>>  BY <3>1 DEF DataCalls
      <4> QED
        BY <1>1, <4>1
    <3> QED
      BY <3>1
  <2>4. DataCalls(j)[k] \in Seq(BusValues)  BY <1>1, <2>3, DataCallsFacts
  <2>5. Len(Calls(j)) # 1  BY <1>1
  <2> QED
    BY <1>1, <1>3, <2>1, <2>2, <2>3, <2>4, <2>5
<1> QED
  BY <1>2, <1>3

-----------------------------------------------------------------------------
(* What the chip is to take, word by word.                                    *)
LEMMA MessageIs ==
  ASSUME NEW j \in Jobs, ~Refused(j)
  PROVE  LET r == OnBus(j.regnr, 16)
             n == IF j.op = "write" THEN Len(DataWords(j)) ELSE 0
         IN  /\ Message(j) \in Seq({0, 1} \X BusValues)
             /\ Len(r) \in Nat /\ n \in Nat /\ Len(Message(j)) = Len(r) + n
             /\ \A i \in 1 .. Len(r) : Message(j)[i] = <<0, r[i]>>
             /\ \A i \in 1 .. n : Message(j)[Len(r) + i] = <<1, DataWords(j)[i]>>
<1> DEFINE r == OnBus(j.regnr, 16)
           d == DataWords(j)
           T == {0, 1} \X BusValues
           a == [i \in DOMAIN r |-> <<0, r[i]>>]
           b == [i \in DOMAIN d |-> <<1, d[i]>>]
<1>1. r \in Seq(BusValues)  BY RegnrIs, BusAssumption
<1>2. d \in Seq(BusValues)  BY DataWordsFacts
<1>3. Message(j) = a \o (IF j.op = "write" THEN b ELSE <<>>)
  BY DEF Message, DataWords
<1> HIDE DEF r, d
<1>4. a \in Seq(T) /\ Len(a) = Len(r) /\ \A i \in 1 .. Len(r) : a[i] = <<0, r[i]>>
  BY <1>1
<1>5. b \in Seq(T) /\ Len(b) = Len(d) /\ \A i \in 1 .. Len(d) : b[i] = <<1, d[i]>>
  BY <1>2
<1>6. Len(r) \in Nat /\ Len(d) \in Nat  BY <1>1, <1>2
<1> HIDE DEF a, b, T
<1>7. CASE j.op = "write"
  <2>1. /\ a \o b \in Seq(T) /\ Len(a \o b) = Len(a) + Len(b)
        /\ \A i \in 1 .. Len(a) : (a \o b)[i] = a[i]
        /\ \A i \in 1 .. Len(b) : (a \o b)[Len(a) + i] = b[i]
    <3>1. a \in Seq(T) /\ b \in Seq(T)  BY <1>4, <1>5
    <3> QED
      BY <3>1, ConcatIs
  <2>2. PICK m : m = a \o b  OBVIOUS
  <2>3. Message(j) = m
    <3>1. (IF j.op = "write" THEN b ELSE <<>>) = b  BY <1>7
    <3> QED
      BY <1>3, <2>2, <3>1, Zenon
  <2>4. Len(m) = Len(r) + Len(d)  BY <1>4, <1>5, <2>1, <2>2
  <2>5. \A i \in 1 .. Len(r) : m[i] = <<0, r[i]>>  BY <1>4, <2>1, <2>2
  <2>6. \A i \in 1 .. Len(d) : m[Len(r) + i] = <<1, d[i]>>  BY <1>4, <1>5, <2>1, <2>2
  <2>7. m \in Seq(T)  BY <2>1, <2>2
  <2> QED
    BY <1>6, <1>7, <2>3, <2>4, <2>5, <2>6, <2>7 DEF r, d, T
<1>8. CASE j.op # "write"
  <2>1. Message(j) = a
    <3>1. (IF j.op = "write" THEN b ELSE <<>>) = <<>>  BY <1>8
    <3>2. a \o <<>> = a  BY <1>4, ConcatEmptySeq, Zenon
    <3> QED
      BY <1>3, <3>1, <3>2, Zenon
  <2> QED
    BY <1>4, <1>6, <1>8, <2>1 DEF r, d, T
<1> QED
  BY <1>7, <1>8

\* How many words the chip has taken, and the host has read, when call c of a job begins.
HeardBefore(j, c) ==
  IF c = 1 THEN 0
  ELSE Len(OnBus(j.regnr, 16)) + (IF j.op = "write" THEN Before(j, c - 1) ELSE 0)
GotBefore(j, c) == IF c = 1 THEN 0 ELSE Before(j, c - 1)

\* A call to write moves the next words of the message.
LEMMA WritesMessage ==
  ASSUME NEW j \in Jobs, ~Refused(j), NEW c \in 1 .. Len(Calls(j)), ~Calls(j)[c].input
  PROVE  LET w == Calls(j)[c].words
         IN  /\ HeardBefore(j, c) \in Nat
             /\ \A i \in 1 .. Len(w) :
                  Message(j)[HeardBefore(j, c) + i] = <<Calls(j)[c].index, w[i]>>
             /\ HeardBefore(j, c) + Len(w) =
                  IF c = Len(Calls(j)) THEN Len(Message(j)) ELSE HeardBefore(j, c + 1)
<1> DEFINE r == OnBus(j.regnr, 16)
           w == Calls(j)[c].words
           n == Len(DataCalls(j))
<1>1. /\ r \in Seq(BusValues) /\ Len(r) \in Nat /\ RegnrWords(j.regnr) = r
  BY RegnrIs, BusAssumption
<1>2. n \in Nat /\ Len(Calls(j)) = 1 + n  BY CallsAre
<1>3. j.op \in {"write", "read"} /\ Chunk \in Nat /\ (j.op = "read" => j.data # <<>>)
  BY BusAssumption
<1>4. Before(j, 1) = 0  BY <1>3 DEF Before, PerWord
<1>5. CASE c = 1
  <2>1. w = r /\ Calls(j)[c].index = 0  BY <1>1, <1>5, CallsAre
  <2>2. HeardBefore(j, c) = 0  BY <1>5 DEF HeardBefore
  <2>3. \A i \in 1 .. Len(w) : Message(j)[0 + i] = <<0, w[i]>>
    <3>1. \A i \in 1 .. Len(w) : 0 + i = i  BY <1>1, <2>1
    <3>2. \A i \in 1 .. Len(r) : Message(j)[i] = <<0, r[i]>>  BY MessageIs
    <3> QED
      BY <2>1, <3>1, <3>2
  <2>4. CASE c = Len(Calls(j))
    <3>1. j.data = <<>>  BY <1>5, <2>4, CallWords
    <3>2. Len(DataWords(j)) = 0
      <4>1. Len(DataWords(j)) = Len(j.data) * PerWord(j)  BY DataWordsFacts
      <4>2. PerWord(j) \in Nat  BY DEF PerWord
      <4> QED
        BY <3>1, <4>1, <4>2
    <3>3. Len(Message(j)) = Len(r)
      <4>1. (IF j.op = "write" THEN Len(DataWords(j)) ELSE 0) = 0  BY <3>2
      <4>2. Len(Message(j)) = Len(r) + 0
        <5>1. Len(Message(j)) = Len(r) + (IF j.op = "write" THEN Len(DataWords(j)) ELSE 0)
          BY MessageIs
        <5> QED
          BY <4>1, <5>1
      <4> QED
        BY <1>1, <4>2
    <3> QED
      BY <1>1, <2>1, <2>2, <2>3, <2>4, <3>3
  <2>5. CASE c # Len(Calls(j))
    <3>1. HeardBefore(j, 1 + 1) = Len(r)  BY <1>1, <1>4 DEF HeardBefore
    <3> QED
      BY <1>1, <1>5, <2>1, <2>2, <2>3, <2>5, <3>1
  <2> QED
    BY <2>4, <2>5
<1>6. CASE c # 1
  <2>1. /\ j.op = "write" /\ Calls(j)[c].index = 1 /\ j.data # <<>>
        /\ c - 1 \in 1 .. n /\ w = DataCalls(j)[c - 1]
    BY <1>3, <1>6, CallWords
  <2>2. HeardBefore(j, c) = Len(r) + Before(j, c - 1)  BY <1>6, <2>1 DEF HeardBefore
  <2>3. /\ w \in Seq(BusValues) /\ Before(j, c - 1) \in Nat
        /\ Before(j, c - 1) + Len(w) =
             IF c - 1 = n THEN Len(DataWords(j)) ELSE Before(j, (c - 1) + 1)
        /\ \A i \in 1 .. Len(w) : /\ Before(j, c - 1) + i \in 1 .. Len(DataWords(j))
                                 /\ DataWords(j)[Before(j, c - 1) + i] = w[i]
    <3>1. PICK k \in 1 .. n : k = c - 1  BY <2>1
    <3>2. /\ DataCalls(j)[k] \in Seq(BusValues) /\ Before(j, k) \in Nat
          /\ Before(j, k) + Len(DataCalls(j)[k]) =
               IF k = n THEN Len(DataWords(j)) ELSE Before(j, k + 1)
          /\ \A i \in 1 .. Len(DataCalls(j)[k]) :
               /\ Before(j, k) + i \in 1 .. Len(DataWords(j))
               /\ DataWords(j)[Before(j, k) + i] = DataCalls(j)[k][i]
      BY <2>1, DataCallsFacts
    <3> QED
      BY <2>1, <3>1, <3>2
  <2>4. (c - 1) + 1 = (c + 1) - 1 /\ (c - 1 = n <=> c = Len(Calls(j))) /\ c + 1 # 1
        /\ Len(w) \in Nat
    BY <1>2, <2>3
  <2>5. Len(Message(j)) = Len(r) + Len(DataWords(j))
        /\ \A m \in 1 .. Len(DataWords(j)) : Message(j)[Len(r) + m] = <<1, DataWords(j)[m]>>
    BY <2>1, MessageIs
  <2>6. PICK b \in Nat : b = Before(j, c - 1)  BY <2>3
  <2>7. HeardBefore(j, c + 1) = Len(r) + Before(j, (c - 1) + 1)
    <3>1. HeardBefore(j, c + 1) = Len(r) + Before(j, (c + 1) - 1)
      BY <2>1, <2>4 DEF HeardBefore
    <3> QED
      BY <2>4, <3>1
  <2> HIDE DEF w, r, n
  <2>8. ASSUME NEW i \in 1 .. Len(w)
        PROVE  Message(j)[(Len(r) + b) + i] = <<1, w[i]>>
    <3>1. (Len(r) + b) + i = Len(r) + (b + i)  BY <1>1, <2>4
    <3>2. b + i \in 1 .. Len(DataWords(j)) /\ DataWords(j)[b + i] = w[i]  BY <2>3, <2>6
    <3> QED
      BY <2>5, <3>1, <3>2
  <2>9. (Len(r) + b) + Len(w) = Len(r) + (b + Len(w))  BY <1>1, <2>4
  <2>10. (Len(r) + b) + Len(w) =
           IF c = Len(Calls(j)) THEN Len(Message(j)) ELSE HeardBefore(j, c + 1)
    BY <2>3, <2>4, <2>5, <2>6, <2>7, <2>9
  <2>11. HeardBefore(j, c) = Len(r) + b /\ Len(r) + b \in Nat  BY <1>1, <2>2, <2>6
  <2> QED
    BY <2>1, <2>8, <2>10, <2>11 DEF w
<1> QED
  BY <1>5, <1>6

\* A call to read fetches the next words of the data; the chip has taken its message.
LEMMA ReadsData ==
  ASSUME NEW j \in Jobs, NEW c \in 1 .. Len(Calls(j)), Calls(j)[c].input
  PROVE  LET w == Calls(j)[c].words
         IN  /\ j.op = "read" /\ c # 1 /\ ~Refused(j)
             /\ HeardBefore(j, c) = Len(Message(j)) /\ HeardBefore(j, c + 1) = Len(Message(j))
             /\ GotBefore(j, c) \in Nat
             /\ GotBefore(j, c) + Len(w) =
                  IF c = Len(Calls(j)) THEN Len(j.data) * PerWord(j) ELSE GotBefore(j, c + 1)
<1> DEFINE n == Len(DataCalls(j))
<1>1. /\ j.op = "read" /\ c # 1 /\ ~Refused(j) /\ j.data # <<>>
      /\ c - 1 \in 1 .. n /\ Calls(j)[c].words = DataCalls(j)[c - 1]
  BY CallWords
<1>2. n \in Nat /\ Len(Calls(j)) = 1 + n  BY CallsAre
<1>3. PICK l \in Nat : l = Len(OnBus(j.regnr, 16)) /\ Len(Message(j)) = l + 0
  BY <1>1, MessageIs
<1>4. c + 1 # 1 /\ (c + 1) - 1 = (c - 1) + 1 /\ l + 0 = l /\ (c - 1 = n <=> c = Len(Calls(j)))
  BY <1>2
<1>5. HeardBefore(j, c) = l /\ HeardBefore(j, c + 1) = l
  BY <1>1, <1>3, <1>4 DEF HeardBefore
<1>6. GotBefore(j, c) = Before(j, c - 1) /\ GotBefore(j, c + 1) = Before(j, (c - 1) + 1)
  BY <1>1, <1>4 DEF GotBefore
<1>7. /\ Before(j, c - 1) \in Nat
      /\ Before(j, c - 1) + Len(DataCalls(j)[c - 1]) =
           IF c - 1 = n THEN Len(DataWords(j)) ELSE Before(j, (c - 1) + 1)
  BY <1>1, DataCallsFacts
<1>8. Len(DataWords(j)) = Len(j.data) * PerWord(j)  BY <1>1, DataWordsFacts
<1> QED
  BY <1>1, <1>3, <1>4, <1>5, <1>6, <1>7, <1>8

-----------------------------------------------------------------------------
(* The inductive invariant.                                                   *)

InAccess(t) == pc[t] \in {"address", "direction", "word", "close"}

\* What the proofs need of the types.
Types ==
  /\ busLock \in Threads \cup {None}
  /\ isopen \in [Devices -> BOOLEAN]
  /\ currAddress \in Nat \cup {None} /\ addressPins \in Nat
  /\ pc \in [Threads -> {"idle", "open", "address", "direction", "word", "close"}]
  /\ job \in [Threads -> Jobs]
  /\ call \in [Threads -> Nat]
  /\ \A t \in Threads : call[t] \in DOMAIN Calls(job[t])
  /\ DOMAIN heard = Devices

\* bus_lock is held just during an access, in which the device is open.
Locked ==
  /\ \A t \in Threads : InAccess(t) <=> busLock = t
  /\ \A d \in Devices : isopen[d] <=> busLock # None /\ Dev(busLock) = d
  /\ \A t \in Threads : pc[t] \in {"idle", "open"} => call[t] = 1

\* What is remembered of the address pins is on them, and they select the chip while
\* words move.
Addressed ==
  /\ currAddress = addressPins \/ (currAddress = None /\ addressPins = 0)
  /\ busLock = None => addressPins = 0
  /\ \A t \in Threads :
       pc[t] \in {"direction", "word"} => addressPins = Address[Dev(t)] + Call(t).index

\* What the chip of a job has taken is its message up to word n, but for garbled words.
Took(h, j, n) ==
  /\ Len(h) = n
  /\ \A i \in 1 .. n : h[i] = Message(j)[i] \/ (MayFail /\ h[i][2] = None)

\* The words of a call that were moved; a job that is refused fails.
Progress ==
  /\ buffer \in [Devices -> BOOLEAN]
  /\ ret \in [Threads -> {"ok", "EINVAL", "EIO", "ENOMEM"}]
  /\ sent \in [Threads -> Nat]
  /\ \A t \in Threads : sent[t] \in 0 .. Len(Call(t).words)
  /\ \A t \in Threads : ~InAccess(t) \/ pc[t] \in {"address", "direction"} => sent[t] = 0
  /\ \A t \in Threads : pc[t] = "close" /\ ret[t] = "ok" => ~Refused(job[t])

\* Pins that can be turned are turned as the master remembers; while words are written
\* it remembers the word on the pins or none.
Pins ==
  /\ currData \in BusValues \cup {None} /\ dataPins \in BusValues
  /\ direction \in {"notset", "in", "out"} /\ pinsDir \in {"in", "out", "mixed"}
  /\ MayFail \/ pinsDir = direction \/ direction = "notset"
  /\ \A t \in Threads : pc[t] = "word" => direction = Wanted(t)
  /\ \A t \in Threads : pc[t] = "word" /\ ~Call(t).input => currData \in {None, dataPins}

\* The chip has taken the message up to the word the access is at, but for words the
\* pins garbled.
Hearing ==
  /\ heard \in [Devices -> Seq({0, 1} \X (BusValues \cup {None}))]
  /\ \A t \in Threads : InAccess(t) /\ ~Refused(job[t]) =>
       /\ pc[t] # "close" =>
            Took(heard[Dev(t)], job[t],
                 HeardBefore(job[t], call[t]) + (IF Call(t).input THEN 0 ELSE sent[t]))
       /\ pc[t] = "close" /\ ret[t] = "ok" =>
            Took(heard[Dev(t)], job[t], Len(Message(job[t])))

\* The host has read what the chip told, but for words the pins did not bring.
Reading ==
  /\ told \in Seq(BusValues) /\ got \in Seq(BusValues \cup {None}) /\ Len(got) = Len(told)
  /\ busLock = None => got = <<>>
  /\ got # <<>> => direction = "in"
  /\ AddressesApart =>
       \A i \in 1 .. Len(got) : got[i] = told[i] \/ (got[i] = None /\ pinsDir # "in")
  /\ \A t \in Threads : InAccess(t) =>
       /\ call[t] = 1 \/ job[t].op = "write" => got = <<>>
       /\ job[t].op = "read" /\ pc[t] # "close" =>
            Len(got) = GotBefore(job[t], call[t]) + (IF Call(t).input THEN sent[t] ELSE 0)
       /\ job[t].op = "read" /\ pc[t] = "close" /\ ret[t] = "ok" =>
            Len(got) = Len(job[t].data) * PerWord(job[t])

Moved == Progress /\ Pins /\ Hearing /\ Reading

\* An access starts with chips that have heard nothing.
Silent == busLock = None => \A d \in Devices : heard[d] = <<>>

IInv == Types /\ Locked /\ Addressed /\ Silent /\ (AddressesApart => Isolated)

LEMMA InitIInv == Init => IInv
<1> SUFFICES ASSUME Init PROVE IInv
  OBVIOUS
<1>1. NoJob \in Jobs
  BY BusAssumption DEF NoJob
<1>2. \A t \in Threads : job[t] = NoJob /\ call[t] = 1
  BY DEF Init
<1>3. 1 \in DOMAIN Calls(NoJob)
  BY <1>1, CallsFacts
<1>4. Types
  BY <1>1, <1>2, <1>3 DEF Init, Types
<1>5. Locked /\ Addressed /\ Silent /\ Isolated
  BY BusAssumption DEF Init, Locked, Addressed, Silent, Isolated, InAccess
<1> QED BY <1>4, <1>5 DEF IInv

-----------------------------------------------------------------------------
(* One step lemma per part of the invariant.                                  *)

LEMMA CallIndex ==
  ASSUME Types, NEW t \in Threads
  PROVE  Call(t).index \in {0, 1}
  BY CallsFacts DEF Types, Call

LEMMA StepTypes == IInv /\ [Next]_vars => Types'
<1> SUFFICES ASSUME IInv, [Next]_vars PROVE Types'
  OBVIOUS
<1> USE BusAssumption DEF IInv, Types, pinVars, threadVars, chipVars
<1>1. ASSUME NEW t \in Threads, NEW j \in Jobs, Begin(t, j) PROVE Types'
  <2>1. call[t] = 1 /\ 1 \in DOMAIN Calls(j)
    BY <1>1, CallsFacts DEF Begin, Locked
  <2> QED BY <1>1, <2>1 DEF Begin
<1>2. ASSUME NEW t \in Threads, Open(t) PROVE Types'
  BY <1>2 DEF Open, Dev
<1>3. ASSUME NEW t \in Threads, SelectChip(t) PROVE Types'
  <2>1. Address[Dev(t)] + Call(t).index \in Nat
    BY CallIndex, SMTT(30) DEF Dev
  <2>2. currAddress' \in Nat \cup {None} /\ addressPins' \in Nat
    BY <1>3, <2>1 DEF SelectChip, SetAddress
  <2>3. pc' \in [Threads -> {"idle", "open", "address", "direction", "word", "close"}]
    BY <1>3 DEF SelectChip
  <2>4. UNCHANGED <<busLock, isopen, job, call, heard>>
    BY <1>3, Zenon DEF SelectChip
  <2> QED BY <2>2, <2>3, <2>4
<1>4. ASSUME NEW t \in Threads, Direction(t) PROVE Types'
  BY <1>4 DEF Direction
<1>5. ASSUME NEW t \in Threads, DirectionFails(t) PROVE Types'
  BY <1>5 DEF DirectionFails
<1>6. ASSUME NEW t \in Threads, WriteWord(t) PROVE Types'
  BY <1>6 DEF WriteWord
<1>7. ASSUME NEW t \in Threads, ReadWord(t) PROVE Types'
  BY <1>7 DEF ReadWord
<1>8. ASSUME NEW t \in Threads, BufferFails(t) PROVE Types'
  BY <1>8 DEF BufferFails
<1>9. ASSUME NEW t \in Threads, EndCall(t) PROVE Types'
  <2>1. ASSUME call[t] < Len(Calls(job[t])) PROVE call[t] + 1 \in DOMAIN Calls(job[t])
    BY <2>1, CallsFacts
  <2>2. \A u \in Threads : call'[u] \in DOMAIN Calls(job[u])
    BY <1>9, <2>1, ZenonT(30) DEF EndCall
  <2>3. call' \in [Threads -> Nat] /\ job' = job
    <3> HIDE DEF IInv, Types
    <3>1. call \in [Threads -> Nat]  BY DEF IInv, Types
    <3>2. job' = job /\ (call' = call \/ call' = [call EXCEPT ![t] = call[t] + 1])
      BY <1>9, Zenon DEF EndCall
    <3> QED
      BY <3>1, <3>2
  <2>4. pc' \in [Threads -> {"idle", "open", "address", "direction", "word", "close"}]
    BY <1>9 DEF EndCall
  <2> QED BY <1>9, <2>2, <2>3, <2>4 DEF EndCall
<1>10. ASSUME NEW t \in Threads, Close(t) PROVE Types'
  <2>1. NoJob \in Jobs /\ 1 \in DOMAIN Calls(NoJob)
    BY CallsFacts DEF NoJob
  <2> QED BY <1>10, <2>1 DEF Close, Deselect, SetAddress, Dev
<1>11. CASE UNCHANGED vars
  BY <1>11 DEF vars
<1> QED
  BY <1>1, <1>2, <1>3, <1>4, <1>5, <1>6, <1>7, <1>8, <1>9, <1>10, <1>11 DEF Next, Step

LEMMA StepLocked == IInv /\ [Next]_vars => Locked'
<1> SUFFICES ASSUME IInv, [Next]_vars PROVE Locked'
  OBVIOUS
<1> USE BusAssumption DEF IInv, Types, Locked, InAccess, pinVars, threadVars, chipVars, Dev
<1>1. ASSUME NEW t \in Threads, NEW j \in Jobs, Begin(t, j) PROVE Locked'
  BY <1>1 DEF Begin
<1>2. ASSUME NEW t \in Threads, Open(t) PROVE Locked'
  BY <1>2 DEF Open
<1>3. ASSUME NEW t \in Threads, SelectChip(t) PROVE Locked'
  BY <1>3 DEF SelectChip
<1>4. ASSUME NEW t \in Threads, Direction(t) PROVE Locked'
  BY <1>4 DEF Direction
<1>5. ASSUME NEW t \in Threads, DirectionFails(t) PROVE Locked'
  BY <1>5 DEF DirectionFails
<1>6. ASSUME NEW t \in Threads, WriteWord(t) \/ ReadWord(t) PROVE Locked'
  BY <1>6 DEF WriteWord, ReadWord
<1>7. ASSUME NEW t \in Threads, BufferFails(t) PROVE Locked'
  BY <1>7 DEF BufferFails
<1>8. ASSUME NEW t \in Threads, EndCall(t) PROVE Locked'
  BY <1>8 DEF EndCall
<1>9. ASSUME NEW t \in Threads, Close(t) PROVE Locked'
  BY <1>9 DEF Close
<1>10. CASE UNCHANGED vars
  BY <1>10 DEF vars
<1> QED BY <1>1, <1>2, <1>3, <1>4, <1>5, <1>6, <1>7, <1>8, <1>9, <1>10 DEF Next, Step

\* set_address(0) leaves the pins at 0, whatever is remembered.
LEMMA StepAddressed == IInv /\ [Next]_vars => Addressed'
<1> SUFFICES ASSUME IInv, [Next]_vars PROVE Addressed'
  OBVIOUS
<1> USE BusAssumption DEF IInv, Types, pinVars, threadVars, chipVars, Dev, Call
<1>1. ASSUME NEW t \in Threads, NEW j \in Jobs, Begin(t, j) PROVE Addressed'
  BY <1>1 DEF Begin, Addressed
<1>2. ASSUME NEW t \in Threads, Open(t) PROVE Addressed'
  BY <1>2 DEF Open, Addressed
<1>3. ASSUME NEW t \in Threads, SelectChip(t) PROVE Addressed'
  <2>1. isopen[DeviceOf[t]] /\ busLock = t
    BY <1>3 DEF SelectChip, Locked, InAccess
  <2>2. \A u \in Threads : u # t => pc[u] \notin {"direction", "word"}
    BY <2>1 DEF Locked, InAccess
  <2>3. currAddress' = Address[DeviceOf[t]] + Calls(job[t])[call[t]].index
    BY <1>3, <2>1 DEF SelectChip, SetAddress
  <2>4. addressPins' = currAddress'
    <3>1. currAddress # None => currAddress = addressPins
      BY DEF Addressed
    <3>2. Calls(job[t])[call[t]].index \in {0, 1}
      BY CallsFacts
    <3> QED BY <1>3, <2>1, <3>1, <3>2 DEF SelectChip, SetAddress
  <2> QED BY <1>3, <2>1, <2>2, <2>3, <2>4 DEF SelectChip, Addressed
<1>4. ASSUME NEW t \in Threads, Direction(t) PROVE Addressed'
  BY <1>4 DEF Direction, Addressed
<1>5. ASSUME NEW t \in Threads, DirectionFails(t) PROVE Addressed'
  BY <1>5 DEF DirectionFails, Addressed
<1>6. ASSUME NEW t \in Threads, WriteWord(t) \/ ReadWord(t) PROVE Addressed'
  BY <1>6 DEF WriteWord, ReadWord, Addressed
<1>7. ASSUME NEW t \in Threads, BufferFails(t) PROVE Addressed'
  BY <1>7 DEF BufferFails, Addressed
<1>8. ASSUME NEW t \in Threads, EndCall(t) PROVE Addressed'
  BY <1>8, ZenonT(90) DEF EndCall, Addressed
<1>9. ASSUME NEW t \in Threads, Close(t) PROVE Addressed'
  <2>1. isopen[DeviceOf[t]] /\ busLock = t
    BY <1>9 DEF Close, Locked, InAccess
  <2>2. \A u \in Threads : u # t => pc[u] \notin {"direction", "word"}
    BY <2>1 DEF Locked, InAccess
  <2>3. addressPins' = 0 /\ currAddress' = 0
    BY <1>9, <2>1 DEF Close, Deselect, SetAddress, Addressed
  <2> QED BY <1>9, <2>2, <2>3 DEF Close, Addressed
<1>10. CASE UNCHANGED vars
  BY <1>10 DEF vars, Addressed
<1> QED BY <1>1, <1>2, <1>3, <1>4, <1>5, <1>6, <1>7, <1>8, <1>9, <1>10 DEF Next, Step

\* Words are heard in an access only, and forgotten with its end.
LEMMA StepSilent == IInv /\ [Next]_vars => Silent'
<1> SUFFICES ASSUME IInv, [Next]_vars PROVE Silent'
  OBVIOUS
<1> USE BusAssumption DEF IInv, Types, chipVars, pinVars, Dev
<1>1. ASSUME NEW t \in Threads, Open(t) PROVE Silent'
  BY <1>1 DEF Open, Silent
<1>2. ASSUME NEW t \in Threads, WriteWord(t) PROVE Silent'
  <2>1. busLock' = t /\ t # None
    BY <1>2 DEF WriteWord, Locked, InAccess
  <2> QED BY <2>1 DEF Silent
<1>3. ASSUME NEW t \in Threads, Close(t) PROVE Silent'
  BY <1>3 DEF Close, Silent
<1>4. ASSUME UNCHANGED <<heard, busLock>> PROVE Silent'
  BY <1>4 DEF Silent
<1> QED
  BY <1>1, <1>2, <1>3, <1>4
  DEF Next, Step, Begin, SelectChip, Direction, DirectionFails, ReadWord, BufferFails, EndCall,
      vars

\* The pins of an access are at an address of its own device.
LEMMA OwnAddress ==
  ASSUME IInv, NEW t \in Threads, pc[t] = "word"
  PROVE  /\ Dev(t) \in Devices /\ addressPins \in Nat /\ Address[Dev(t)] <= addressPins
         /\ Size[Dev(t)] = 0 \/ addressPins < Address[Dev(t)] + Size[Dev(t)]
<1>1. PICK e \in Devices : e = Dev(t)
  BY BusAssumption DEF Dev
<1>2. PICK i \in {0, 1} : i = Call(t).index
  BY CallIndex DEF IInv
<1>3. addressPins = Address[e] + i
  BY <1>1, <1>2 DEF IInv, Addressed
<1>4. Address[e] \in Nat /\ Size[e] \in Nat /\ (Size[e] = 0 \/ Size[e] >= 2)
  BY BusAssumption, AddressAssumption
<1> QED
  BY <1>1, <1>3, <1>4

\* They select the chip of that device, and no other if the devices are apart.
LEMMA OwnChip ==
  ASSUME IInv, AddressesApart, NEW t \in Threads, pc[t] = "word", NEW d \in Devices, Selected(d)
  PROVE  d = Dev(t)
<1>1. PICK e \in Devices : e = Dev(t)
  BY OwnAddress
<1> SUFFICES ASSUME d # e PROVE FALSE
  BY <1>1
<1>2. /\ Address[d] # 0 /\ Size[d] # 0 /\ Size[e] # 0
      /\ Address[d] + Size[d] <= Address[e] \/ Address[e] + Size[e] <= Address[d]
      /\ Address[d] \in Nat /\ Address[e] \in Nat /\ Size[d] \in Nat /\ Size[e] \in Nat
  BY BusAssumption, AddressAssumption DEF AddressesApart
<1>3. /\ addressPins \in Nat /\ Address[e] <= addressPins
      /\ addressPins < Address[e] + Size[e]
  BY <1>1, <1>2, OwnAddress
<1>4. Address[d] <= addressPins /\ addressPins < Address[d] + Size[d]
  BY <1>2 DEF Selected
<1> QED BY <1>2, <1>3, <1>4

LEMMA StepIsolated == IInv /\ AddressesApart /\ [Next]_vars => Isolated'
<1> SUFFICES ASSUME IInv, AddressesApart, [Next]_vars PROVE Isolated'
  OBVIOUS
<1> USE BusAssumption DEF IInv, Types, chipVars, pinVars, Dev
<1>1. ASSUME NEW t \in Threads, Open(t) PROVE Isolated'
  BY <1>1 DEF Open, Isolated
<1>2. ASSUME NEW t \in Threads, WriteWord(t) PROVE Isolated'
  <2>1. busLock = t /\ busLock' = t /\ t # None
    BY <1>2 DEF WriteWord, Locked, InAccess
  <2>2. \A d \in Devices : Selected(d) => d = DeviceOf[t]
    BY <1>2, OwnChip DEF WriteWord
  <2>3. \A d \in Devices : ~Selected(d) => heard'[d] = heard[d]
    BY <1>2 DEF WriteWord
  <2> QED BY <2>1, <2>2, <2>3 DEF Isolated
<1>3. ASSUME NEW t \in Threads, Close(t) PROVE Isolated'
  BY <1>3 DEF Close, Isolated
<1>4. ASSUME UNCHANGED <<heard, busLock>> PROVE Isolated'
  BY <1>4 DEF Isolated
<1> QED
  BY <1>1, <1>2, <1>3, <1>4
  DEF Next, Step, Begin, SelectChip, Direction, DirectionFails, ReadWord, BufferFails, EndCall,
      vars

LEMMA IndInv == Spec => []IInv
<1>1. IInv /\ [Next]_vars => IInv'
  <2> SUFFICES ASSUME IInv, [Next]_vars PROVE IInv'
    OBVIOUS
  <2>1. Types' /\ Locked' /\ Addressed' /\ Silent'
    BY StepTypes, StepLocked, StepAddressed, StepSilent
  <2>2. AddressesApart' => AddressesApart
    BY DEF AddressesApart
  <2> QED BY <2>1, <2>2, StepIsolated DEF IInv
<1> QED BY InitIInv, <1>1, PTL DEF Spec

-----------------------------------------------------------------------------
(* The words that move.                                                       *)

LEMMA InitMoved == Init => Moved
<1> SUFFICES ASSUME Init PROVE Moved
  OBVIOUS
<1>1. /\ NoJob \in Jobs /\ 1 \in DOMAIN Calls(NoJob)
      /\ \A t \in Threads : job[t] = NoJob /\ call[t] = 1 /\ sent[t] = 0 /\ pc[t] = "idle"
  BY BusAssumption, CallsFacts DEF NoJob, Init
<1>2. Len(Calls(NoJob)[1].words) \in Nat
  BY <1>1, CallWords, CallsFacts
<1>3. 0 \in BusValues
  <2>1. PICK d \in Nat \ {0} : d = Byte  BY BusAssumption
  <2>2. d * d \in Nat \ {0}  OBVIOUS
  <2> QED
    BY <2>1, <2>2 DEF BusValues, ByteValues, WordValues
<1>4. Progress
  BY <1>1, <1>2 DEF Init, Progress, Call
<1>5. Pins
  BY <1>1, <1>3 DEF Init, Pins
<1>6. Hearing
  BY <1>1 DEF Init, Hearing, InAccess
<1>7. Reading
  BY <1>1 DEF Init, Reading, InAccess
<1> QED
  BY <1>4, <1>5, <1>6, <1>7 DEF Moved

\* The call a thread is in.
LEMMA CallIs ==
  ASSUME Types, NEW t \in Threads
  PROVE  /\ job[t] \in Jobs /\ call[t] \in 1 .. Len(Calls(job[t]))
         /\ Call(t) = Calls(job[t])[call[t]]
         /\ Call(t).words \in Seq(BusValues) /\ Len(Call(t).words) \in Nat
         /\ Call(t).input = (call[t] # 1 /\ job[t].op = "read")
         /\ Call(t).index \in {0, 1}
<1>1. job[t] \in Jobs /\ call[t] \in 1 .. Len(Calls(job[t]))
  BY CallsFacts DEF Types
<1> QED
  BY <1>1, CallWords DEF Call

\* While words move, the chip of the access is selected and sees the index of the call.
LEMMA ItsChip ==
  ASSUME IInv, NEW t \in Threads, pc[t] = "word"
  PROVE  Selected(Dev(t)) /\ addressPins % 2 = Call(t).index
<1>1. PICK e \in Devices : e = Dev(t)
  BY OwnAddress
<1>2. PICK i \in {0, 1} : i = Call(t).index
  BY CallIndex DEF IInv
<1>3. addressPins = Address[e] + i
  BY <1>1, <1>2 DEF IInv, Addressed
<1>4. addressPins % 2 = i
  BY <1>3, BusAssumption, AddressAssumption
<1>5. Selected(e)
  BY <1>1, OwnAddress DEF Selected
<1> QED
  BY <1>1, <1>2, <1>4, <1>5

LEMMA StepProgress == IInv /\ IInv' /\ Moved /\ [Next]_vars => Progress'
<1> SUFFICES ASSUME IInv, IInv', Moved, [Next]_vars PROVE Progress'
  OBVIOUS
<1> USE BusAssumption DEF pinVars, threadVars, chipVars, Dev
<1>a. /\ Types /\ Types' /\ Locked /\ Progress
      /\ pc \in [Threads -> {"idle", "open", "address", "direction", "word", "close"}]
  BY DEF IInv, Moved, Types
<1>b. \A u \in Threads : Len(Call(u).words)' \in Nat
  <2> SUFFICES ASSUME NEW u \in Threads PROVE Len(Calls(job'[u])[call'[u]].words) \in Nat
    BY DEF Call
  <2>1. job'[u] \in Jobs /\ call'[u] \in DOMAIN Calls(job'[u])  BY <1>a DEF Types
  <2>2. call'[u] \in 1 .. Len(Calls(job'[u]))  BY <2>1, CallsFacts
  <2> QED
    BY <2>1, <2>2, CallWords
<1>1. ASSUME NEW t \in Threads, NEW j \in Jobs, Begin(t, j) PROVE Progress'
  <2>1. sent[t] = 0  BY <1>1, <1>a DEF Begin, Progress, InAccess
  <2>2. \A u \in Threads : sent'[u] \in 0 .. Len(Call(u).words)'
    <3> SUFFICES ASSUME NEW u \in Threads PROVE sent'[u] \in 0 .. Len(Call(u).words)'
      OBVIOUS
    <3>1. CASE u = t  BY <1>1, <1>b, <2>1, <3>1 DEF Begin
    <3>2. CASE u # t
      <4>1. Call(u)' = Call(u)  BY <1>1, <1>a, <3>2 DEF Begin, Call, Types
      <4> QED
        BY <1>1, <1>a, <4>1 DEF Begin, Progress
    <3> QED
      BY <3>1, <3>2
  <2>3. \A u \in Threads : u # t => job'[u] = job[u] /\ pc'[u] = pc[u]
    BY <1>1, <1>a DEF Begin, Types
  <2>4. pc'[t] = "open" /\ UNCHANGED <<buffer, ret, sent>>  BY <1>1, <1>a DEF Begin
  <2> QED
    BY <1>a, <2>1, <2>2, <2>3, <2>4 DEF Progress, InAccess
<1>2. ASSUME NEW t \in Threads, Open(t) PROVE Progress'
  BY <1>2, <1>a DEF Open, Progress, InAccess, Call
<1>3. ASSUME NEW t \in Threads, SelectChip(t) PROVE Progress'
  <2>1. isopen[DeviceOf[t]]  BY <1>3, <1>a DEF SelectChip, Locked, InAccess
  <2> QED
    BY <1>3, <1>a, <2>1, SMTT(90) DEF SelectChip, Progress, InAccess, Call
<1>4. ASSUME NEW t \in Threads, Direction(t) PROVE Progress'
  BY <1>4, <1>a DEF Direction, Progress, InAccess, Call
<1>5. ASSUME NEW t \in Threads, DirectionFails(t) PROVE Progress'
  BY <1>5, <1>a DEF DirectionFails, Progress, InAccess, Call, Types
<1>6. ASSUME NEW t \in Threads, WriteWord(t) \/ ReadWord(t) PROVE Progress'
  <2>1. /\ UNCHANGED <<buffer, ret, pc, job, call>> /\ pc[t] = "word"
        /\ sent[t] < Len(Call(t).words) /\ sent' = [sent EXCEPT ![t] = sent[t] + 1]
    BY <1>6 DEF WriteWord, ReadWord
  <2>2. Len(Call(t).words) \in Nat  BY <1>a, CallIs
  <2>3. \A u \in Threads : Call(u)' = Call(u)  BY <2>1 DEF Call
  <2>4. sent' \in [Threads -> Nat] /\ \A u \in Threads : sent'[u] \in 0 .. Len(Call(u).words)
    BY <1>a, <2>1, <2>2 DEF Progress
  <2> QED
    BY <1>a, <2>1, <2>3, <2>4 DEF Progress, InAccess
<1>7. ASSUME NEW t \in Threads, BufferFails(t) PROVE Progress'
  BY <1>7, <1>a DEF BufferFails, Progress, InAccess, Call, Types
<1>8. ASSUME NEW t \in Threads, EndCall(t) PROVE Progress'
  <2>1. \A u \in Threads : sent'[u] \in 0 .. Len(Call(u).words)'
    <3> SUFFICES ASSUME NEW u \in Threads PROVE sent'[u] \in 0 .. Len(Call(u).words)'
      OBVIOUS
    <3>1. CASE u = t
      <4>1. sent'[u] = 0  BY <1>8, <3>1, <1>a DEF EndCall, Progress
      <4> QED
        BY <1>b, <4>1
    <3>2. CASE u # t
      <4>1. Call(u)' = Call(u)  BY <1>8, <1>a, <3>2 DEF EndCall, Call, Types
      <4>2. sent'[u] = sent[u]  BY <1>8, <3>2 DEF EndCall
      <4> QED
        BY <1>a, <4>1, <4>2 DEF Progress
    <3> QED
      BY <3>1, <3>2
  <2>2. /\ buffer' \in [Devices -> BOOLEAN] /\ sent' \in [Threads -> Nat]
        /\ ret' \in [Threads -> {"ok", "EINVAL", "EIO", "ENOMEM"}]
    BY <1>8, <1>a, SMTT(90) DEF EndCall, Progress, NeedsBuffer
  <2>3. \A u \in Threads : ~InAccess(u)' \/ pc'[u] \in {"address", "direction"} => sent'[u] = 0
    BY <1>8, <1>a DEF EndCall, Progress, InAccess
  <2>4. \A u \in Threads : pc'[u] = "close" /\ ret'[u] = "ok" => ~Refused(job'[u])
    BY <1>8, <1>a DEF EndCall, Progress
  <2> QED
    BY <2>1, <2>2, <2>3, <2>4 DEF Progress
<1>9. ASSUME NEW t \in Threads, Close(t) PROVE Progress'
  <2>1. \A u \in Threads : sent'[u] \in 0 .. Len(Call(u).words)'
    <3> SUFFICES ASSUME NEW u \in Threads PROVE sent'[u] \in 0 .. Len(Call(u).words)'
      OBVIOUS
    <3>1. CASE u = t  BY <1>9, <3>1, <1>b, <1>a DEF Close, Progress
    <3>2. CASE u # t
      <4>1. Call(u)' = Call(u)  BY <1>9, <1>a, <3>2 DEF Close, Call, Types
      <4>2. sent'[u] = sent[u]  BY <1>9, <3>2 DEF Close
      <4> QED
        BY <1>a, <4>1, <4>2 DEF Progress
    <3> QED
      BY <3>1, <3>2
  <2>2. \A u \in Threads : ~InAccess(u)' \/ pc'[u] \in {"address", "direction"} => sent'[u] = 0
    BY <1>9, <1>a DEF Close, Progress, InAccess
  <2>3. \A u \in Threads : pc'[u] = "close" /\ ret'[u] = "ok" => ~Refused(job'[u])
    BY <1>9, <1>a DEF Close, Progress, Types
  <2> QED
    BY <1>9, <1>a, <2>1, <2>2, <2>3 DEF Close, Progress
<1>10. CASE UNCHANGED vars
  BY <1>10, <1>a DEF vars, Progress, InAccess, Call
<1> QED
  BY <1>1, <1>2, <1>3, <1>4, <1>5, <1>6, <1>7, <1>8, <1>9, <1>10 DEF Next, Step

\* The pins are turned before words move, and only the access that moves them turns them.
LEMMA StepPins == IInv /\ Moved /\ [Next]_vars => Pins'
<1> SUFFICES ASSUME IInv, Moved, [Next]_vars PROVE Pins'
  OBVIOUS
<1> USE BusAssumption DEF pinVars, threadVars, chipVars, Dev
<1>a. Types /\ Locked /\ Pins
  BY DEF IInv, Moved
<1>b. \A t, u \in Threads : InAccess(t) /\ u # t => pc[u] # "word"
  BY <1>a DEF Locked, InAccess
<1>c. 0 \in BusValues /\ None \notin BusValues
  <2>1. PICK d \in Nat \ {0} : d = Byte  BY BusAssumption
  <2>2. d * d \in Nat \ {0}  OBVIOUS
  <2> QED
    BY <2>1, <2>2 DEF BusValues, ByteValues, WordValues
<1>1. ASSUME UNCHANGED <<currData, dataPins, direction, pinsDir>>,
             \A u \in Threads :
               pc'[u] = "word" => pc[u] = "word" /\ job'[u] = job[u] /\ call'[u] = call[u]
      PROVE  Pins'
  <2>1. \A u \in Threads : pc'[u] = "word" => Call(u)' = Call(u) /\ Wanted(u)' = Wanted(u)
    BY <1>1 DEF Call, Wanted
  <2> QED
    BY <1>1, <1>a, <2>1 DEF Pins
<1>2. ASSUME NEW t \in Threads,
             \/ \E j \in Jobs : Begin(t, j)
             \/ Open(t) \/ SelectChip(t) \/ BufferFails(t) \/ EndCall(t) \/ Close(t)
      PROVE  Pins'
  <2>1. UNCHANGED <<currData, dataPins, direction, pinsDir>>
    BY <1>2 DEF Begin, Open, SelectChip, BufferFails, EndCall, Close
  <2>2. \A u \in Threads : pc'[u] = "word" => u # t /\ pc[u] = "word"
    BY <1>2, <1>a DEF Types, Begin, Open, SelectChip, BufferFails, EndCall, Close
  <2>3. \A u \in Threads : u # t => job'[u] = job[u] /\ call'[u] = call[u]
    BY <1>2, <1>a DEF Types, Begin, Open, SelectChip, BufferFails, EndCall, Close
  <2> QED
    BY <1>1, <2>1, <2>2, <2>3
<1>3. ASSUME NEW t \in Threads, Direction(t) PROVE Pins'
  <2>1. /\ UNCHANGED <<job, call>> /\ pc' = [pc EXCEPT ![t] = "word"] /\ InAccess(t)
        /\ currData' = IF Call(t).input THEN currData ELSE None
    BY <1>3 DEF Direction, ForgetData, InAccess
  <2>2. direction' = Wanted(t)
        /\ ((pinsDir' = pinsDir /\ direction' = direction) \/ pinsDir' = direction')
        /\ dataPins' \in {dataPins, 0}
    BY <1>3 DEF Direction, TurnPins
  <2>3. \A u \in Threads : pc'[u] = "word" => u = t
    BY <1>a, <1>b, <2>1 DEF Types
  <2>4. Call(t)' = Call(t) /\ Wanted(t)' = Wanted(t) /\ Wanted(t) \in {"in", "out"}
    BY <2>1 DEF Call, Wanted
  <2> QED
    BY <1>a, <1>c, <2>1, <2>2, <2>3, <2>4 DEF Pins
<1>4. ASSUME NEW t \in Threads, DirectionFails(t) PROVE Pins'
  <2>1. /\ UNCHANGED <<job, call, currData, dataPins>> /\ pc' = [pc EXCEPT ![t] = "close"]
        /\ InAccess(t) /\ MayFail /\ direction' \in {"in", "out"}
        /\ pinsDir' \in {pinsDir, "mixed", "in", "out"}
    BY <1>4 DEF DirectionFails, InAccess, Wanted
  <2>2. \A u \in Threads : pc'[u] # "word"
    BY <1>a, <1>b, <2>1 DEF Types
  <2> QED
    BY <1>a, <2>1, <2>2 DEF Pins
<1>5. ASSUME NEW t \in Threads, WriteWord(t) PROVE Pins'
  <2> DEFINE val == Call(t).words[sent[t] + 1]
  <2>1. /\ UNCHANGED <<job, call, pc, direction, pinsDir>> /\ pc[t] = "word" /\ InAccess(t)
        /\ ~Call(t).input /\ sent[t] < Len(Call(t).words)
        /\ currData' = val /\ dataPins' = IF currData = val THEN dataPins ELSE val
    BY <1>5 DEF WriteWord, InAccess
  <2>2. val \in BusValues
    <3>1. Call(t).words \in Seq(BusValues) /\ sent[t] \in 0 .. Len(Call(t).words)
      BY <1>a, CallIs DEF Moved, Progress
    <3>2. sent[t] + 1 \in 1 .. Len(Call(t).words)  BY <2>1, <3>1
    <3> QED
      BY <3>1, <3>2
  <2> HIDE DEF val
  <2>3. currData \in {None, dataPins}  BY <1>a, <2>1 DEF Pins
  <2>4. dataPins' = val  BY <1>c, <2>1, <2>2, <2>3
  <2>5. \A u \in Threads : Call(u)' = Call(u) /\ Wanted(u)' = Wanted(u)
    BY <2>1 DEF Call, Wanted
  <2>6. \A u \in Threads : pc[u] = "word" => u = t  BY <1>b, <2>1
  <2> QED
    BY <1>a, <2>1, <2>2, <2>4, <2>5, <2>6 DEF Pins
<1>6. ASSUME NEW t \in Threads, ReadWord(t) PROVE Pins'
  BY <1>1, <1>6 DEF ReadWord
<1>7. CASE UNCHANGED vars
  BY <1>1, <1>7 DEF vars
<1> QED
  BY <1>2, <1>3, <1>4, <1>5, <1>6, <1>7 DEF Next, Step

\* One more word of a call to write.
LEMMA TookNext ==
  ASSUME NEW j \in Jobs, ~Refused(j), NEW c \in 1 .. Len(Calls(j)), ~Calls(j)[c].input,
         NEW s \in Nat, s < Len(Calls(j)[c].words),
         NEW h \in Seq({0, 1} \X (BusValues \cup {None})), Took(h, j, HeardBefore(j, c) + s),
         NEW v \in BusValues \cup {None}, v = Calls(j)[c].words[s + 1] \/ (MayFail /\ v = None),
         NEW i, i = Calls(j)[c].index
  PROVE  Took(Append(h, <<i, v>>), j, HeardBefore(j, c) + (s + 1))
<1> DEFINE x == <<i, v>>
           S == {0, 1} \X (BusValues \cup {None})
           w == Calls(j)[c].words
<1>1. i \in {0, 1}
  BY CallWords
<1>2. x \in S /\ x[1] = i /\ x[2] = v
  BY <1>1
<1>3. PICK n \in Nat : n = HeardBefore(j, c)
  BY WritesMessage
<1>4. s + 1 \in 1 .. Len(w)
  BY CallWords
<1>5. Message(j)[n + (s + 1)] = <<i, w[s + 1]>>
  BY <1>3, <1>4, WritesMessage
<1>6. x = Message(j)[n + (s + 1)] \/ (MayFail /\ x[2] = None)
  BY <1>2, <1>5
<1>7. h \in Seq(S)
  OBVIOUS
<1> HIDE DEF x, S, w
<1>8. PICK g \in Seq(S) : g = Append(h, x) /\ Len(g) = Len(h) + 1
                         /\ (\A m \in 1 .. Len(h) : g[m] = h[m]) /\ g[Len(h) + 1] = x
  <2>1. /\ Append(h, x) \in Seq(S) /\ Len(Append(h, x)) = Len(h) + 1
        /\ \A m \in 1 .. Len(h) : Append(h, x)[m] = h[m]
        /\ Append(h, x)[Len(h) + 1] = x
    BY <1>2, <1>7, AppendProperties
  <2> QED
    BY <2>1, Zenon
<1>9. Len(h) = n + s /\ \A m \in 1 .. n + s : h[m] = Message(j)[m] \/ (MayFail /\ h[m][2] = None)
  BY <1>3 DEF Took
<1>10. (n + s) + 1 = n + (s + 1)
  OBVIOUS
<1>11. ASSUME NEW m \in 1 .. n + (s + 1)
       PROVE  g[m] = Message(j)[m] \/ (MayFail /\ g[m][2] = None)
  <2>1. CASE m = n + (s + 1)  BY <1>6, <1>8, <1>9, <1>10, <2>1
  <2>2. CASE m # n + (s + 1)
    <3>1. m \in 1 .. n + s  BY <2>2
    <3> QED
      BY <1>8, <1>9, <3>1
  <2> QED
    BY <2>1, <2>2
<1> QED
  BY <1>3, <1>8, <1>9, <1>10, <1>11 DEF Took, x

LEMMA StepHearing == IInv /\ IInv' /\ Moved /\ [Next]_vars => Hearing'
<1> SUFFICES ASSUME IInv, IInv', Moved, [Next]_vars PROVE Hearing'
  OBVIOUS
<1> USE BusAssumption DEF pinVars, threadVars, chipVars
<1>a. /\ Types /\ Locked /\ Hearing /\ Progress /\ Pins /\ Silent /\ Locked'
      /\ \A u \in Threads : Dev(u) \in Devices
  BY DEF IInv, Moved, Dev
<1> DEFINE S == {0, 1} \X (BusValues \cup {None})
<1>b. heard \in [Devices -> Seq(S)]
  BY <1>a DEF Hearing
<1> HIDE DEF S
<1>c. ASSUME heard' \in [Devices -> Seq(S)], NEW t \in Threads, busLock' = t,
             ~Refused(job'[t]) =>
               /\ pc'[t] # "close" =>
                    Took(heard'[Dev(t)], job'[t],
                         HeardBefore(job'[t], call'[t])
                           + (IF Calls(job'[t])[call'[t]].input THEN 0 ELSE sent'[t]))
               /\ pc'[t] = "close" /\ ret'[t] = "ok" =>
                    Took(heard'[Dev(t)], job'[t], Len(Message(job'[t])))
      PROVE  Hearing'
  <2>1. \A u \in Threads : InAccess(u)' => u = t
    BY <1>a, <1>c DEF Locked
  <2> QED
    BY <1>c, <2>1 DEF Hearing, Call, Dev, S
<1>1. ASSUME UNCHANGED heard,
             \A u \in Threads : InAccess(u)' =>
               /\ InAccess(u) /\ UNCHANGED <<job[u], call[u], sent[u], ret[u]>>
               /\ pc[u] = pc'[u] \/ (pc[u] # "close" /\ pc'[u] # "close")
      PROVE  Hearing'
  <2>1. ASSUME NEW u \in Threads, InAccess(u)', ~Refused(job'[u])
        PROVE  /\ pc'[u] # "close" =>
                    Took(heard'[Dev(u)], job'[u],
                         HeardBefore(job'[u], call'[u])
                           + (IF Calls(job'[u])[call'[u]].input THEN 0 ELSE sent'[u]))
               /\ pc'[u] = "close" /\ ret'[u] = "ok" =>
                    Took(heard'[Dev(u)], job'[u], Len(Message(job'[u])))
    <3>1. /\ InAccess(u) /\ job'[u] = job[u] /\ call'[u] = call[u] /\ sent'[u] = sent[u]
          /\ ret'[u] = ret[u] /\ heard' = heard
          /\ (pc[u] = pc'[u] \/ (pc[u] # "close" /\ pc'[u] # "close"))
      BY <1>1, <2>1
    <3>2. ~Refused(job[u]) =>
            /\ pc[u] # "close" =>
                 Took(heard[Dev(u)], job[u],
                      HeardBefore(job[u], call[u])
                        + (IF Calls(job[u])[call[u]].input THEN 0 ELSE sent[u]))
            /\ pc[u] = "close" /\ ret[u] = "ok" =>
                 Took(heard[Dev(u)], job[u], Len(Message(job[u])))
      BY <1>a, <3>1 DEF Hearing, Call
    <3> QED
      BY <2>1, <3>1, <3>2
  <2> QED
    BY <1>1, <1>b, <2>1 DEF Hearing, Call, Dev, S
<1>2. ASSUME NEW t \in Threads, NEW j \in Jobs, Begin(t, j) PROVE Hearing'
  BY <1>1, <1>2, <1>a DEF Begin, InAccess, Types
<1>3. ASSUME NEW t \in Threads, Open(t) PROVE Hearing'
  <2>1. /\ heard' = heard /\ job'[t] = job[t] /\ call'[t] = call[t] /\ sent'[t] = sent[t]
        /\ pc'[t] = "address" /\ busLock' = t /\ pc[t] = "open" /\ busLock = None
    BY <1>3, <1>a DEF Open, Types
  <2>2. heard[Dev(t)] = <<>>  BY <1>a, <2>1 DEF Silent
  <2>3. call[t] = 1 /\ sent[t] = 0  BY <1>a, <2>1 DEF Locked, Progress, InAccess
  <2>4. HeardBefore(job[t], 1) + (IF Calls(job[t])[1].input THEN 0 ELSE 0) = 0
    BY DEF HeardBefore
  <2>5. Took(<<>>, job[t], 0)  BY DEF Took
  <2>6. Took(heard'[Dev(t)], job'[t],
             HeardBefore(job'[t], call'[t])
               + (IF Calls(job'[t])[call'[t]].input THEN 0 ELSE sent'[t]))
    BY <2>1, <2>2, <2>3, <2>4, <2>5
  <2> QED
    BY <1>b, <1>c, <2>1, <2>6
<1>4. ASSUME NEW t \in Threads, SelectChip(t) PROVE Hearing'
  <2>1. isopen[Dev(t)]  BY <1>4, <1>a DEF SelectChip, Locked, InAccess
  <2>2. UNCHANGED <<heard, job, call, sent, ret>>
        /\ pc' = [pc EXCEPT ![t] = "direction"] /\ pc[t] = "address"
    BY <1>4, <2>1 DEF SelectChip
  <2> QED
    BY <1>1, <1>a, <2>2 DEF InAccess, Types
<1>5. ASSUME NEW t \in Threads, Direction(t) PROVE Hearing'
  BY <1>1, <1>5, <1>a DEF Direction, InAccess, Types
<1>6. ASSUME NEW t \in Threads, DirectionFails(t) \/ BufferFails(t) PROVE Hearing'
  <2>1. /\ heard' = heard /\ pc'[t] = "close" /\ ret'[t] # "ok" /\ busLock' = busLock
        /\ InAccess(t)
    BY <1>6, <1>a DEF DirectionFails, BufferFails, InAccess, Types, Progress
  <2>2. busLock' = t  BY <1>a, <2>1 DEF Locked
  <2> QED
    BY <1>b, <1>c, <2>1, <2>2
<1>7. ASSUME NEW t \in Threads, ReadWord(t) PROVE Hearing'
  <2>1. /\ heard' = heard /\ job' = job /\ call' = call /\ pc' = pc /\ pc[t] = "word"
        /\ busLock' = busLock /\ Call(t).input /\ InAccess(t)
    BY <1>7 DEF ReadWord, InAccess
  <2>2. busLock' = t  BY <1>a, <2>1 DEF Locked
  <2>3. ASSUME ~Refused(job[t])
        PROVE  Took(heard[Dev(t)], job[t], HeardBefore(job[t], call[t]) + 0)
    BY <1>a, <2>1, <2>3 DEF Hearing
  <2> QED
    BY <1>b, <1>c, <2>1, <2>2, <2>3 DEF Call
<1>8. ASSUME NEW t \in Threads, WriteWord(t) PROVE Hearing'
  <2> DEFINE j == job[t]
             c == call[t]
             w == Calls(j)[c].words
             v == IF pinsDir = "out" THEN dataPins' ELSE None
             x == <<addressPins % 2, v>>
  <2>1. /\ UNCHANGED <<job, call, pc, direction, pinsDir, busLock>> /\ pc[t] = "word" /\ InAccess(t)
        /\ ~Calls(j)[c].input /\ sent[t] < Len(w) /\ sent' = [sent EXCEPT ![t] = sent[t] + 1]
        /\ currData' = w[sent[t] + 1]
        /\ dataPins' = IF currData = w[sent[t] + 1] THEN dataPins ELSE w[sent[t] + 1]
        /\ heard' = [d \in Devices |-> IF Selected(d) THEN Append(heard[d], x) ELSE heard[d]]
    BY <1>8 DEF WriteWord, InAccess, Call
  <2>2. /\ j \in Jobs /\ c \in 1 .. Len(Calls(j)) /\ w \in Seq(BusValues) /\ Len(w) \in Nat
        /\ Calls(j)[c].index \in {0, 1}
    BY <1>a, CallIs
  <2>3. Selected(Dev(t)) /\ addressPins % 2 = Calls(j)[c].index
    BY <2>1, ItsChip DEF Call
  <2>4. sent[t] \in Nat /\ sent[t] + 1 \in 1 .. Len(w)
    BY <1>a, <2>1, <2>2, SMTT(30) DEF Progress
  <2>5. w[sent[t] + 1] \in BusValues /\ w[sent[t] + 1] # None
    <3>1. w[sent[t] + 1] \in BusValues  BY <2>2, <2>4
    <3>2. BusValues \subseteq Nat
      <4>1. PICK d \in Nat : d = Byte  BY BusAssumption
      <4>2. d * d \in Nat  OBVIOUS
      <4> QED
        BY <4>1, <4>2 DEF BusValues, ByteValues, WordValues
    <3> QED
      BY <3>1, <3>2
  <2>6. dataPins' = w[sent[t] + 1]
    <3>1. currData \in {None, dataPins}  BY <1>a, <2>1 DEF Pins, Call
    <3> QED
      BY <2>1, <2>5, <3>1
  <2>7. v \in BusValues \cup {None} /\ (v = w[sent[t] + 1] \/ (MayFail /\ v = None))
    <3>1. direction = "out"  BY <1>a, <2>1 DEF Pins, Wanted, Call
    <3>2. pinsDir = "out" \/ MayFail  BY <1>a, <3>1 DEF Pins
    <3> QED
      BY <2>5, <2>6, <3>2
  <2>8. x \in S  BY <2>2, <2>3, <2>7 DEF S
  <2> HIDE DEF x, v, w
  <2>9. heard' \in [Devices -> Seq(S)]
    <3>1. \A d \in Devices : heard[d] \in Seq(S) /\ Append(heard[d], x) \in Seq(S)
      BY <1>b, <2>8, AppendProperties
    <3> QED
      BY <2>1, <3>1
  <2>10. heard'[Dev(t)] = Append(heard[Dev(t)], x)  BY <1>a, <2>1, <2>3
  <2>11. ASSUME ~Refused(j)
         PROVE  Took(heard'[Dev(t)], j, HeardBefore(j, c) + (sent[t] + 1))
    <3>1. Took(heard[Dev(t)], j, HeardBefore(j, c) + sent[t])
      BY <1>a, <2>1, <2>11 DEF Hearing, Call
    <3>2. heard[Dev(t)] \in Seq({0, 1} \X (BusValues \cup {None}))  BY <1>a, <1>b DEF S
    <3>3. Took(Append(heard[Dev(t)], <<addressPins % 2, v>>), j, HeardBefore(j, c) + (sent[t] + 1))
      BY <2>1, <2>2, <2>3, <2>4, <2>7, <2>11, <3>1, <3>2, TookNext DEF w
    <3> QED
      BY <2>10, <3>3 DEF x
  <2>12. busLock' = t /\ sent'[t] = sent[t] + 1
    BY <1>a, <2>1 DEF Locked, Progress
  <2> QED
    BY <1>c, <2>1, <2>9, <2>11, <2>12
<1>9. ASSUME NEW t \in Threads, EndCall(t) PROVE Hearing'
  <2> DEFINE j == job[t]
             c == call[t]
             w == Calls(j)[c].words
  <2>1. /\ UNCHANGED <<job, heard, busLock>> /\ pc[t] = "word" /\ sent[t] = Len(w) /\ InAccess(t)
        /\ sent' = [sent EXCEPT ![t] = 0]
        /\ IF c < Len(Calls(j))
           THEN call' = [call EXCEPT ![t] = c + 1] /\ pc' = [pc EXCEPT ![t] = "address"]
           ELSE pc' = [pc EXCEPT ![t] = "close"]
    BY <1>9 DEF EndCall, InAccess, Call
  <2>2. j \in Jobs /\ c \in 1 .. Len(Calls(j)) /\ Len(w) \in Nat /\ Len(Calls(j)) \in Nat
    BY <1>a, CallIs, CallsFacts
  <2>3. busLock' = t /\ sent'[t] = 0 /\ heard' \in [Devices -> Seq(S)]
    BY <1>a, <1>b, <2>1 DEF Locked, Progress
  <2>4. ASSUME ~Refused(j)
        PROVE  Took(heard[Dev(t)], j,
                    IF c = Len(Calls(j)) THEN Len(Message(j)) ELSE HeardBefore(j, c + 1))
    <3>1. Took(heard[Dev(t)], j, HeardBefore(j, c) + (IF Calls(j)[c].input THEN 0 ELSE Len(w)))
      BY <1>a, <2>1, <2>4 DEF Hearing, Call
    <3>2. CASE Calls(j)[c].input
      <4>1. HeardBefore(j, c) = Len(Message(j)) /\ HeardBefore(j, c + 1) = Len(Message(j))
        BY <2>2, <3>2, ReadsData
      <4>2. Len(Message(j)) + 0 = Len(Message(j))
        <5>1. Len(Message(j)) \in Nat  BY <2>2, <2>4, MessageIs, LenProperties
        <5> QED
          BY <5>1
      <4> QED
        BY <3>1, <3>2, <4>1, <4>2
    <3>3. CASE ~Calls(j)[c].input
      BY <2>2, <2>4, <3>1, <3>3, WritesMessage
    <3> QED
      BY <3>2, <3>3
  <2> HIDE DEF w
  <2>5. CASE c < Len(Calls(j))
    <3>1. call'[t] = c + 1 /\ pc'[t] = "address"  BY <1>a, <2>1, <2>5 DEF Types
    <3>2. HeardBefore(j, c + 1) + (IF Calls(j)[c + 1].input THEN 0 ELSE 0) = HeardBefore(j, c + 1)
          \/ Refused(j)
      <4>1. ~Refused(j) => HeardBefore(j, c + 1) \in Nat
        <5>1. c + 1 \in 1 .. Len(Calls(j))  BY <2>2, <2>5
        <5>2. PICK k \in 1 .. Len(Calls(j)) : k = c + 1  BY <5>1
        <5>3. ASSUME ~Refused(j), Calls(j)[k].input PROVE HeardBefore(j, k) \in Nat
          <6>1. Len(Message(j)) \in Nat  BY <2>2, <5>3, MessageIs, LenProperties
          <6>2. HeardBefore(j, k) = Len(Message(j))  BY <2>2, <5>3, ReadsData
          <6> QED
            BY <6>1, <6>2
        <5>4. ASSUME ~Refused(j), ~Calls(j)[k].input PROVE HeardBefore(j, k) \in Nat
          BY <2>2, <5>4, WritesMessage
        <5> QED
          BY <5>2, <5>3, <5>4
      <4> QED
        BY <4>1
    <3>3. c # Len(Calls(j))  BY <2>2, <2>5
    <3> QED
      BY <1>c, <2>1, <2>3, <2>4, <3>1, <3>2, <3>3
  <2>6. CASE ~(c < Len(Calls(j)))
    <3>1. c = Len(Calls(j)) /\ pc'[t] = "close"  BY <1>a, <2>1, <2>2, <2>6 DEF Types
    <3> QED
      BY <1>c, <2>1, <2>3, <2>4, <3>1
  <2> QED
    BY <2>5, <2>6
<1>10. ASSUME NEW t \in Threads, Close(t) PROVE Hearing'
  <2>1. busLock' = None /\ heard' = [d \in Devices |-> <<>>]  BY <1>10 DEF Close
  <2>2. \A u \in Threads : ~InAccess(u)'  BY <1>a, <2>1 DEF Locked
  <2>3. heard' \in [Devices -> Seq(S)]  BY <2>1
  <2> QED
    BY <2>2, <2>3 DEF Hearing, S
<1>11. CASE UNCHANGED vars
  BY <1>1, <1>11 DEF vars, InAccess
<1> QED
  BY <1>2, <1>3, <1>4, <1>5, <1>6, <1>7, <1>8, <1>9, <1>10, <1>11 DEF Next, Step

LEMMA StepReading == IInv /\ IInv' /\ Moved /\ [Next]_vars => Reading'
<1> SUFFICES ASSUME IInv, IInv', Moved, [Next]_vars PROVE Reading'
  OBVIOUS
<1> USE BusAssumption DEF pinVars, threadVars, chipVars
<1>a. /\ Types /\ Locked /\ Reading /\ Progress /\ Pins /\ Locked' /\ None \notin Threads
  BY DEF IInv, Moved
<1>b. /\ told \in Seq(BusValues) /\ got \in Seq(BusValues \cup {None}) /\ Len(got) = Len(told)
      /\ Len(got) \in Nat
  BY <1>a DEF Reading
<1> DEFINE Read(u, g, j, c, s, p, r) ==
             /\ c = 1 \/ j.op = "write" => g = <<>>
             /\ j.op = "read" /\ p # "close" =>
                  Len(g) = GotBefore(j, c) + (IF Calls(j)[c].input THEN s ELSE 0)
             /\ j.op = "read" /\ p = "close" /\ r = "ok" => Len(g) = Len(j.data) * PerWord(j)
<1>c. \A u \in Threads : InAccess(u) => Read(u, got, job[u], call[u], sent[u], pc[u], ret[u])
  BY <1>a DEF Reading, Call
<1>d. ASSUME /\ told' \in Seq(BusValues) /\ got' \in Seq(BusValues \cup {None})
             /\ Len(got') = Len(told')
             /\ busLock' = None => got' = <<>>
             /\ got' # <<>> => direction' = "in"
             /\ AddressesApart =>
                  \A i \in 1 .. Len(got') :
                    got'[i] = told'[i] \/ (got'[i] = None /\ pinsDir' # "in"),
             \A u \in Threads : InAccess(u)' =>
               Read(u, got', job'[u], call'[u], sent'[u], pc'[u], ret'[u])
      PROVE  Reading'
  <2>1. AddressesApart' => AddressesApart  BY DEF AddressesApart
  <2> QED
    BY <1>d, <2>1 DEF Reading, Call
<1> HIDE DEF Read
\* Nothing was read: what the access of t is at is all that changes.
<1>e. ASSUME NEW t \in Threads, busLock' = t, told' = told, got' = got,
             got = <<>> \/ UNCHANGED <<direction, pinsDir>>,
             Read(t, got, job'[t], call'[t], sent'[t], pc'[t], ret'[t])
      PROVE  Reading'
  <2>1. \A u \in Threads : InAccess(u)' => u = t
    BY <1>a, <1>e DEF Locked
  <2>2. got # <<>> => direction' = "in"  BY <1>a, <1>e DEF Reading
  <2>3. AddressesApart =>
          \A i \in 1 .. Len(got) : got[i] = told[i] \/ (got[i] = None /\ pinsDir' # "in")
    <3>1. CASE got = <<>>  BY <3>1
    <3>2. CASE got # <<>>  BY <1>a, <1>e, <3>2 DEF Reading
    <3> QED
      BY <3>1, <3>2
  <2>4. busLock' # None  BY <1>a, <1>e
  <2> QED
    BY <1>b, <1>d, <1>e, <2>1, <2>2, <2>3, <2>4
<1>1. ASSUME NEW t \in Threads, NEW j \in Jobs, Begin(t, j) PROVE Reading'
  <2>1. \A u \in Threads : InAccess(u)' =>
          /\ InAccess(u) /\ job'[u] = job[u] /\ call'[u] = call[u] /\ sent'[u] = sent[u]
          /\ ret'[u] = ret[u] /\ pc'[u] = pc[u]
    BY <1>1, <1>a DEF Begin, InAccess, Types
  <2>2. UNCHANGED <<told, got, busLock, direction, pinsDir>>  BY <1>1 DEF Begin
  <2> QED
    BY <1>a, <1>b, <1>c, <1>d, <2>1, <2>2 DEF Reading
<1>2. ASSUME NEW t \in Threads, Open(t) PROVE Reading'
  <2>1. /\ job'[t] = job[t] /\ call'[t] = call[t] /\ UNCHANGED <<told, got, direction, pinsDir>>
        /\ pc'[t] = "address" /\ busLock' = t /\ pc[t] = "open" /\ busLock = None
    BY <1>2, <1>a DEF Open, Types
  <2>2. got = <<>>  BY <1>a, <2>1 DEF Reading
  <2>3. call[t] = 1 /\ ~Calls(job[t])[1].input
    <3>1. call[t] = 1  BY <1>a, <2>1 DEF Locked
    <3>2. Call(t) = Calls(job[t])[1] /\ Call(t).input = (1 # 1 /\ job[t].op = "read")
      BY <1>a, <3>1, CallIs
    <3> QED
      BY <3>1, <3>2
  <2>4. Len(got) = GotBefore(job[t], 1) + 0  BY <2>2 DEF GotBefore
  <2>5. Read(t, got, job'[t], call'[t], sent'[t], pc'[t], ret'[t])
    BY <2>1, <2>2, <2>3, <2>4 DEF Read
  <2> QED
    BY <1>e, <2>1, <2>5
<1>3. ASSUME NEW t \in Threads, SelectChip(t) PROVE Reading'
  <2>1. isopen[Dev(t)]
    <3>1. busLock = t /\ Dev(t) \in Devices  BY <1>3, <1>a DEF SelectChip, Locked, InAccess, Dev
    <3> QED
      BY <1>a, <3>1 DEF Locked
  <2>2. /\ UNCHANGED <<told, got, busLock, direction, pinsDir, job, call, sent, ret>>
        /\ pc'[t] = "direction" /\ pc[t] = "address" /\ InAccess(t)
    BY <1>3, <1>a, <2>1 DEF SelectChip, Types, InAccess
  <2>3. Read(t, got, job'[t], call'[t], sent'[t], pc'[t], ret'[t])
    BY <1>c, <2>2 DEF Read
  <2>4. busLock' = t  BY <1>a, <2>2 DEF Locked
  <2> QED
    BY <1>e, <2>2, <2>3, <2>4
<1>f. ASSUME NEW t \in Threads, InAccess(t), got # <<>>
      PROVE  Wanted(t) = "in" /\ direction = "in"
  <2>1. call[t] # 1 /\ job[t].op # "write" /\ job[t] \in Jobs
    BY <1>a, <1>c, <1>f DEF Read, Types
  <2>2. Call(t).input  BY <1>a, <2>1, CallIs
  <2> QED
    BY <1>a, <1>f, <2>2 DEF Wanted, Reading
<1>4. ASSUME NEW t \in Threads, Direction(t) PROVE Reading'
  <2>1. /\ UNCHANGED <<told, got, busLock, job, call, sent, ret>>
        /\ pc'[t] = "word" /\ pc[t] = "direction" /\ InAccess(t)
        /\ TurnPins(Wanted(t))
    BY <1>4, <1>a DEF Direction, Types, InAccess
  <2>2. got = <<>> \/ UNCHANGED <<direction, pinsDir>>  BY <1>f, <2>1 DEF TurnPins
  <2>3. Read(t, got, job'[t], call'[t], sent'[t], pc'[t], ret'[t])
    BY <1>c, <2>1 DEF Read
  <2>4. busLock' = t  BY <1>a, <2>1 DEF Locked
  <2> QED
    BY <1>e, <2>1, <2>2, <2>3, <2>4
<1>5. ASSUME NEW t \in Threads, DirectionFails(t) \/ BufferFails(t) PROVE Reading'
  <2>1. /\ UNCHANGED <<told, got, busLock, job, call>>
        /\ pc'[t] = "close" /\ ret'[t] # "ok" /\ InAccess(t)
        /\ direction # Wanted(t) \/ UNCHANGED <<direction, pinsDir>>
    BY <1>5, <1>a DEF DirectionFails, BufferFails, Types, InAccess, Progress
  <2>2. got = <<>> \/ UNCHANGED <<direction, pinsDir>>  BY <1>f, <2>1
  <2>3. Read(t, got, job'[t], call'[t], sent'[t], pc'[t], ret'[t])
    BY <1>c, <2>1 DEF Read
  <2>4. busLock' = t  BY <1>a, <2>1 DEF Locked
  <2> QED
    BY <1>e, <2>1, <2>2, <2>3, <2>4
<1>6. ASSUME NEW t \in Threads, WriteWord(t) PROVE Reading'
  <2>1. /\ UNCHANGED <<told, got, busLock, job, call, pc, ret, direction, pinsDir>>
        /\ InAccess(t) /\ ~Calls(job[t])[call[t]].input
    BY <1>6 DEF WriteWord, InAccess, Call
  <2>2. Read(t, got, job'[t], call'[t], sent'[t], pc'[t], ret'[t])
    BY <1>c, <2>1 DEF Read
  <2>3. busLock' = t  BY <1>a, <2>1 DEF Locked
  <2> QED
    BY <1>e, <2>1, <2>2, <2>3
<1>7. ASSUME NEW t \in Threads, ReadWord(t) PROVE Reading'
  <2>1. Selected(Dev(t))  BY <1>7, ItsChip DEF ReadWord
  <2>0. PICK answer \in BusValues :
          told' = Append(told, answer) /\ \E val \in Readable(t, answer) : got' = Append(got, val)
    BY <1>7, <2>1 DEF ReadWord
  <2>2. PICK x \in Readable(t, answer) : told' = Append(told, answer) /\ got' = Append(got, x)
    BY <2>0
  <2>3. /\ UNCHANGED <<busLock, job, call, pc, ret, direction, pinsDir>>
        /\ InAccess(t) /\ pc[t] = "word" /\ Calls(job[t])[call[t]].input
        /\ sent'[t] = sent[t] + 1 /\ sent[t] \in Nat
    BY <1>7, <1>a DEF ReadWord, InAccess, Call, Progress
  <2>4. /\ x \in BusValues \cup {None}
        /\ AddressesApart => x = answer \/ (x = None /\ pinsDir # "in")
    <3>1. x \in BusValues \cup {None}  BY DEF Readable
    <3>2. ASSUME AddressesApart PROVE x = answer \/ (x = None /\ pinsDir # "in")
      <4>1. \A d \in Devices : Selected(d) => d = Dev(t)  BY <2>3, <3>2, OwnChip
      <4> QED
        BY <4>1 DEF Readable
    <3> QED
      BY <3>1, <3>2
  <2>5. /\ told' \in Seq(BusValues) /\ Len(told') = Len(told) + 1
        /\ (\A i \in 1 .. Len(told) : told'[i] = told[i]) /\ told'[Len(told) + 1] = answer
    BY <1>b, <2>2, AppendProperties
  <2>6. /\ got' \in Seq(BusValues \cup {None}) /\ Len(got') = Len(got) + 1
        /\ (\A i \in 1 .. Len(got) : got'[i] = got[i]) /\ got'[Len(got) + 1] = x
    BY <1>b, <2>2, <2>4, AppendProperties
  <2>7. ASSUME AddressesApart, NEW i \in 1 .. Len(got')
        PROVE  got'[i] = told'[i] \/ (got'[i] = None /\ pinsDir' # "in")
    <3>1. CASE i = Len(got) + 1  BY <1>b, <2>3, <2>4, <2>5, <2>6, <2>7, <3>1
    <3>2. CASE i # Len(got) + 1
      <4>1. i \in 1 .. Len(got)  BY <1>b, <2>6, <3>2
      <4> QED
        BY <1>a, <1>b, <2>3, <2>5, <2>6, <2>7, <4>1, SMTT(30) DEF Reading
    <3> QED
      BY <3>1, <3>2
  <2>8. direction' = "in"
    BY <1>a, <2>3 DEF Pins, Wanted, Call
  <2>9. job[t].op = "read" /\ call[t] # 1 /\ GotBefore(job[t], call[t]) \in Nat
    BY <1>a, <2>3, CallIs, ReadsData
  <2>10. Len(got) = GotBefore(job[t], call[t]) + sent[t]
    BY <1>c, <2>3, <2>9 DEF Read
  <2>11. Read(t, got', job'[t], call'[t], sent'[t], pc'[t], ret'[t])
    <3>1. Len(got') = GotBefore(job[t], call[t]) + (sent[t] + 1)  BY <2>3, <2>6, <2>9, <2>10
    <3> QED
      BY <2>3, <2>9, <3>1 DEF Read
  <2>12. busLock' = t /\ \A u \in Threads : InAccess(u)' => u = t
    BY <1>a, <2>3 DEF Locked
  <2> QED
    BY <1>a, <1>b, <1>d, <2>5, <2>6, <2>7, <2>8, <2>11, <2>12
<1>8. ASSUME NEW t \in Threads, EndCall(t) PROVE Reading'
  <2> DEFINE j == job[t]
             c == call[t]
             w == Calls(j)[c].words
  <2>1. /\ UNCHANGED <<job, told, got, busLock, direction, pinsDir>> /\ pc[t] = "word"
        /\ sent[t] = Len(w) /\ InAccess(t) /\ sent' = [sent EXCEPT ![t] = 0]
        /\ IF c < Len(Calls(j))
           THEN call' = [call EXCEPT ![t] = c + 1] /\ pc' = [pc EXCEPT ![t] = "address"]
           ELSE /\ pc' = [pc EXCEPT ![t] = "close"] /\ call' = call
                /\ ret' = [ret EXCEPT ![t] = IF Refused(j) THEN "EINVAL" ELSE "ok"]
    BY <1>8 DEF EndCall, InAccess, Call
  <2>2. /\ j \in Jobs /\ c \in 1 .. Len(Calls(j)) /\ Len(w) \in Nat /\ Len(Calls(j)) \in Nat
        /\ Calls(j)[c].input = (c # 1 /\ j.op = "read")
    BY <1>a, CallIs, CallsFacts
  <2>3. busLock' = t /\ sent'[t] = 0  BY <1>a, <2>1 DEF Locked, Progress
  <2>4. /\ c = 1 \/ j.op = "write" => got = <<>>
        /\ j.op = "read" => Len(got) = GotBefore(j, c) + (IF Calls(j)[c].input THEN Len(w) ELSE 0)
    BY <1>c, <2>1 DEF Read
  <2>5. ASSUME j.op = "read", c # 1
        PROVE  Len(got) = IF c = Len(Calls(j)) THEN Len(j.data) * PerWord(j)
                          ELSE GotBefore(j, c + 1)
    BY <2>2, <2>4, <2>5, ReadsData
  <2> HIDE DEF w
  <2>6. CASE c < Len(Calls(j))
    <3>1. call'[t] = c + 1 /\ pc'[t] = "address" /\ c + 1 # 1 /\ c # Len(Calls(j))
      BY <1>a, <2>1, <2>2, <2>6 DEF Types
    <3>2. ASSUME j.op = "read" PROVE Len(got) = GotBefore(j, c + 1)
      <4>1. CASE c = 1
        <5>1. Before(j, 1) = 0
          <6>1. (1 - 1) * Chunk = 0  BY BusAssumption
          <6> QED
            BY <6>1 DEF Before, PerWord
        <5>2. GotBefore(j, 1 + 1) = Before(j, 1)  BY DEF GotBefore
        <5> QED
          BY <2>4, <4>1, <5>1, <5>2
      <4>2. CASE c # 1  BY <2>5, <3>1, <3>2, <4>2
      <4> QED
        BY <4>1, <4>2
    <3>3. j.op = "read" =>
            Len(got) = GotBefore(j, c + 1) + (IF Calls(j)[c + 1].input THEN 0 ELSE 0)
      BY <1>b, <3>2
    <3>4. Read(t, got, job'[t], call'[t], sent'[t], pc'[t], ret'[t])
      BY <2>1, <2>3, <2>4, <3>1, <3>3 DEF Read
    <3> QED
      BY <1>e, <2>1, <2>3, <3>4
  <2>7. CASE ~(c < Len(Calls(j)))
    <3>1. c = Len(Calls(j)) /\ pc'[t] = "close" /\ call' = call
      BY <1>a, <2>1, <2>2, <2>7 DEF Types
    <3>2. ret'[t] = "ok" => ~Refused(j)
      BY <1>a, <2>1, <2>7 DEF Progress
    <3>3. ASSUME j.op = "read", ~Refused(j) PROVE Len(got) = Len(j.data) * PerWord(j)
      <4>1. c # 1
        <5>1. Len(Calls(j)) # 1  BY <2>2, <3>3, CallWords
        <5> QED
          BY <3>1, <5>1
      <4> QED
        BY <2>5, <3>1, <3>3, <4>1
    <3>4. Read(t, got, job'[t], call'[t], sent'[t], pc'[t], ret'[t])
      BY <2>1, <2>4, <3>1, <3>2, <3>3 DEF Read
    <3> QED
      BY <1>e, <2>1, <2>3, <3>4
  <2> QED
    BY <2>6, <2>7
<1>9. ASSUME NEW t \in Threads, Close(t) PROVE Reading'
  <2>1. busLock' = None /\ told' = <<>> /\ got' = <<>>  BY <1>9 DEF Close
  <2>2. \A u \in Threads : ~InAccess(u)'  BY <1>a, <2>1 DEF Locked
  <2> QED
    BY <1>d, <2>1, <2>2
<1>10. CASE UNCHANGED vars
  <2>1. \A u \in Threads : InAccess(u)' => InAccess(u)  BY <1>10 DEF vars, InAccess
  <2> QED
    BY <1>10, <1>a, <1>b, <1>c, <1>d, <2>1 DEF vars, Reading
<1> QED
  BY <1>1, <1>2, <1>3, <1>4, <1>5, <1>6, <1>7, <1>8, <1>9, <1>10 DEF Next, Step

LEMMA IndMoved == Spec => []Moved
<1>1. IInv /\ IInv' /\ Moved /\ [Next]_vars => Moved'
  BY StepProgress, StepPins, StepHearing, StepReading DEF Moved
<1> QED BY InitMoved, IndInv, <1>1, PTL DEF Spec

-----------------------------------------------------------------------------
LEMMA StaysApart == AddressesApart => []AddressesApart
<1>1. AddressesApart => AddressesApart'
  BY DEF AddressesApart
<1> QED BY <1>1, PTL

\* i80_verify_and_set_address and the remembered address: what an access writes is taken
\* by the chip of its device alone, if the devices of the bus have addresses of their own.
THEOREM ChipsIsolated == AddressesApart /\ Spec => []Isolated
<1>1. IInv /\ AddressesApart => Isolated
  BY DEF IInv
<1> QED BY IndInv, StaysApart, <1>1, PTL

\* i80_close on every path out of an access: while nobody has the bus, no device is open
\* and the address pins are 0.
THEOREM AlwaysDeselected == Spec => []Deselected
<1>1. IInv => Deselected
  BY DEF IInv, Locked, Addressed, Deselected
<1> QED BY IndInv, <1>1, PTL

-----------------------------------------------------------------------------
\* Locks, pins, calls and words have the types they are given, in every access.
THEOREM TypesKept == Spec => []TypeOK
<1>1. IInv /\ Moved => TypeOK
  <2> SUFFICES ASSUME IInv, Moved PROVE TypeOK
    OBVIOUS
  <2>1. \A t \in Threads : call[t] \in DOMAIN Calls(job[t])
                          /\ sent[t] \in 0 .. Len(Call(t).words)
    BY DEF IInv, Moved, Types, Progress
  <2> QED
    BY <2>1 DEF IInv, Moved, Types, Progress, Pins, Hearing, Reading, TypeOK
<1> QED BY IndInv, IndMoved, <1>1, PTL

\* lcdreg_i80_write and lcdreg_i80_read, through the conversion buffer, the address and
\* the remembered pins: an access that returns success has put its message on the bus,
\* whatever was there before.
THEOREM MessageDelivered == Spec => []Delivered
<1>1. IInv /\ Moved => Delivered
  <2> SUFFICES ASSUME IInv, Moved, NEW t \in Threads,
                      pc[t] = "close", ret[t] = "ok", ~Garbled(Dev(t))
               PROVE  heard[Dev(t)] = Message(job[t])
    BY DEF Delivered
  <2> DEFINE h == heard[Dev(t)]
             m == Message(job[t])
             S == {0, 1} \X (BusValues \cup {None})
  <2>1. job[t] \in Jobs /\ Dev(t) \in Devices /\ ~Refused(job[t])
    BY BusAssumption DEF IInv, Moved, Types, Progress, Dev
  <2>2. h \in Seq(S) /\ Took(h, job[t], Len(m))
    BY <2>1 DEF Moved, Hearing, InAccess
  <2>3. m \in Seq({0, 1} \X BusValues)  BY <2>1, MessageIs
  <2>4. ~(MayFail /\ None \in {h[i][2] : i \in DOMAIN h})
    BY DEF Garbled
  <2> HIDE DEF h, m, S
  <2>5. Len(h) = Len(m) /\ DOMAIN h = 1 .. Len(h)
    BY <2>2, LenProperties DEF Took
  <2>6. ASSUME NEW i \in 1 .. Len(h) PROVE h[i] = m[i]
    <3>1. h[i] = m[i] \/ (MayFail /\ h[i][2] = None)  BY <2>2, <2>5 DEF Took, m
    <3>2. ~(MayFail /\ h[i][2] = None)  BY <2>4, <2>5
    <3> QED
      BY <3>1, <3>2
  <2>7. m \in Seq(S)
    <3>1. DOMAIN m = 1 .. Len(m) /\ \A i \in 1 .. Len(m) : m[i] \in {0, 1} \X BusValues
      BY <2>3
    <3> QED
      BY <2>3, <3>1 DEF S
  <2>8. h = m  BY <2>2, <2>5, <2>6, <2>7, SeqEqual
  <2> QED
    BY <2>8 DEF h, m
<1> QED BY IndInv, IndMoved, <1>1, PTL

\* lcdreg_i80_read puts the bytes back in the order the chip told them.
LEMMA PutBack ==
  ASSUME NEW j \in Jobs, ~Refused(j), j.data # <<>>,
         NEW g \in Seq(BusValues), Len(g) = Len(j.data) * PerWord(j)
  PROVE  FlattenSeq([i \in DOMAIN j.data |-> OnBus(FromBus(j, g)[i], j.width)]) = g
<1> DEFINE s == [i \in DOMAIN j.data |-> OnBus(FromBus(j, g)[i], j.width)]
<1>1. PICK n \in Nat : n = Len(j.data) /\ DOMAIN j.data = 1 .. n
  BY BusAssumption, SMTT(30)
<1>2. \A i \in 1 .. Len(g) : g[i] \in BusValues
  OBVIOUS
<1>3. CASE PerWord(j) = 2
  <2>1. BusWidth = 8 /\ j.width = 16 /\ ~Direct(j)  BY <1>3 DEF PerWord, Direct
  <2>2. Len(g) = 2 * n /\ Len(g) \div 2 = n
    <3>1. Len(g) = n * 2  BY <1>1, <1>3
    <3>2. \A x \in Nat : x * 2 = 2 * x /\ (2 * x) \div 2 = x  OBVIOUS
    <3> QED
      BY <3>1, <3>2
  <2>3. FromBus(j, g) = [i \in 1 .. n |-> Swap(g[2 * i - 1] + Byte * g[2 * i])]
    BY <2>1, <2>2 DEF FromBus
  <2>4. \A i \in 1 .. n : /\ 2 * i - 1 \in 1 .. Len(g) /\ 2 * i \in 1 .. Len(g)
                          /\ (i - 1) * 2 + 1 = 2 * i - 1 /\ (i - 1) * 2 + 2 = 2 * i
    BY <2>2, SMTT(30)
  <2>5. ASSUME NEW i \in 1 .. n PROVE s[i] = <<g[2 * i - 1], g[2 * i]>>
    <3>1. g[2 * i - 1] \in ByteValues /\ g[2 * i] \in ByteValues
      BY <1>2, <2>1, <2>4 DEF BusValues
    <3>2. PICK x : x = Swap(g[2 * i - 1] + Byte * g[2 * i])  OBVIOUS
    <3>3. x \div Byte = g[2 * i - 1] /\ x % Byte = g[2 * i]  BY <3>1, <3>2, LowFirst
    <3>4. s[i] = OnBus(x, 16)  BY <1>1, <2>1, <2>3, <3>2
    <3> QED
      BY <2>1, <3>3, <3>4 DEF OnBus
  <2>6. \A i \in 1 .. n : <<g[2 * i - 1], g[2 * i]>> \in Seq(BusValues)
    <3>1. \A a, b \in BusValues : <<a, b>> \in Seq(BusValues)  OBVIOUS
    <3> QED
      BY <1>2, <2>4, <3>1
  <2>7. s \in Seq(Seq(BusValues)) /\ Len(s) = n
    <3>1. s = [i \in 1 .. n |-> s[i]]  BY <1>1
    <3> HIDE DEF s
    <3>2. \A i \in 1 .. n : s[i] \in Seq(BusValues)  BY <2>5, <2>6
    <3> QED
      BY <3>1, <3>2, Listed
  <2> HIDE DEF s
  <2>8. \A i \in 1 .. Len(s) : Len(s[i]) = 2 /\ s[i][1] = g[2 * i - 1] /\ s[i][2] = g[2 * i]
    <3> SUFFICES ASSUME NEW i \in 1 .. n
                 PROVE  Len(s[i]) = 2 /\ s[i][1] = g[2 * i - 1] /\ s[i][2] = g[2 * i]
      BY <2>7
    <3>1. PICK a, b : a = g[2 * i - 1] /\ b = g[2 * i] /\ s[i] = <<a, b>>  BY <2>5, ZenonT(30)
    <3> QED
      BY <3>1
  <2>9. /\ FlattenSeq(s) \in Seq(BusValues) /\ Len(FlattenSeq(s)) = Len(s) * 2
        /\ \A i \in 1 .. Len(s) : \A k \in 1 .. 2 : FlattenSeq(s)[(i - 1) * 2 + k] = s[i][k]
    <3>1. PICK b \in Nat : b = 2  OBVIOUS
    <3>2. \A i \in 1 .. Len(s) : Len(s[i]) = b  BY <2>8, <3>1
    <3>3. /\ FlattenSeq(s) \in Seq(BusValues) /\ Len(FlattenSeq(s)) = Len(s) * b
          /\ \A i \in 1 .. Len(s) : \A k \in 1 .. b : FlattenSeq(s)[(i - 1) * b + k] = s[i][k]
      BY <2>7, <3>2, FlattenBlocks, ZenonT(30)
    <3> QED
      BY <3>1, <3>3
  <2>10. ASSUME NEW i \in 1 .. 2 * n PROVE FlattenSeq(s)[i] = g[i]
    <3>1. PICK q \in 1 .. n : i = 2 * q - 1 \/ i = 2 * q  BY Halves
    <3>2. 1 \in 1 .. 2 /\ 2 \in 1 .. 2  OBVIOUS
    <3>3. FlattenSeq(s)[(q - 1) * 2 + 1] = s[q][1] /\ FlattenSeq(s)[(q - 1) * 2 + 2] = s[q][2]
      BY <2>7, <2>9, <3>2
    <3> QED
      BY <2>4, <2>7, <2>8, <3>1, <3>3
  <2>11. Len(FlattenSeq(s)) = 2 * n  BY <2>7, <2>9
  <2>12. FlattenSeq(s) = g
    <3>1. PICK f \in Seq(BusValues) : f = FlattenSeq(s)  BY <2>9
    <3>2. Len(f) = Len(g) /\ \A i \in 1 .. Len(f) : f[i] = g[i]  BY <2>2, <2>10, <2>11, <3>1
    <3> QED
      BY <3>1, <3>2, SeqEqual
  <2> QED
    BY <2>12 DEF s
<1>4. CASE PerWord(j) = 1
  <2>1. Direct(j) /\ ~(BusWidth = 8 /\ j.width = 16)  BY <1>4 DEF PerWord, Direct, Refused
  <2>2. FromBus(j, g) = g  BY <2>1 DEF FromBus
  <2>3. Len(g) = n * 1 /\ Len(g) = n  BY <1>1, <1>4
  <2>4. \A i \in 1 .. n : s[i] = <<g[i]>>  BY <1>1, <2>1, <2>2 DEF OnBus
  <2>5. \A i \in 1 .. n : <<g[i]>> \in Seq(BusValues)  BY <1>2, <2>3
  <2>6. s \in Seq(Seq(BusValues)) /\ Len(s) = n
    <3>1. s = [i \in 1 .. n |-> s[i]]  BY <1>1
    <3> HIDE DEF s
    <3>2. \A i \in 1 .. n : s[i] \in Seq(BusValues)  BY <2>4, <2>5
    <3> QED
      BY <3>1, <3>2, Listed
  <2> HIDE DEF s
  <2>7. \A i \in 1 .. Len(s) : Len(s[i]) = 1 /\ s[i][1] = g[i]
    <3>1. \A a : Len(<<a>>) = 1 /\ <<a>>[1] = a  OBVIOUS
    <3> QED
      BY <2>4, <2>6, <3>1, Zenon
  <2>8. /\ FlattenSeq(s) \in Seq(BusValues) /\ Len(FlattenSeq(s)) = Len(s) * 1
        /\ \A i \in 1 .. Len(s) : \A k \in 1 .. 1 : FlattenSeq(s)[(i - 1) * 1 + k] = s[i][k]
    <3>1. 1 \in Nat /\ \A i \in 1 .. Len(s) : Len(s[i]) = 1  BY <2>7
    <3> QED
      BY <2>6, <3>1, FlattenBlocks, ZenonT(90)
  <2>9. ASSUME NEW i \in 1 .. n PROVE FlattenSeq(s)[i] = g[i]
    <3>1. 1 \in 1 .. 1 /\ (i - 1) * 1 + 1 = i  BY <1>1
    <3>2. FlattenSeq(s)[(i - 1) * 1 + 1] = s[i][1]  BY <2>6, <2>8, <3>1
    <3> QED
      BY <2>6, <2>7, <3>1, <3>2
  <2>10. Len(FlattenSeq(s)) = n  BY <2>6, <2>8
  <2>11. FlattenSeq(s) = g
    <3>1. PICK f \in Seq(BusValues) : f = FlattenSeq(s)  BY <2>8
    <3>2. Len(f) = Len(g) /\ \A i \in 1 .. Len(f) : f[i] = g[i]  BY <2>3, <2>9, <2>10, <3>1
    <3> QED
      BY <3>1, <3>2, SeqEqual
  <2> QED
    BY <2>11 DEF s
<1> QED
  BY <1>3, <1>4 DEF PerWord

\* lcdreg_i80_read: a read that returns success got what the chip told, in the chip's
\* order, and its pins were inputs for every word, if no other chip answers there too.
THEOREM ReadAnswered == AddressesApart /\ Spec => []Answered
<1>1. IInv /\ Moved /\ AddressesApart => Answered
  <2> SUFFICES ASSUME IInv, Moved, AddressesApart, NEW t \in Threads,
                      pc[t] = "close", ret[t] = "ok", job[t].op = "read", ~Misread
               PROVE  /\ None \notin {got[i] : i \in DOMAIN got}
                      /\ FlattenSeq([i \in DOMAIN job[t].data |->
                                       OnBus(FromBus(job[t], got)[i], job[t].width)]) = told
    BY DEF Answered
  <2>1. job[t] \in Jobs /\ ~Refused(job[t]) /\ job[t].data # <<>> /\ InAccess(t)
    BY BusAssumption DEF IInv, Moved, Types, Progress, InAccess
  <2>2. /\ told \in Seq(BusValues) /\ got \in Seq(BusValues \cup {None}) /\ Len(got) = Len(told)
        /\ Len(got) = Len(job[t].data) * PerWord(job[t])
        /\ \A i \in 1 .. Len(got) : got[i] = told[i] \/ (got[i] = None /\ pinsDir # "in")
        /\ got # <<>> => direction = "in"
    BY <2>1 DEF Moved, Reading
  <2>3. got # <<>> => pinsDir = "in"
    BY <2>2 DEF Moved, Pins, Misread
  <2>4. \A i \in 1 .. Len(got) : got[i] = told[i]
    <3>1. got = <<>> => Len(got) = 0  OBVIOUS
    <3> QED
      BY <2>2, <2>3, <3>1
  <2>5. told \in Seq(BusValues \cup {None})
    <3>1. told \in Seq(BusValues) /\ Len(told) \in Nat  BY <2>2
    <3>2. told = [i \in 1 .. Len(told) |-> told[i]]  BY <3>1
    <3>3. \A i \in 1 .. Len(told) : told[i] \in BusValues  BY <3>1, ElementOfSeq
    <3> QED
      BY <3>1, <3>2, <3>3, Listed
  <2>6. got = told  BY <2>2, <2>4, <2>5, SeqEqual
  <2>7. None \notin {told[i] : i \in DOMAIN told}
    <3>1. \A i \in DOMAIN told : told[i] \in BusValues  BY <2>2
    <3>2. None \notin BusValues
      <4>1. PICK d \in Nat : d = Byte  BY BusAssumption
      <4>2. d * d \in Nat  OBVIOUS
      <4>3. BusValues \subseteq Nat  BY <4>1, <4>2 DEF BusValues, ByteValues, WordValues
      <4> QED
        BY <4>3, BusAssumption
    <3> QED
      BY <3>1, <3>2
  <2>8. PICK j \in Jobs : j = job[t]  BY <2>1
  <2>9. Len(told) = Len(j.data) * PerWord(j) /\ ~Refused(j) /\ j.data # <<>>
    BY <2>1, <2>2, <2>6, <2>8
  <2>10. FlattenSeq([i \in DOMAIN j.data |-> OnBus(FromBus(j, told)[i], j.width)]) = told
    BY <2>2, <2>9, PutBack
  <2> QED
    BY <2>6, <2>7, <2>8, <2>10
<1> QED BY IndInv, IndMoved, StaysApart, <1>1, PTL

-----------------------------------------------------------------------------
(* What liveness rests on: whoever has the bus is in an access, and an access *)
(* has a place in an order without endless descent.                           *)

\* Thread t has a step it need not wait for: the guards of Open and Step.
CanGo(t) == pc[t] \in {"address", "direction", "word", "close"} \/ (pc[t] = "open" /\ busLock = None)

\* The users of the bus never all wait for bus_lock: whoever holds it is in an access,
\* whatever failed there, and lets it go.
NotStuck == (\E t \in Threads : pc[t] # "idle") => \E t \in Threads : CanGo(t)

\* Deadlock freedom: while any thread is in an access, some thread has a step it need
\* not wait for, whatever pins and allocations failed before.
THEOREM NeverStuck == Spec => []NotStuck
<1>1. ASSUME IInv PROVE NotStuck
  <2> SUFFICES ASSUME NEW t \in Threads, pc[t] # "idle" PROVE \E u \in Threads : CanGo(u)
    BY DEF NotStuck
  <2>1. pc[t] \in {"idle", "open", "address", "direction", "word", "close"}
        /\ busLock \in Threads \cup {None}
    BY <1>1 DEF IInv, Types
  <2>2. CASE busLock = None
    <3>1. CanGo(t)  BY <2>1, <2>2 DEF CanGo
    <3> QED
      BY <3>1
  <2>3. CASE busLock # None
    <3>1. busLock \in Threads /\ InAccess(busLock)  BY <1>1, <2>1, <2>3 DEF IInv, Locked
    <3>2. CanGo(busLock)  BY <3>1 DEF CanGo, InAccess
    <3> QED
      BY <3>1, <3>2
  <2> QED
    BY <2>2, <2>3
<1> QED
  BY <1>1, IndInv, PTL

\* How far t is from the end of its access: the calls that follow this one, the phases
\* that follow this one in it, and the words it still moves.
Distance(t) ==
  IF pc[t] = "idle" THEN <<0, 0, 0>>
  ELSE <<Len(Calls(job[t])) - call[t],
         CASE pc[t] = "open"      -> 5
           [] pc[t] = "address"   -> 4
           [] pc[t] = "direction" -> 3
           [] pc[t] = "word"      -> 2
           [] pc[t] = "close"     -> 1,
         Len(Call(t).words) - sent[t]>>

\* The order of the dictionary.
Closer(d, e) ==
  \/ d[1] < e[1]
  \/ d[1] = e[1] /\ d[2] < e[2]
  \/ d[1] = e[1] /\ d[2] = e[2] /\ d[3] < e[3]

\* An access can not go round in circles, however many words and chunks it has: every
\* step of its thread, also one at which a pin or an allocation fails, takes it nearer
\* the end in an order that has no endless descent, and no other thread takes it back.
NearerEnd ==
  [][\A t \in Threads : pc[t] # "idle" =>
       /\ Distance(t)' \in Nat \X Nat \X Nat
       /\ IF Open(t) \/ Step(t) THEN Closer(Distance(t)', Distance(t))
          ELSE Distance(t)' = Distance(t)]_vars

\* The phases of a call, counted from the end.
Phase(p) == CASE p = "open"      -> 5
              [] p = "address"   -> 4
              [] p = "direction" -> 3
              [] p = "word"      -> 2
              [] p = "close"     -> 1

Pcs == {"idle", "open", "address", "direction", "word", "close"}

\* A place in the order.
LEMMA DistanceIs ==
  ASSUME IInv, Progress, NEW t \in Threads
  PROVE  /\ Distance(t) \in Nat \X Nat \X Nat
         /\ pc[t] = "idle" => Distance(t) = <<0, 0, 0>>
         /\ pc[t] # "idle" =>
              Distance(t) = <<Len(Calls(job[t])) - call[t], Phase(pc[t]),
                              Len(Calls(job[t])[call[t]].words) - sent[t]>>
<1>1. pc[t] \in Pcs  BY DEF IInv, Types, Pcs
<1>2. PICK n \in Nat : n = Len(Calls(job[t])) /\ call[t] \in 1 .. n
  BY CallIs, CallsFacts DEF IInv
<1>3. PICK w \in Nat : w = Len(Calls(job[t])[call[t]].words) /\ sent[t] \in 0 .. w
                       /\ w = Len(Call(t).words)
  BY CallIs DEF IInv, Progress
<1>4. n - call[t] \in Nat /\ w - sent[t] \in Nat  BY <1>2, <1>3
<1>5. pc[t] # "idle" => Distance(t) = <<n - call[t], Phase(pc[t]), w - sent[t]>>
  BY <1>2, <1>3, Zenon DEF Distance, Phase
<1>6. pc[t] # "idle" => Phase(pc[t]) \in Nat  BY <1>1 DEF Pcs, Phase
<1>7. pc[t] = "idle" => Distance(t) = <<0, 0, 0>>  BY DEF Distance
<1> QED
  BY <1>2, <1>3, <1>4, <1>5, <1>6, <1>7

\* How a step moves its own thread.
LEMMA OwnMove ==
  ASSUME IInv, Progress, NEW t \in Threads, Open(t) \/ Step(t)
  PROVE  /\ pc[t] # "idle"
         /\ \/ /\ job'[t] = job[t] /\ call'[t] = call[t] /\ sent'[t] = sent[t]
               /\ \/ pc[t] = "open" /\ pc'[t] = "address"
                  \/ pc[t] = "address" /\ pc'[t] \in {"direction", "close"}
                  \/ pc[t] = "direction" /\ pc'[t] \in {"word", "close"}
                  \/ pc[t] = "word" /\ pc'[t] = "close"
            \/ /\ job'[t] = job[t] /\ call'[t] = call[t] /\ pc[t] = "word" /\ pc'[t] = "word"
               /\ sent'[t] = sent[t] + 1
            \/ /\ job'[t] = job[t] /\ pc[t] = "word"
               /\ \/ call'[t] = call[t] + 1 /\ pc'[t] = "address"
                  \/ call'[t] = call[t] /\ pc'[t] = "close"
            \/ pc[t] = "close" /\ pc'[t] = "idle"
<1>1. pc \in [Threads -> Pcs] /\ call \in [Threads -> Nat] /\ sent \in [Threads -> Nat]
  BY DEF IInv, Types, Progress, Pcs
<1> USE <1>1 DEF Pcs
<1>2. CASE Open(t)  BY <1>2 DEF Open
<1>3. CASE SelectChip(t)  BY <1>3 DEF SelectChip
<1>4. CASE Direction(t)  BY <1>4 DEF Direction
<1>5. CASE DirectionFails(t)  BY <1>5 DEF DirectionFails
<1>6. CASE WriteWord(t) \/ ReadWord(t)  BY <1>6 DEF WriteWord, ReadWord
<1>7. CASE BufferFails(t)  BY <1>7 DEF BufferFails
<1>8. CASE EndCall(t)
  <2>1. /\ pc[t] = "word" /\ job' = job
        /\ \/ call' = [call EXCEPT ![t] = call[t] + 1] /\ pc' = [pc EXCEPT ![t] = "address"]
           \/ call' = call /\ pc' = [pc EXCEPT ![t] = "close"]
    BY <1>8, Zenon DEF EndCall
  <2> QED
    BY <2>1
<1>9. CASE Close(t)  BY <1>9 DEF Close
<1> QED
  BY <1>2, <1>3, <1>4, <1>5, <1>6, <1>7, <1>8, <1>9 DEF Step

\* A step of its own takes a thread nearer the end.
LEMMA OwnStepCloser ==
  ASSUME IInv, Progress, NEW t \in Threads, Open(t) \/ Step(t)
  PROVE  Closer(Distance(t)', Distance(t))
<1> DEFINE words(j, c) == Len(Calls(j)[c].words)
           left(j, c) == Len(Calls(j)) - c
<1>1. /\ Distance(t) = <<left(job[t], call[t]), Phase(pc[t]), words(job[t], call[t]) - sent[t]>>
      /\ Distance(t) \in Nat \X Nat \X Nat
  BY OwnMove, DistanceIs
<1>2. /\ pc'[t] = "idle" => Distance(t)' = <<0, 0, 0>>
      /\ pc'[t] # "idle" =>
           Distance(t)' = <<left(job'[t], call'[t]), Phase(pc'[t]),
                            words(job'[t], call'[t]) - sent'[t]>>
  BY DEF Distance, Phase, Call
<1>3. PICK n \in Nat : n = Len(Calls(job[t])) /\ call[t] \in 1 .. n
  BY CallIs, CallsFacts DEF IInv
<1>4. PICK w \in Nat : w = words(job[t], call[t]) /\ sent[t] \in 0 .. w
  <2>1. Len(Call(t).words) \in Nat /\ Call(t) = Calls(job[t])[call[t]]  BY CallIs DEF IInv
  <2>2. sent[t] \in 0 .. Len(Call(t).words)  BY DEF Progress
  <2> QED
    BY <2>1, <2>2
<1>5. Distance(t) = <<n - call[t], Phase(pc[t]), w - sent[t]>>  BY <1>1, <1>3, <1>4
<1> HIDE DEF words, left
<1>6. CASE pc[t] = "close" /\ pc'[t] = "idle"
  <2>1. Distance(t)' = <<0, 0, 0>> /\ Phase(pc[t]) = 1  BY <1>2, <1>6 DEF Phase
  <2>2. 0 < n - call[t] \/ 0 = n - call[t]  BY <1>3
  <2> QED
    BY <1>5, <2>1, <2>2 DEF Closer
<1>7. CASE /\ job'[t] = job[t] /\ pc[t] = "word" /\ pc'[t] = "address"
           /\ call'[t] = call[t] + 1
  <2>1. left(job'[t], call'[t]) = n - (call[t] + 1)  BY <1>3, <1>7 DEF left
  <2>2. n - (call[t] + 1) < n - call[t]  BY <1>3
  <2>3. Distance(t)'[1] = n - (call[t] + 1)  BY <1>2, <1>7, <2>1
  <2> QED
    BY <1>5, <2>2, <2>3 DEF Closer
<1>8. CASE /\ job'[t] = job[t] /\ call'[t] = call[t] /\ sent'[t] = sent[t] + 1
           /\ pc[t] = "word" /\ pc'[t] = "word"
  <2>1. /\ left(job'[t], call'[t]) = n - call[t]
        /\ words(job'[t], call'[t]) = w
    BY <1>3, <1>4, <1>8 DEF left, words
  <2>2. w - (sent[t] + 1) < w - sent[t]  BY <1>4
  <2>3. Distance(t)' = <<n - call[t], Phase(pc[t]), w - (sent[t] + 1)>>
    BY <1>2, <1>8, <2>1
  <2> QED
    BY <1>5, <2>2, <2>3 DEF Closer
<1>9. CASE /\ job'[t] = job[t] /\ call'[t] = call[t]
           /\ \/ pc[t] = "open" /\ pc'[t] = "address"
              \/ pc[t] = "address" /\ pc'[t] \in {"direction", "close"}
              \/ pc[t] = "direction" /\ pc'[t] \in {"word", "close"}
              \/ pc[t] = "word" /\ pc'[t] = "close"
  <2>1. left(job'[t], call'[t]) = n - call[t]  BY <1>3, <1>9 DEF left
  <2>2. pc'[t] # "idle" /\ Phase(pc'[t]) < Phase(pc[t])  BY <1>9 DEF Phase
  <2>3. Distance(t)'[1] = n - call[t] /\ Distance(t)'[2] = Phase(pc'[t])
    BY <1>2, <2>1, <2>2
  <2> QED
    BY <1>5, <2>2, <2>3 DEF Closer
<1> QED
  BY <1>6, <1>7, <1>8, <1>9, OwnMove

\* No step moves another thread.
LEMMA OthersStay ==
  ASSUME IInv, Progress, NEW t \in Threads, NEW u \in Threads, u # t,
         Open(t) \/ Step(t) \/ \E j \in Jobs : Begin(t, j)
  PROVE  Distance(u)' = Distance(u)
<1>1. /\ pc \in [Threads -> Pcs] /\ call \in [Threads -> Nat] /\ sent \in [Threads -> Nat]
      /\ job \in [Threads -> Jobs]
  BY DEF IInv, Types, Progress, Pcs
<1>2. pc'[u] = pc[u] /\ job'[u] = job[u] /\ call'[u] = call[u] /\ sent'[u] = sent[u]
  <2>1. CASE Open(t)  BY <1>1, <2>1 DEF Open
  <2>2. CASE SelectChip(t)  BY <1>1, <2>2 DEF SelectChip
  <2>3. CASE Direction(t) \/ DirectionFails(t)  BY <1>1, <2>3 DEF Direction, DirectionFails
  <2>4. CASE WriteWord(t) \/ ReadWord(t)  BY <1>1, <2>4 DEF WriteWord, ReadWord
  <2>5. CASE BufferFails(t)  BY <1>1, <2>5 DEF BufferFails
  <2>6. CASE EndCall(t)
    <3>1. /\ job' = job /\ sent' = [sent EXCEPT ![t] = 0]
          /\ \/ call' = [call EXCEPT ![t] = call[t] + 1] /\ pc' = [pc EXCEPT ![t] = "address"]
             \/ call' = call /\ pc' = [pc EXCEPT ![t] = "close"]
      BY <2>6, Zenon DEF EndCall
    <3> QED
      BY <1>1, <3>1
  <2>7. CASE Close(t)  BY <1>1, <2>7 DEF Close
  <2>8. CASE \E j \in Jobs : Begin(t, j)  BY <1>1, <2>8 DEF Begin
  <2> QED
    BY <2>1, <2>2, <2>3, <2>4, <2>5, <2>6, <2>7, <2>8 DEF Step
<1> QED
  BY <1>2 DEF Distance, Call

\* An access can not go round in circles: every step of its thread, also one at which a
\* pin or an allocation fails, takes it nearer the end, and no other thread takes it back.
THEOREM AlwaysNearer == Spec => NearerEnd
<1> DEFINE Placed == \A t \in Threads : Distance(t) \in Nat \X Nat \X Nat
           Nearer == \A t \in Threads : pc[t] # "idle" =>
                       /\ Distance(t)' \in Nat \X Nat \X Nat
                       /\ IF Open(t) \/ Step(t) THEN Closer(Distance(t)', Distance(t))
                          ELSE Distance(t)' = Distance(t)
<1>1. IInv /\ Moved => Placed
  BY DistanceIs DEF Moved
<1>2. IInv /\ Moved /\ Placed' /\ [Next]_vars => [Nearer]_vars
  <2> SUFFICES ASSUME IInv, Progress, Placed', Next, NEW t \in Threads, pc[t] # "idle"
               PROVE  IF Open(t) \/ Step(t) THEN Closer(Distance(t)', Distance(t))
                      ELSE Distance(t)' = Distance(t)
    BY DEF Moved
  <2>1. CASE Open(t) \/ Step(t)  BY <2>1, OwnStepCloser
  <2>2. CASE ~(Open(t) \/ Step(t))
    <3>1. PICK u \in Threads : Open(u) \/ Step(u) \/ \E j \in Jobs : Begin(u, j)
      BY DEF Next
    <3>2. u # t  BY <2>2, <3>1 DEF Begin
    <3> QED
      BY <2>2, <3>1, <3>2, OthersStay
  <2> QED
    BY <2>1, <2>2
<1> QED
  BY <1>1, <1>2, IndInv, IndMoved, PTL DEF Spec, NearerEnd
=============================================================================
