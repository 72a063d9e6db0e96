--------------------------- MODULE LifecycleProofs ---------------------------
(***************************************************************************)
(* Proofs about Lifecycle, for every set of drivers, any number of probes  *)
(* and any failure.  The invariant says of each stage which resources are  *)
(* held, who may be using them, what the supply's use count should be and  *)
(* how the backlight stands.  Unwinding draws nearer its end, whatever the *)
(* users do meanwhile.                                                     *)
(***************************************************************************)
EXTENDS Lifecycle, SequenceTheorems, TLAPS

N == Len(held)

\* How many resources a registered display holds: the backlight of its own is missing
\* where it could not be registered.
Full == IF OwnLight(panel) /\ ~lighted THEN 7 ELSE 8
Probing == {"power", "format", "rotate", "first", "register"}
Going == {"mode", "attach", "light", "bound"}
Ending == {"cleanup", "dark", "off"}

Kinds ==
  /\ panel \in Panels /\ initialized \in BOOLEAN /\ lighted \in BOOLEAN
  /\ stage \in Stages
  /\ probes \in 0 .. MaxProbes
  /\ enables \in Int /\ imbalance \in Int
  /\ chip \in {"unknown", "reset", "partial", "ready"}
  /\ registered \in BOOLEAN /\ open \in BOOLEAN /\ orphan \in BOOLEAN
  /\ queued \in BOOLEAN /\ working \in BOOLEAN
  /\ onFor \in BOOLEAN /\ bright \in BOOLEAN /\ off \in BOOLEAN /\ lit \in BOOLEAN
  /\ blanked \in BOOLEAN /\ early \in BOOLEAN

\* The resources held are the first ones of the panel, in order, and then "fb".
Listed(s, p, k) ==
  /\ s \in Seq(ResourceNames)
  /\ Len(s) <= k
  /\ \A i \in 1 .. Len(s) : s[i] = IF i < k THEN Resources(p)[i] ELSE "fb"

Shape ==
  /\ Listed(held, panel, Full)
  /\ N \in 0 .. Full
  /\ stage = "unbound" => N = 0
  /\ stage = "acquire" => N <= 6 /\ (OwnLight(panel) => ~lighted)
  /\ stage \in Probing => N + 1 = Full
  /\ stage \in Going \cup Ending => N = Full

\* Who can be using the frame buffer when.
Users ==
  /\ registered => N = Full /\ stage \in Going \cup {"unwind"}
  /\ N = Full /\ stage = "unwind" => registered
  /\ stage \in Going => registered
  /\ open => registered \/ orphan
  /\ orphan => ~registered /\ stage \in {"unwind", "unbound"}
  /\ (queued \/ working) /\ ~orphan => N = Full
  /\ stage \in {"dark", "off"} => ~queued /\ ~working

\* The steps of poweron: how many there are, and which one is next.
Steps == Len(poweron(panel))
Step == poweron(panel)[pos]

\* Whether the driver is to have its supply turned on.
On == /\ ~initialized /\ HasSupply(panel)
      /\ \/ stage = "power" /\ pos > 1
         \/ stage \in Probing \ {"power"}
         \/ N = Full

Power ==
  /\ initialized => HasSupply(panel)
  /\ stage \in {"power", "format", "rotate", "first"} => ~initialized
  /\ pos \in 0 .. 4
  /\ stage = "power" => pos \in 1 .. Steps
  /\ ~initialized => imbalance >= 0
  /\ ~orphan => enables = imbalance + (IF On THEN 1 ELSE 0)
  /\ ~initialized /\ ~orphan /\ (stage \in Probing \ {"power"} \/ N = Full) =>
       chip \in {"ready", "partial"}

\* The backlight is used as often as it is on, and how it stands, unless it was blanked
\* too early.
Lights ==
  /\ useCount = IF onFor THEN 1 ELSE 0
  /\ stage \in {"attach", "light"} => lighted
  /\ ~early /\ stage \in {"acquire", "mode", "attach"} \cup Probing => ~blanked
  /\ ~early /\ lighted /\ stage \in {"light", "bound"} =>
       bright /\ (onFor <=> ~blanked) /\ (off <=> blanked)
  /\ ~early /\ lighted /\ stage = "bound" => (lit <=> ~off)

IInv == Kinds /\ Shape /\ Users /\ Power /\ Lights

USE DEF Probing, Going, Ending

-----------------------------------------------------------------------------
\* A poweron sequence has 3 or 4 steps; it turns the supply on first, if there is one,
\* and writes last.
LEMMA PoweronSteps ==
  ASSUME NEW p \in AllPanels
  PROVE  /\ Len(poweron(p)) \in {3, 4}
         /\ \A i \in 1 .. Len(poweron(p)) :
              /\ poweron(p)[i] \in {"enable", "reset", "check", "write"}
              /\ poweron(p)[i] = "enable" <=> i = 1 /\ HasSupply(p)
              /\ i = Len(poweron(p)) <=> poweron(p)[i] = "write"
BY DEF AllPanels, poweron, mi0283qt_poweron, adafruit13_poweron, itdb02_28_poweron, hy28a_poweron,
       sainsmart18_poweron, adafruit797_poweron, ebay181283191283_poweron, HasSupply

LEMMA ResourcesOf ==
  ASSUME NEW p
  PROVE  /\ Resources(p) \in Seq(ResourceNames) /\ Len(Resources(p)) = 7
         /\ \A i \in 1 .. 7 : Resources(p)[i] \in ResourceNames \ {"fb"}
         /\ \A i \in 1 .. 7 : Resources(p)[i] = "light" <=> i = 7 /\ OwnLight(p)
BY DEF Resources, ResourceNames

LEMMA NothingListed == \A p : \A k \in Nat : Listed(<<>>, p, k)
BY DEF Listed

\* What a probe acquires next, the frame buffer last, is appended to what it holds.
LEMMA Grown ==
  ASSUME NEW s, NEW p, NEW k \in {7, 8}, Listed(s, p, k), Len(s) < k, NEW r \in ResourceNames,
         r = IF Len(s) + 1 < k THEN Resources(p)[Len(s) + 1] ELSE "fb"
  PROVE  Listed(Append(s, r), p, k) /\ Len(Append(s, r)) = Len(s) + 1
<1> DEFINE t == Append(s, r)
<1>1. s \in Seq(ResourceNames) /\ Len(s) \in Nat  BY DEF Listed
<1>2. /\ t \in Seq(ResourceNames) /\ Len(t) = Len(s) + 1
      /\ \A i \in 1 .. Len(s) : t[i] = s[i]
      /\ t[Len(s) + 1] = r
  BY <1>1, AppendProperties
<1> HIDE DEF t
<1>3. ASSUME NEW i \in 1 .. Len(t) PROVE t[i] = IF i < k THEN Resources(p)[i] ELSE "fb"
  <2>1. CASE i = Len(s) + 1  BY <2>1, <1>1, <1>2
  <2>2. CASE i \in 1 .. Len(s)  BY <2>2, <1>1, <1>2 DEF Listed
  <2> QED
    BY <2>1, <2>2, <1>1, <1>2
<1> QED
  BY <1>1, <1>2, <1>3 DEF t, Listed

\* Something is held.
LEMMA Counted ==
  ASSUME NEW s, NEW p, NEW k \in {7, 8}, Listed(s, p, k)
  PROVE  Len(s) >= 0 /\ Len(s) <= k /\ (s = <<>> <=> Len(s) = 0)
<1>1. s \in Seq(ResourceNames) /\ Len(s) <= k  BY DEF Listed
<1>2. Len(s) \in Nat  BY <1>1
<1>3. s = <<>> <=> Len(s) = 0  BY <1>1, EmptySeq
<1> QED
  BY <1>1, <1>2, <1>3

\* Before the backlight's turn it does not matter whether there will be one.
LEMMA EitherWay ==
  ASSUME NEW s, NEW p, NEW k \in {7, 8}, NEW l \in {7, 8}, Listed(s, p, k), Len(s) <= 6
  PROVE  Listed(s, p, l)
<1>1. s \in Seq(ResourceNames) /\ Len(s) \in Nat  BY DEF Listed
<1>2. \A i \in 1 .. Len(s) : s[i] = IF i < l THEN Resources(p)[i] ELSE "fb"
  BY <1>1 DEF Listed
<1> QED
  BY <1>1, <1>2 DEF Listed

\* A release takes the newest one.
LEMMA Shrunk ==
  ASSUME NEW s, NEW p, NEW k \in {7, 8}, Listed(s, p, k), Len(s) > 0
  PROVE  LET t == SubSeq(s, 1, Len(s) - 1)
         IN  Listed(t, p, k) /\ Len(t) = Len(s) - 1
<1> DEFINE t == SubSeq(s, 1, Len(s) - 1)
<1>1. s \in Seq(ResourceNames) /\ Len(s) >= 1 /\ Len(s) <= k  BY Counted DEF Listed
<1>2. \A i \in 1 .. Len(s) - 1 : s[i] \in ResourceNames  BY <1>1
<1>3. /\ t \in Seq(ResourceNames)
      /\ Len(t) = IF 1 <= Len(s) - 1 THEN Len(s) - 1 - 1 + 1 ELSE 0
      /\ \A i \in 1 .. Len(s) - 1 - 1 + 1 : t[i] = s[1 + i - 1]
  <2>1. Len(s) - 1 \in Int /\ 1 \in Int  BY <1>1
  <2> QED
    BY <2>1, <1>2, SubSeqProperties
<1> HIDE DEF t
<1>4. Len(t) = Len(s) - 1
  <2> DEFINE n == Len(s)
  <2>1. n \in Int /\ n >= 1 /\ Len(t) = IF 1 <= n - 1 THEN n - 1 - 1 + 1 ELSE 0  BY <1>1, <1>3
  <2> HIDE DEF n
  <2>2. Len(t) = n - 1  BY <2>1
  <2> QED
    BY <2>2 DEF n
<1>5. \A i \in 1 .. Len(t) : t[i] = s[i]
  <2>1. SUFFICES ASSUME NEW i \in 1 .. Len(t) PROVE t[i] = s[i]
    OBVIOUS
  <2>2. i \in Int /\ i >= 1 /\ i <= Len(s) - 1  BY <2>1, <1>4, <1>1
  <2>3. i \in 1 .. Len(s) - 1 - 1 + 1 /\ 1 + i - 1 = i  BY <2>2, <1>1
  <2> QED
    BY <2>3, <1>3
<1>6. Listed(t, p, k)  BY <1>1, <1>3, <1>4, <1>5 DEF Listed
<1> QED
  BY <1>4, <1>6 DEF t

\* It is the frame buffer exactly when all are held.
LEMMA NewestIs ==
  ASSUME NEW s, NEW p, NEW k \in {7, 8}, Listed(s, p, k), Len(s) > 0
  PROVE  s[Len(s)] = "fb" <=> Len(s) = k
<1> DEFINE n == Len(s)
<1>1. n \in Int /\ n >= 1 /\ n <= k  BY Counted
<1>2. s[n] = IF n < k THEN Resources(p)[n] ELSE "fb"  BY <1>1 DEF Listed
<1> HIDE DEF n
<1>3. n = k => s[n] = "fb"  BY <1>2
<1>4. ASSUME n < k PROVE s[n] # "fb"
  <2>0. n \in 1 .. 7  BY <1>1, <1>4
  <2>1. Resources(p)[n] # "fb"  BY <2>0, ResourcesOf
  <2>2. s[n] = Resources(p)[n]  BY <1>2, <1>4
  <2> QED
    BY <2>1, <2>2
<1>5. s[n] = "fb" <=> n = k  BY <1>1, <1>3, <1>4
<1> QED
  BY <1>5 DEF n

\* For the prover: FALSE is a Boolean.
LEMMA FalseIsBoolean == \A x : x = FALSE => x \in BOOLEAN
OBVIOUS

-----------------------------------------------------------------------------
(* How many resources are held, before and after a step: from here on a number *)
(* that the steps change.                                                     *)
LEMMA Holding == Listed(held, panel, Full) => N \in 0 .. Full /\ (held = <<>> <=> N = 0)
<1> SUFFICES ASSUME Listed(held, panel, Full) PROVE N \in 0 .. Full /\ (held = <<>> <=> N = 0)
  OBVIOUS
<1>1. PICK k \in {7, 8} : k = Full  BY DEF Full
<1>2. N \in Int /\ N >= 0 /\ N <= k /\ (held = <<>> <=> N = 0)  BY <1>1, Counted DEF N
<1> QED
  BY <1>1, <1>2

LEMMA Same == /\ held' = held => N' = N
              /\ UNCHANGED <<panel, lighted>> => Full' = Full
              /\ Full \in {7, 8} /\ Full' \in {7, 8}
BY DEF N, Full

\* The last resource of a panel is the seventh.
LEMMA LastOne == Len(held) + 1 < Len(Resources(panel)) <=> N + 1 < 7
BY ResourcesOf DEF N

LEMMA WantedIs == N \in 0 .. 6 => (Wanted = "light" <=> N = 6 /\ OwnLight(panel))
<1> SUFFICES ASSUME N \in 0 .. 6 PROVE Wanted = "light" <=> N = 6 /\ OwnLight(panel)
  OBVIOUS
<1>1. PICK n \in 0 .. 6 : n = N  OBVIOUS
<1>2. Resources(panel)[n + 1] = "light" <=> n + 1 = 7 /\ OwnLight(panel)  BY ResourcesOf
<1>3. Wanted = Resources(panel)[n + 1]  BY <1>1 DEF Wanted, N
<1> QED
  BY <1>1, <1>2, <1>3

LEMMA Acquiring ==
  ASSUME Listed(held, panel, Full), N \in 0 .. 6, panel' = panel, held' = Append(held, Wanted),
         N + 1 < Full'
  PROVE  Listed(held', panel', Full') /\ N' = N + 1
<1>1. PICK k \in {7, 8} : k = Full'  BY DEF Full
<1>2. PICK n \in 0 .. 6 : n = N  OBVIOUS
<1>3. Len(held) = n /\ n + 1 < k /\ n <= 6  BY <1>1, <1>2 DEF N
<1>4. Resources(panel)[n + 1] \in ResourceNames  BY ResourcesOf
<1>5. Wanted \in ResourceNames /\ Wanted = Resources(panel)[Len(held) + 1]
  BY <1>3, <1>4 DEF Wanted
<1>6. Listed(held, panel, k)
  <2>1. Full \in {7, 8}  BY DEF Full
  <2> QED
    BY <2>1, <1>3, EitherWay
<1>7. Listed(Append(held, Wanted), panel, k) /\ Len(Append(held, Wanted)) = Len(held) + 1
  BY <1>3, <1>5, <1>6, Grown
<1> QED
  BY <1>1, <1>2, <1>3, <1>7 DEF N

LEMMA Registering ==
  ASSUME Listed(held, panel, Full), N + 1 = Full, UNCHANGED <<panel, lighted>>,
         held' = Append(held, "fb")
  PROVE  Listed(held', panel', Full') /\ N' = Full'
<1> DEFINE r == "fb"
<1>1. r \in ResourceNames  BY DEF ResourceNames
<1>2. PICK k \in {7, 8} : k = Full /\ k = Full'  BY Same
<1>3. Len(held) + 1 = k  BY <1>2 DEF N
<1>4. Len(held) < k /\ r = IF Len(held) + 1 < k THEN Resources(panel)[Len(held) + 1] ELSE "fb"
  <2>1. Len(held) \in Nat  BY DEF Listed
  <2> QED
    BY <2>1, <1>3
<1>5. held' = Append(held, r)  OBVIOUS
<1> HIDE DEF r
<1>6. Listed(held', panel, k) /\ Len(held') = Len(held) + 1  BY <1>1, <1>2, <1>4, <1>5, Grown
<1> QED
  BY <1>2, <1>3, <1>6 DEF N

LEMMA Releasing ==
  ASSUME Listed(held, panel, Full), N \in 1 .. Full, UNCHANGED <<panel, lighted>>, held' = Rest
  PROVE  Listed(held', panel', Full') /\ N' = N - 1
<1>1. PICK k \in {7, 8} : k = Full /\ k = Full'  BY Same
<1>2. N > 0  BY <1>1
<1>3. Len(held) > 0  BY <1>2 DEF N
<1> QED
  BY <1>1, <1>3, Shrunk DEF Rest, N

LEMMA NewestFb ==
  ASSUME Listed(held, panel, Full), N \in 1 .. Full
  PROVE  Newest = "fb" <=> N = Full
<1>1. PICK k \in {7, 8} : k = Full  BY Same
<1>2. N > 0  BY <1>1
<1>3. Len(held) > 0  BY <1>2 DEF N
<1> QED
  BY <1>1, <1>3, NewestIs DEF Newest, N

LEMMA Initially == Init => IInv
<1> SUFFICES ASSUME Init PROVE IInv
  OBVIOUS
<1>1. Kinds
  <2>1. panel \in Panels /\ initialized \in BOOLEAN /\ lighted \in BOOLEAN  BY DEF Init
  <2>2. stage \in Stages /\ probes \in 0 .. MaxProbes /\ enables \in Int /\ imbalance \in Int
    BY LifeAssumption DEF Init, Stages
  <2>3. chip \in {"unknown", "reset", "partial", "ready"}  BY DEF Init
  <2>4. registered \in BOOLEAN /\ open \in BOOLEAN /\ orphan \in BOOLEAN  BY DEF Init
  <2>5. queued \in BOOLEAN /\ working \in BOOLEAN /\ blanked \in BOOLEAN /\ early \in BOOLEAN
    BY DEF Init
  <2>6. onFor \in BOOLEAN /\ bright \in BOOLEAN /\ off \in BOOLEAN /\ lit \in BOOLEAN  BY DEF Init
  <2> QED
    BY <2>1, <2>2, <2>3, <2>4, <2>5, <2>6 DEF Kinds
<1>2. Shape  BY NothingListed, Holding, Same DEF Init, Shape
<1>3. Users  BY DEF Init, Users
<1>4. Power
  <2>1. N = 0 /\ Full \in {7, 8}  BY <1>2, Same DEF Shape, Init
  <2> QED
    BY <2>1 DEF Init, Power, On, HasSupply, OwnLight
<1>5. Lights  BY DEF Init, Lights
<1> QED
  BY <1>1, <1>2, <1>3, <1>4, <1>5 DEF IInv

-----------------------------------------------------------------------------
(* What a failure, an acquisition and a release change.                       *)
LEMMA FailOn == Fail(TRUE) => /\ stage' = "unwind"
                              /\ imbalance' = IF HasSupply(panel) /\ ~initialized
                                              THEN imbalance + 1 ELSE imbalance
BY DEF Fail

LEMMA FailOff == Fail(FALSE) => stage' = "unwind" /\ imbalance' = imbalance
BY DEF Fail

\* The same of the steps of the panel at hand.
LEMMA StepsOf ==
  ASSUME panel \in Panels
  PROVE  /\ Steps \in {3, 4}
         /\ panel' = panel => Steps' = Steps
         /\ pos \in 1 .. Steps => /\ Step = "enable" <=> pos = 1 /\ HasSupply(panel)
                                  /\ Step = "write" <=> pos = Steps
<1>1. panel \in AllPanels  BY LifeAssumption
<1>2. Steps \in {3, 4} /\ (panel' = panel => Steps' = Steps)  BY <1>1, PoweronSteps DEF Steps
<1>3. ASSUME pos \in 1 .. Steps
      PROVE  (Step = "enable" <=> pos = 1 /\ HasSupply(panel)) /\ (Step = "write" <=> pos = Steps)
  BY <1>1, <1>3, PoweronSteps DEF Steps, Step
<1> QED
  BY <1>2, <1>3

LEMMA PowerStepIs ==
  PowerStep => /\ stage = "power"
               /\ enables' = IF Step = "enable" THEN enables + 1 ELSE enables
               /\ Step = "write" => chip' \in {"ready", "partial"}
               /\ IF pos < Steps THEN pos' = pos + 1 /\ stage' = stage
                                 ELSE pos' = 0 /\ stage' = "format"
BY DEF PowerStep, Step, Steps

LEMMA PowerFailsIs ==
  PowerFails => /\ stage = "power" /\ stage' = "unwind" /\ pos' = 0
                /\ Step \in {"enable", "check"}
                /\ imbalance' = IF Step = "check" /\ HasSupply(panel) /\ ~initialized
                                THEN imbalance + 1 ELSE imbalance
                /\ enables' = enables
BY DEF PowerFails, Fail, Step

-----------------------------------------------------------------------------
(* The invariant is kept, part by part.                                       *)
\* What the steps of a probe make of what is held and what it should be.
LEMMA ProbeIs ==
  ASSUME Shape, Probe
  PROVE  /\ stage = "unbound" /\ stage' = "acquire" /\ N = 0 /\ N' = 0 /\ Full' \in {7, 8}
         /\ Listed(held', panel', Full') /\ (OwnLight(panel') => ~lighted')
<1>1. /\ stage = "unbound" /\ stage' = "acquire" /\ held' = held /\ panel' = panel
      /\ lighted' = (lighted /\ ~OwnLight(panel))
  BY DEF Probe
<1>2. N = 0 /\ N' = 0 /\ Listed(held, panel, Full)  BY <1>1, Same DEF Shape
<1>3. Full \in {7, 8} /\ Full' \in {7, 8}  BY Same
<1>4. Len(held) <= 6  BY <1>2 DEF N
<1>5. Listed(held', panel', Full')  BY <1>1, <1>2, <1>3, <1>4, EitherWay
<1> QED
  BY <1>1, <1>2, <1>3, <1>5

LEMMA AcquireIs ==
  ASSUME Kinds, Shape, Acquire
  PROVE  /\ stage = "acquire" /\ N' = N + 1 /\ Listed(held', panel', Full')
         /\ panel' = panel /\ initialized' = initialized
         /\ \/ /\ N < 6 /\ stage' = "acquire" /\ pos' = pos /\ lighted' = lighted
               /\ Full' = Full
            \/ /\ N = 6 /\ Full' = 8 /\ lighted' = (lighted \/ OwnLight(panel))
               /\ IF initialized THEN stage' = "register" /\ pos' = pos
                  ELSE stage' = "power" /\ pos' = 1
<1>1. /\ stage = "acquire" /\ held' = Append(held, Wanted) /\ panel' = panel
      /\ initialized' = initialized /\ lighted' = (lighted \/ Wanted = "light")
  BY DEF Acquire
<1>2. N \in 0 .. 6 /\ Full \in {7, 8} /\ Listed(held, panel, Full)
  BY <1>1, Same DEF Shape
<1>3. CASE N < 6
  <2>1. N + 1 < 7 /\ Wanted # "light"  BY <1>2, <1>3, WantedIs
  <2>2. stage' = "acquire" /\ pos' = pos  BY <1>1, <2>1, LastOne DEF Acquire
  <2>3. Full' = Full  BY <1>1, <2>1 DEF Full
  <2>4. Listed(held', panel', Full') /\ N' = N + 1  BY <1>1, <1>2, <2>1, <2>3, Acquiring
  <2>5. lighted' = lighted
    <3>1. lighted \in BOOLEAN  BY DEF Kinds
    <3> QED
      BY <1>1, <2>1, <3>1
  <2> QED
    BY <1>1, <1>3, <2>2, <2>3, <2>4, <2>5
<1>4. CASE N = 6
  <2>1. Wanted = "light" <=> OwnLight(panel)  BY <1>2, <1>4, WantedIs
  <2>2. ~(N + 1 < 7)  BY <1>4
  <2>3. IF initialized THEN stage' = "register" /\ pos' = pos ELSE stage' = "power" /\ pos' = 1
    BY <2>2, LastOne DEF Acquire
  <2>4. Full' = 8  BY <1>1, <2>1 DEF Full
  <2>5. N + 1 < Full'  BY <1>4, <2>4
  <2>6. Listed(held', panel', Full') /\ N' = N + 1  BY <1>1, <1>2, <2>5, Acquiring
  <2> QED
    BY <1>1, <1>4, <2>1, <2>3, <2>4, <2>6
<1> QED
  BY <1>2, <1>3, <1>4

LEMMA AcquireFailsIs ==
  ASSUME Shape, AcquireFails
  PROVE  /\ stage = "acquire" /\ stage' = "unwind" /\ imbalance' = imbalance
         /\ N' \in 0 .. 7 /\ N' < Full' /\ Full' = Full /\ Listed(held', panel', Full')
<1>1. /\ stage = "acquire" /\ UNCHANGED <<panel, lighted>> /\ Wanted # "light"
      /\ held' = held \/ held' = Append(held, Wanted)
  BY DEF AcquireFails, probeVars
<1>2. stage' = "unwind" /\ imbalance' = imbalance  BY FailOff DEF AcquireFails
<1>3. N \in 0 .. 6 /\ Full \in {7, 8} /\ Full' = Full /\ Listed(held, panel, Full)
  BY <1>1, Same DEF Shape
<1>4. N + 1 < Full
  <2>1. N = 6 => ~OwnLight(panel)  BY <1>1, <1>3, WantedIs
  <2>2. ~OwnLight(panel) => Full = 8  BY DEF Full
  <2> QED
    BY <2>1, <2>2, <1>3
<1>5. CASE held' = held
  BY <1>1, <1>2, <1>3, <1>4, <1>5, Same
<1>6. CASE held' = Append(held, Wanted)
  <2>1. Listed(held', panel', Full') /\ N' = N + 1
    BY <1>1, <1>3, <1>4, <1>6, Acquiring
  <2> QED
    BY <1>1, <1>2, <1>3, <1>4, <2>1
<1> QED
  BY <1>1, <1>5, <1>6

LEMMA NoLightIs ==
  ASSUME Shape, NoLight
  PROVE  /\ stage = "acquire" /\ stage' = "power" /\ pos' = 1 /\ held' = held
         /\ OwnLight(panel) /\ UNCHANGED <<panel, initialized, lighted>>
         /\ N = 6 /\ Full = 7 /\ Full' = Full /\ N' = N /\ Listed(held', panel', Full')
<1>1. /\ stage = "acquire" /\ stage' = "power" /\ pos' = 1 /\ held' = held
      /\ UNCHANGED <<panel, initialized, lighted>> /\ Wanted = "light"
  BY DEF NoLight, probeVars
<1>2. N \in 0 .. 6 /\ Listed(held, panel, Full) /\ (OwnLight(panel) => ~lighted)
  BY <1>1, Same DEF Shape
<1>3. N = 6 /\ OwnLight(panel)  BY <1>1, <1>2, WantedIs
<1>4. Full = 7  BY <1>2, <1>3 DEF Full
<1> QED
  BY <1>1, <1>2, <1>3, <1>4, Same

LEMMA KindsKept == IInv /\ [Next]_vars => Kinds'
<1> SUFFICES ASSUME IInv, [Next]_vars PROVE Kinds'
  OBVIOUS
<1> USE DEF IInv, Kinds, Stages, probeVars, powerVars, userVars, workVars, lightVars, blVars
<1>1. CASE Probe  BY <1>1, FalseIsBoolean, LifeAssumption DEF Probe
<1>2. CASE Acquire  BY <1>2 DEF Acquire, Wanted
<1>3. CASE AcquireFails  BY <1>3 DEF AcquireFails, Fail
<1>4. CASE PowerStep  BY <1>4 DEF PowerStep
<1>5. CASE PowerFails  BY <1>5 DEF PowerFails, Fail
<1>6. CASE Configure  BY <1>6 DEF Configure
<1>7. CASE ConfigureFails  BY <1>7 DEF ConfigureFails, Fail
<1>8. CASE Register  BY <1>8 DEF Register
<1>9. CASE RegisterFails  BY <1>9 DEF RegisterFails, Fail
<1>10. CASE AddMode  BY <1>10 DEF AddMode
<1>11. CASE AddModeFails  BY <1>11 DEF AddModeFails, Fail
<1>12. CASE Attach  BY <1>12 DEF Attach
<1>13. CASE Light  BY <1>13 DEF Light, UpdateStatus
<1>14. CASE Open  BY <1>14 DEF Open
<1>15. CASE Close  BY <1>15, FalseIsBoolean DEF Close
<1>16. CASE Draw  BY <1>16 DEF Draw
<1>17. CASE StartWork  BY <1>17, FalseIsBoolean DEF StartWork
<1>18. CASE EndWork  BY <1>18, FalseIsBoolean DEF EndWork
<1>19. ASSUME NEW on \in BOOLEAN, Blank(on) PROVE Kinds'  BY <1>19 DEF Blank, Notify, UpdateStatus
<1>20. CASE Unbind  BY <1>20 DEF Unbind
<1>21. CASE Release  BY <1>21, FalseIsBoolean DEF Release
<1>22. CASE Unregister  BY <1>22, FalseIsBoolean DEF Unregister
<1>23. CASE Unbound  BY <1>23 DEF Unbound
<1>24. CASE Cleanup  BY <1>24, FalseIsBoolean DEF Cleanup
<1>25. CASE Dark  BY <1>25, FalseIsBoolean DEF Dark, UpdateStatus
<1>26. CASE Off  BY <1>26 DEF Off
<1>27. CASE UNCHANGED vars  BY <1>27 DEF vars
<1>28. CASE NoLight  BY <1>28 DEF NoLight
<1> QED
  BY <1>1, <1>2, <1>3, <1>4, <1>5, <1>6, <1>7, <1>8, <1>9, <1>10, <1>11, <1>12, <1>13, <1>14,
     <1>15, <1>16, <1>17, <1>18, <1>19, <1>20, <1>21, <1>22, <1>23, <1>24, <1>25, <1>26, <1>27, <1>28
     DEF Next, ProbeStep, UnbindStep, UserStep

LEMMA ShapeKept == IInv /\ [Next]_vars => Shape'
<1> SUFFICES ASSUME IInv, [Next]_vars PROVE Shape'
  OBVIOUS
<1> USE DEF IInv, Kinds, Shape, Stages, probeVars, powerVars, userVars, workVars, lightVars, blVars
<1>1. CASE Probe
  <2>1. UNCHANGED <<panel, initialized, pos, powerVars, userVars, workVars>> /\ ~orphan
    BY <1>1 DEF Probe
  <2> QED
    BY <1>1, <2>1, ProbeIs, Same
<1>2. CASE Acquire
  BY <1>2, AcquireIs, Same DEF Acquire
<1>3. CASE AcquireFails
  <2>1. UNCHANGED <<probeVars, pos, enables, chip, userVars, workVars, lightVars>>
    BY <1>3 DEF AcquireFails
  <2> QED
    BY <1>3, <2>1, AcquireFailsIs, Same
<1>4. CASE PowerStep  BY <1>4, Same DEF PowerStep
<1>5. CASE PowerFails
  <2>1. stage' = "unwind"  BY <1>5, PowerFailsIs
  <2> QED
    BY <1>5, Same, <2>1 DEF PowerFails
<1>6. CASE Configure  BY <1>6, Same DEF Configure
<1>7. CASE ConfigureFails
  <2>1. Fail(TRUE)  BY <1>7 DEF ConfigureFails
  <2> QED
    BY <1>7, Same, <2>1, FailOn DEF ConfigureFails
<1>8. CASE Register  BY <1>8, Same, Registering DEF Register
<1>9. CASE RegisterFails
  <2>1. Fail(TRUE)  BY <1>9 DEF RegisterFails
  <2> QED
    BY <1>9, Same, <2>1, FailOn DEF RegisterFails
<1>10. CASE AddMode  BY <1>10, Same DEF AddMode
<1>11. CASE AddModeFails
  <2>1. stage' = "unwind" /\ imbalance' = imbalance  BY <1>11, FailOff DEF AddModeFails
  <2> QED
    BY <1>11, Same, <2>1 DEF AddModeFails
<1>12. CASE Attach  BY <1>12, Same DEF Attach
<1>13. CASE Light  BY <1>13, Same DEF Light, UpdateStatus
<1>14. CASE Open  BY <1>14, Same DEF Open
<1>15. CASE Close  BY <1>15, Same DEF Close
<1>16. CASE Draw  BY <1>16, Same DEF Draw
<1>17. CASE StartWork  BY <1>17, Same DEF StartWork
<1>18. CASE EndWork  BY <1>18, Same DEF EndWork
<1>19. ASSUME NEW on \in BOOLEAN, Blank(on) PROVE Shape'  BY <1>19, Same DEF Blank, Notify, UpdateStatus
<1>20. CASE Unbind  BY <1>20, Same DEF Unbind
<1>21. CASE Release  BY <1>21, Same, Holding, Releasing, NewestFb DEF Release
<1>22. CASE Unregister  BY <1>22, Same, Holding, Releasing, NewestFb DEF Unregister
<1>23. CASE Unbound  BY <1>23, Same, Holding DEF Unbound
<1>24. CASE Cleanup  BY <1>24, Same DEF Cleanup
<1>25. CASE Dark  BY <1>25, Same DEF Dark, UpdateStatus
<1>26. CASE Off  BY <1>26, Same, Releasing DEF Off
<1>27. CASE UNCHANGED vars  BY <1>27, Same DEF vars
<1>28. CASE NoLight  BY <1>28, NoLightIs, Same DEF NoLight
<1> QED
  BY <1>1, <1>2, <1>3, <1>4, <1>5, <1>6, <1>7, <1>8, <1>9, <1>10, <1>11, <1>12, <1>13, <1>14,
     <1>15, <1>16, <1>17, <1>18, <1>19, <1>20, <1>21, <1>22, <1>23, <1>24, <1>25, <1>26, <1>27, <1>28
     DEF Next, ProbeStep, UnbindStep, UserStep

LEMMA UsersKept == IInv /\ [Next]_vars => Users'
<1> SUFFICES ASSUME IInv, [Next]_vars PROVE Users'
  OBVIOUS
<1> USE DEF IInv, Kinds, Shape, Users, Stages, probeVars, powerVars, userVars, workVars, lightVars, blVars
<1>1. CASE Probe
  <2>1. UNCHANGED <<panel, initialized, pos, powerVars, userVars, workVars>> /\ ~orphan
    BY <1>1 DEF Probe
  <2> QED
    BY <1>1, <2>1, ProbeIs, Same
<1>2. CASE Acquire
  BY <1>2, AcquireIs, Same DEF Acquire
<1>3. CASE AcquireFails
  <2>1. UNCHANGED <<probeVars, pos, enables, chip, userVars, workVars, lightVars>>
    BY <1>3 DEF AcquireFails
  <2> QED
    BY <1>3, <2>1, AcquireFailsIs, Same
<1>4. CASE PowerStep  BY <1>4, Same DEF PowerStep
<1>5. CASE PowerFails
  <2>1. stage' = "unwind"  BY <1>5, PowerFailsIs
  <2> QED
    BY <1>5, Same, <2>1 DEF PowerFails
<1>6. CASE Configure  BY <1>6, Same DEF Configure
<1>7. CASE ConfigureFails
  <2>1. Fail(TRUE)  BY <1>7 DEF ConfigureFails
  <2> QED
    BY <1>7, Same, <2>1, FailOn DEF ConfigureFails
<1>8. CASE Register  BY <1>8, Same, Registering DEF Register
<1>9. CASE RegisterFails
  <2>1. Fail(TRUE)  BY <1>9 DEF RegisterFails
  <2> QED
    BY <1>9, Same, <2>1, FailOn DEF RegisterFails
<1>10. CASE AddMode  BY <1>10, Same DEF AddMode
<1>11. CASE AddModeFails
  <2>1. stage' = "unwind" /\ imbalance' = imbalance  BY <1>11, FailOff DEF AddModeFails
  <2> QED
    BY <1>11, Same, <2>1 DEF AddModeFails
<1>12. CASE Attach  BY <1>12, Same DEF Attach
<1>13. CASE Light  BY <1>13, Same DEF Light, UpdateStatus
<1>14. CASE Open  BY <1>14, Same DEF Open
<1>15. CASE Close  BY <1>15, Same DEF Close
<1>16. CASE Draw  BY <1>16, Same DEF Draw
<1>17. CASE StartWork  BY <1>17, Same DEF StartWork
<1>18. CASE EndWork  BY <1>18, Same DEF EndWork
<1>19. ASSUME NEW on \in BOOLEAN, Blank(on) PROVE Users'  BY <1>19, Same DEF Blank, Notify, UpdateStatus
<1>20. CASE Unbind  BY <1>20, Same DEF Unbind
<1>21. CASE Release  BY <1>21, Same, Holding, Releasing, NewestFb DEF Release
<1>22. CASE Unregister  BY <1>22, Same, Holding, Releasing, NewestFb DEF Unregister
<1>23. CASE Unbound  BY <1>23, Same, Holding DEF Unbound
<1>24. CASE Cleanup  BY <1>24, Same DEF Cleanup
<1>25. CASE Dark  BY <1>25, Same DEF Dark, UpdateStatus
<1>26. CASE Off  BY <1>26, Same, Releasing DEF Off
<1>27. CASE UNCHANGED vars  BY <1>27, Same DEF vars
<1>28. CASE NoLight  BY <1>28, NoLightIs, Same DEF NoLight
<1> QED
  BY <1>1, <1>2, <1>3, <1>4, <1>5, <1>6, <1>7, <1>8, <1>9, <1>10, <1>11, <1>12, <1>13, <1>14,
     <1>15, <1>16, <1>17, <1>18, <1>19, <1>20, <1>21, <1>22, <1>23, <1>24, <1>25, <1>26, <1>27, <1>28
     DEF Next, ProbeStep, UnbindStep, UserStep

LEMMA PowerKept == IInv /\ [Next]_vars => Power'
<1> SUFFICES ASSUME IInv, [Next]_vars PROVE Power'
  OBVIOUS
<1> USE DEF IInv, Kinds, Shape, Users, Power, On, HasSupply, Stages, probeVars, powerVars, userVars, workVars, lightVars, blVars
<1>1. CASE Probe
  <2>1. UNCHANGED <<panel, initialized, pos, powerVars, userVars, workVars>> /\ ~orphan
    BY <1>1 DEF Probe
  <2> QED
    BY <1>1, <2>1, ProbeIs, Same
<1>2. CASE Acquire
  BY <1>2, AcquireIs, Same, StepsOf DEF Acquire
<1>3. CASE AcquireFails
  <2>1. UNCHANGED <<probeVars, pos, enables, chip, userVars, workVars, lightVars>>
    BY <1>3 DEF AcquireFails
  <2> QED
    BY <1>3, <2>1, AcquireFailsIs, Same
<1>4. CASE PowerStep
  <2>1. N' = N /\ Full' = Full /\ imbalance' = imbalance  BY <1>4, Same DEF PowerStep
  <2>2. UNCHANGED <<panel, initialized, orphan>>  BY <1>4 DEF PowerStep
  <2> QED
    BY <2>1, <2>2, <1>4, PowerStepIs, StepsOf, Same
<1>5. CASE PowerFails
  <2>1. N' = N /\ Full' = Full /\ Full \in {7, 8}  BY <1>5, Same DEF PowerFails
  <2> QED
    BY <1>5, <2>1, PowerFailsIs, StepsOf DEF PowerFails
<1>6. CASE Configure  BY <1>6, Same DEF Configure
<1>7. CASE ConfigureFails
  <2>1. Fail(TRUE)  BY <1>7 DEF ConfigureFails
  <2> QED
    BY <1>7, Same, <2>1, FailOn DEF ConfigureFails
<1>8. CASE Register  BY <1>8, Same, Registering DEF Register
<1>9. CASE RegisterFails
  <2>1. Fail(TRUE)  BY <1>9 DEF RegisterFails
  <2> QED
    BY <1>9, Same, <2>1, FailOn DEF RegisterFails
<1>10. CASE AddMode  BY <1>10, Same DEF AddMode
<1>11. CASE AddModeFails
  <2>1. stage' = "unwind" /\ imbalance' = imbalance  BY <1>11, FailOff DEF AddModeFails
  <2> QED
    BY <1>11, Same, <2>1 DEF AddModeFails
<1>12. CASE Attach  BY <1>12, Same DEF Attach
<1>13. CASE Light  BY <1>13, Same DEF Light, UpdateStatus
<1>14. CASE Open  BY <1>14, Same DEF Open
<1>15. CASE Close  BY <1>15, Same DEF Close
<1>16. CASE Draw  BY <1>16, Same DEF Draw
<1>17. CASE StartWork  BY <1>17, Same DEF StartWork
<1>18. CASE EndWork  BY <1>18, Same DEF EndWork
<1>19. ASSUME NEW on \in BOOLEAN, Blank(on) PROVE Power'  BY <1>19, Same DEF Blank, Notify, UpdateStatus
<1>20. CASE Unbind  BY <1>20, Same DEF Unbind
<1>21. CASE Release  BY <1>21, Same, Holding, Releasing, NewestFb DEF Release
<1>22. CASE Unregister  BY <1>22, Same, Holding, Releasing, NewestFb DEF Unregister
<1>23. CASE Unbound  BY <1>23, Same, Holding DEF Unbound
<1>24. CASE Cleanup  BY <1>24, Same DEF Cleanup
<1>25. CASE Dark  BY <1>25, Same DEF Dark, UpdateStatus
<1>26. CASE Off  BY <1>26, Same, Releasing DEF Off
<1>27. CASE UNCHANGED vars
  <2>1. N' = N /\ Full' = Full /\ Full \in {7, 8}  BY <1>27, Same DEF vars
  <2> QED
    BY <1>27, <2>1, StepsOf DEF vars
<1>28. CASE NoLight
  <2>1. UNCHANGED <<powerVars, userVars, workVars>>  BY <1>28 DEF NoLight
  <2>2. ~HasSupply(panel)  BY <1>28, NoLightIs DEF OwnLight
  <2> QED
    BY <1>28, <2>1, <2>2, NoLightIs, StepsOf
<1> QED
  BY <1>1, <1>2, <1>3, <1>4, <1>5, <1>6, <1>7, <1>8, <1>9, <1>10, <1>11, <1>12, <1>13, <1>14,
     <1>15, <1>16, <1>17, <1>18, <1>19, <1>20, <1>21, <1>22, <1>23, <1>24, <1>25, <1>26, <1>27, <1>28
     DEF Next, ProbeStep, UnbindStep, UserStep

LEMMA LightsKept == IInv /\ [Next]_vars => Lights'
<1> SUFFICES ASSUME IInv, [Next]_vars PROVE Lights'
  OBVIOUS
<1> USE DEF IInv, Kinds, Shape, Users, Lights, Stages, probeVars, powerVars, userVars, workVars, lightVars, blVars
<1>1. CASE Probe  BY <1>1, ProbeIs DEF Probe
<1>2. CASE Acquire
  BY <1>2, AcquireIs, Same DEF Acquire
<1>3. CASE AcquireFails
  <2>1. UNCHANGED <<probeVars, pos, enables, chip, userVars, workVars, lightVars>>
    BY <1>3 DEF AcquireFails
  <2> QED
    BY <1>3, <2>1, AcquireFailsIs, Same
<1>4. CASE PowerStep  BY <1>4, Same DEF PowerStep
<1>5. CASE PowerFails
  <2>1. stage' = "unwind"  BY <1>5, PowerFailsIs
  <2> QED
    BY <1>5, Same, <2>1 DEF PowerFails
<1>6. CASE Configure  BY <1>6, Same DEF Configure
<1>7. CASE ConfigureFails
  <2>1. Fail(TRUE)  BY <1>7 DEF ConfigureFails
  <2> QED
    BY <1>7, Same, <2>1, FailOn DEF ConfigureFails
<1>8. CASE Register  BY <1>8, Same, Registering DEF Register
<1>9. CASE RegisterFails
  <2>1. Fail(TRUE)  BY <1>9 DEF RegisterFails
  <2> QED
    BY <1>9, Same, <2>1, FailOn DEF RegisterFails
<1>10. CASE AddMode  BY <1>10, Same DEF AddMode
<1>11. CASE AddModeFails
  <2>1. stage' = "unwind" /\ imbalance' = imbalance  BY <1>11, FailOff DEF AddModeFails
  <2> QED
    BY <1>11, Same, <2>1 DEF AddModeFails
<1>12. CASE Attach  BY <1>12, Same DEF Attach
<1>13. CASE Light  BY <1>13, Same DEF Light, UpdateStatus
<1>14. CASE Open  BY <1>14, Same DEF Open
<1>15. CASE Close  BY <1>15, Same DEF Close
<1>16. CASE Draw  BY <1>16, Same DEF Draw
<1>17. CASE StartWork  BY <1>17, Same DEF StartWork
<1>18. CASE EndWork  BY <1>18, Same DEF EndWork
<1>19. ASSUME NEW on \in BOOLEAN, Blank(on) PROVE Lights'  BY <1>19, Same DEF Blank, Notify, UpdateStatus
<1>20. CASE Unbind  BY <1>20, Same DEF Unbind
<1>21. CASE Release  BY <1>21, Same, Holding, Releasing, NewestFb DEF Release
<1>22. CASE Unregister  BY <1>22, Same, Holding, Releasing, NewestFb DEF Unregister
<1>23. CASE Unbound  BY <1>23, Same, Holding DEF Unbound
<1>24. CASE Cleanup  BY <1>24, Same DEF Cleanup
<1>25. CASE Dark  BY <1>25, Same DEF Dark, UpdateStatus
<1>26. CASE Off  BY <1>26, Same, Releasing DEF Off
<1>27. CASE UNCHANGED vars  BY <1>27, Same DEF vars
<1>28. CASE NoLight  BY <1>28, NoLightIs, Same DEF NoLight
<1> QED
  BY <1>1, <1>2, <1>3, <1>4, <1>5, <1>6, <1>7, <1>8, <1>9, <1>10, <1>11, <1>12, <1>13, <1>14,
     <1>15, <1>16, <1>17, <1>18, <1>19, <1>20, <1>21, <1>22, <1>23, <1>24, <1>25, <1>26, <1>27, <1>28
     DEF Next, ProbeStep, UnbindStep, UserStep

-----------------------------------------------------------------------------
THEOREM Inductive == Spec => []IInv
<1>1. IInv /\ [Next]_vars => IInv'
  BY KindsKept, ShapeKept, UsersKept, PowerKept, LightsKept DEF IInv
<1> QED
  BY Initially, <1>1, PTL DEF Spec

\* With all resources held what an update or fb_destroy uses is among them.
LEMMA AllHeld ==
  ASSUME Listed(held, panel, Full), N = Full
  PROVE  UpdateUses \cup DestroyUses \subseteq Held
<1>1. PICK k \in {7, 8} : k = Full  BY Same
<1>2. \A i \in 1 .. k - 1 : Resources(panel)[i] \in Held
  <2>1. SUFFICES ASSUME NEW i \in 1 .. k - 1 PROVE Resources(panel)[i] \in Held
    OBVIOUS
  <2>2. Len(held) = k  BY <1>1 DEF N
  <2>3. held[i] = Resources(panel)[i] /\ i \in 1 .. Len(held)  BY <1>1, <2>2 DEF Listed
  <2> QED
    BY <2>3 DEF Held
<1>3. /\ Resources(panel)[1] = "lcdreg" /\ Resources(panel)[2] = "display"
      /\ Resources(panel)[3] = "info" /\ Resources(panel)[5] = "vmem"
      /\ Resources(panel)[6] = "fbdefio"
      /\ Resources(panel)[7] = IF OwnLight(panel) THEN "light" ELSE "supply"
  BY DEF Resources
<1>4. {"lcdreg", "display", "info", "vmem", "fbdefio"} \subseteq Held
  BY <1>2, <1>3
<1>5. (OwnLight(panel) /\ ~lighted) \/ (IF OwnLight(panel) THEN "light" ELSE "supply") \in Held
  <2>1. ~(OwnLight(panel) /\ ~lighted) => k = 8  BY <1>1 DEF Full
  <2> QED
    BY <2>1, <1>2, <1>3
<1> QED
  BY <1>4, <1>5 DEF UpdateUses, DestroyUses

\* Every variable has its type, whatever the drivers and however often they are probed.
THEOREM TypeCorrect == Spec => []TypeOK
<1>1. IInv => TypeOK
  <2> SUFFICES ASSUME IInv PROVE TypeOK
    OBVIOUS
  <2>1. held \in Seq(ResourceNames) /\ pos \in 0 .. 4 /\ useCount \in Int
    BY DEF IInv, Shape, Listed, Power, Lights
  <2> QED
    BY <2>1 DEF IInv, Kinds, TypeOK
<1> QED
  BY Inductive, <1>1, PTL

\* Whatever runs finds its resources alive, unless the frame buffer was open when its
\* device was unbound.
THEOREM AlwaysAlive == Spec => []Alive
<1>1. IInv => Alive
  <2> SUFFICES ASSUME IInv, ~orphan, working \/ Destroying \/ registered
               PROVE  UpdateUses \cup DestroyUses \subseteq Held
    BY DEF Alive
  <2>1. N = Full  BY DEF IInv, Kinds, Shape, Users, Destroying
  <2> QED
    BY <2>1, AllHeld DEF IInv, Shape
<1> QED
  BY Inductive, <1>1, PTL

\* An update of a display that was not initialized is sent to a controller that is
\* powered, was reset and was written to since.
THEOREM SentReady == Spec => []SentWhenReady
<1>1. IInv => SentWhenReady
  <2> SUFFICES ASSUME IInv, working \/ registered \/ stage = "first", ~orphan, ~initialized
               PROVE  chip \in {"ready", "partial"} /\ (HasSupply(panel) => enables > 0)
    BY DEF SentWhenReady
  <2>1. N = Full \/ stage = "first"  BY DEF IInv, Kinds, Users
  <2> QED
    BY <2>1 DEF IInv, Kinds, Shape, Power, On
<1> QED
  BY Inductive, <1>1, PTL

\* An unbound device has left its supply as it found it, but for the probes that
\* failed after poweron and the displays that were initialized.
THEOREM Balanced == Spec => []SupplyBalanced
<1>1. IInv => SupplyBalanced
  BY Same DEF IInv, Kinds, Shape, Power, On, SupplyBalanced
<1> QED
  BY Inductive, <1>1, PTL

\* The backlight of a bound display, if it has one, shines exactly when the display is not
\* blanked, but for a blanking while it was being registered or in an earlier life.
THEOREM LightAlwaysFollows == Spec => []LightFollows
<1>1. IInv => LightFollows
  BY DEF IInv, Kinds, Lights, LightFollows
<1> QED
  BY Inductive, <1>1, PTL

-----------------------------------------------------------------------------
(* Unwinding comes to an end.                                                 *)

\* What a release, or fb_destroy when it is over, leaves.
LEMMA RestIs ==
  ASSUME Listed(held, panel, Full), N > 0, held' = Rest
  PROVE  N' = N - 1
<1>1. PICK k \in {7, 8} : k = Full  BY Same
<1> QED
  BY <1>1, Shrunk DEF Rest, N

\* In fb_destroy nobody uses the frame buffer any more.
LEMMA Alone ==
  ASSUME IInv, Destroying
  PROVE  ~registered /\ ~open /\ ~orphan /\ N = Full
BY DEF IInv, Shape, Users, Destroying

\* The number of steps left, by the stage.
LEMMA LeftIs ==
  ASSUME IInv
  PROVE  /\ N \in 0 .. 8
         /\ stage = "unwind" => StepsLeft = 8 * N + 7
         /\ stage = "cleanup" => StepsLeft = 8 * N + 3 + (IF queued THEN 2 ELSE 0)
                                                   + (IF working THEN 1 ELSE 0)
         /\ stage = "dark" => StepsLeft = 8 * N + 2
         /\ stage = "off" => StepsLeft = 8 * N + 1
         /\ stage = "unbound" => StepsLeft = 0
<1>1. N \in 0 .. 8  BY Same DEF IInv, Shape
<1>2. N = Len(held)  BY DEF N
<1> QED
  BY <1>1, <1>2 DEF StepsLeft

\* An unwinding that stays one has released something.
LEMMA UnwindMoves ==
  ASSUME IInv, UnbindStep, stage = "unwind", stage' = "unwind"
  PROVE  N > 0 /\ N' = N - 1
<1>1. held # <<>> /\ held' = Rest
  BY DEF UnbindStep, Release, Unregister, Unbound, Cleanup, Dark, Off
<1>2. Listed(held, panel, Full)
  BY DEF IInv, Shape
<1>3. N > 0
  BY <1>1, <1>2, Holding
<1> QED
  BY <1>1, <1>2, <1>3, RestIs

LEMMA StepCloser ==
  ASSUME IInv, IInv', Next, stage = "unwind" \/ Destroying
  PROVE  /\ StepsLeft' \in 0 .. StepsLeft
         /\ UnbindStep \/ Destroying => StepsLeft' < StepsLeft
<1>0. /\ stage' = "unwind" => StepsLeft' = 8 * N' + 7
      /\ stage' = "cleanup" => StepsLeft' = 8 * N' + 3 + (IF queued' THEN 2 ELSE 0)
                                                 + (IF working' THEN 1 ELSE 0)
      /\ stage' = "dark" => StepsLeft' = 8 * N' + 2
      /\ stage' = "off" => StepsLeft' = 8 * N' + 1
      /\ stage' = "unbound" => StepsLeft' = 0
  BY DEF StepsLeft, N
<1>a. N' \in 0 .. 8 /\ Listed(held, panel, Full)
  BY Same DEF IInv, Shape
<1> USE <1>0, <1>a, LeftIs
<1>b. PICK n \in 0 .. 8 : n = N
  OBVIOUS
<1>c. ASSUME stage = "unwind", stage' = "unwind", N > 0, N' = N - 1
      PROVE  StepsLeft' \in 0 .. StepsLeft /\ StepsLeft' < StepsLeft
  <2>1. StepsLeft = 8 * n + 7 /\ StepsLeft' = 8 * (n - 1) + 7 /\ n > 0  BY <1>c, <1>b
  <2> QED
    BY <2>1
<1>1. CASE Release
  <2>1. stage = "unwind" /\ stage' = "unwind"  BY <1>1 DEF Release
  <2> QED
    BY <1>c, <1>1, <2>1, UnwindMoves DEF UnbindStep
<1>2. CASE Unregister
  <2>1. /\ stage = "unwind" /\ held # <<>>
        /\ \/ held' = Rest /\ stage' = "unwind"
           \/ held' = held /\ stage' = "cleanup"
    BY <1>2 DEF Unregister
  <2>2. N > 0  BY <2>1, Holding
  <2>3. CASE held' = Rest /\ stage' = "unwind"
    <3>1. N' = N - 1  BY <2>2, <2>3, RestIs
    <3> QED
      BY <1>c, <2>1, <2>2, <2>3, <3>1
  <2>4. CASE held' = held /\ stage' = "cleanup"
    <3>1. N' = N  BY <2>4, Same
    <3> QED
      BY <2>1, <2>4, <3>1 DEF Destroying
  <2> QED
    BY <2>1, <2>3, <2>4
<1>3. CASE Unbound
  BY <1>3 DEF Unbound, Destroying
<1>4. CASE Cleanup
  <2>1. stage = "cleanup" /\ stage' = "dark" /\ held' = held  BY <1>4 DEF Cleanup
  <2>2. N' = N  BY <2>1, Same
  <2> QED
    BY <2>1, <2>2
<1>5. CASE Dark
  <2>1. stage = "dark" /\ stage' = "off" /\ held' = held  BY <1>5 DEF Dark
  <2>2. N' = N  BY <2>1, Same
  <2> QED
    BY <2>1, <2>2
<1>6. CASE Off
  <2>1. stage = "off" /\ stage' = "unwind" /\ held' = Rest  BY <1>6 DEF Off
  <2>2. N > 0  BY <2>1, Alone, Same DEF Destroying
  <2>3. N' = N - 1  BY <2>1, <2>2, RestIs
  <2> QED
    BY <2>1, <2>2, <2>3
<1>7. CASE UserStep
  <2>1. stage' = stage /\ held' = held  BY <1>7 DEF UserStep, Open, Close, Draw, Blank
  <2>2. ~Destroying  BY <1>7, Alone DEF UserStep, Open, Close, Draw, Blank
  <2>3. N' = N  BY <2>1, Same
  <2>4. StepsLeft' = StepsLeft /\ stage = "unwind"  BY <2>1, <2>2, <2>3
  <2>5. ~UnbindStep  BY <1>b, <2>1, <2>3, <2>4, UnwindMoves
  <2> QED
    BY <2>2, <2>4, <2>5
<1>8. CASE StartWork \/ EndWork
  <2>1. stage' = stage /\ held' = held  BY <1>8 DEF StartWork, EndWork
  <2>2. N' = N  BY <2>1, Same
  <2>3. CASE stage = "unwind"
    <3>1. ~Destroying  BY <2>3 DEF Destroying
    <3>2. ~UnbindStep  BY <1>b, <2>1, <2>2, <2>3, UnwindMoves
    <3> QED
      BY <2>1, <2>2, <2>3, <3>1, <3>2
  <2>4. CASE Destroying
    <3>1. stage = "cleanup"
      BY <1>8, <2>4 DEF Destroying, IInv, Users, StartWork, EndWork
    <3>2. \/ queued /\ ~queued' /\ ~working /\ working'
          \/ queued' = queued /\ working /\ ~working'
      BY <1>8 DEF StartWork, EndWork
    <3> QED
      BY <2>1, <2>2, <3>1, <3>2
  <2> QED
    BY <2>3, <2>4
<1>9. CASE Probe \/ ProbeStep \/ Unbind
  BY <1>9 DEF Destroying, Probe, Unbind, ProbeStep, Acquire, NoLight, AcquireFails, PowerStep, PowerFails,
              Configure, ConfigureFails, Register, RegisterFails, AddMode, AddModeFails, Attach,
              Light
<1> QED
  BY <1>1, <1>2, <1>3, <1>4, <1>5, <1>6, <1>7, <1>8, <1>9 DEF Next, UnbindStep

\* Whatever users do while a display is unwound, each of its steps is one nearer the end,
\* and in fb_destroy every step of anybody is.
THEOREM AlwaysNearer == Spec => NearerEnd
<1>1. ASSUME IInv, IInv', Next
      PROVE  /\ stage = "unwind" \/ Destroying => StepsLeft' \in 0 .. StepsLeft
             /\ UnbindStep \/ Destroying => StepsLeft' < StepsLeft
  <2>1. UnbindStep => stage = "unwind" \/ Destroying
    BY DEF UnbindStep, Release, Unregister, Unbound, Cleanup, Dark, Off, Destroying
  <2> QED
    BY <1>1, <2>1, StepCloser
<1>2. IInv /\ IInv' /\ [Next]_vars
        => [/\ stage = "unwind" \/ Destroying => StepsLeft' \in 0 .. StepsLeft
            /\ UnbindStep \/ Destroying => StepsLeft' < StepsLeft]_vars
  BY <1>1
<1> QED
  BY <1>2, Inductive, PTL DEF Spec, NearerEnd

=============================================================================
