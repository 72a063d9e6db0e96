---------------------------- MODULE RotationProofs ----------------------------
(***************************************************************************)
(* Proofs about Rotation, for every size of panel, every set of drivers    *)
(* and any number of requests, failed ones included: the line length and   *)
(* the address mode agree with var between requests, and an update that no *)
(* rotation crosses stays inside the video memory and shows every pixel    *)
(* where the angle says.                                                   *)
(***************************************************************************)
EXTENDS Rotation, TLAPS

LL(g) == g.xres * BytesPerPixel
Geometries == {Geometry(a) : a \in Angles}
Updating == {"column", "page", "send"}

\* Who has the lock, and which geometry the steps of a request see.
Requests ==
  /\ lock = "set_par" <=> ipc = "rotate"
  /\ lock = "update" <=> wpc \in {"page", "send"}
  /\ ipc \in {"set_par", "rotate"} => var \in Geometries
  /\ ipc \in {"set_par", "rotate"} /\ phase # "probe" => old \in KnownVars
  /\ ipc = "restore" => old \in KnownVars /\ applied = NoGeometry
  /\ ipc = "rotate" => lineLength = LL(var)
  /\ phase = "probe" => applied = NoGeometry

\* What the last successful set_par left.  Until the next one takes the lock it
\* holds, also when var has changed already.
Left ==
  applied # NoGeometry =>
    /\ applied \in Geometries
    /\ ipc # "rotate" => lineLength = LL(applied)
    /\ mode = AddrMode(driver)[applied.rotate]
    /\ ipc = "idle" => applied = var

\* The rows recorded, and those of an update, are rows of the geometry they were
\* recorded under.
Rows ==
  /\ ~pending => range.last = 0 /\ rangeVar = NoGeometry
  /\ rangeVar # NoGeometry =>
       range.first <= range.last /\ range.last < rangeVar.yres
  /\ updateVar # NoGeometry => ys <= ye /\ ye < updateVar.yres
  /\ wpc \in Updating => seen \in KnownVars

\* An update whose writes have succeeded so far sees its address registers as it
\* wrote them until it sends: nobody else writes them.
Written ==
  /\ wpc \in {"page", "send"} /\ ok => column = Column(driver, seen, ys)
  /\ wpc = "send" /\ ok => page = Page(driver, seen, ys, ye)

IInv == TypeOK /\ Requests /\ Left /\ Rows /\ Written

-----------------------------------------------------------------------------
\* The four geometries, and those of the device tree, have the area of the panel.
LEMMA Known ==
  /\ \A g \in KnownVars : /\ g.xres \in Nat \ {0} /\ g.yres \in Nat \ {0}
                          /\ g.xres <= XRes + YRes /\ g.yres <= XRes + YRes
                          /\ LL(g) \in {XRes * BytesPerPixel, YRes * BytesPerPixel}
                          /\ g # NoGeometry
  /\ \A g \in Geometries : g \in KnownVars /\ g.yres * LL(g) = SmemLen
<1>1. ASSUME NEW a
      PROVE  LET g == Geometry(a)
             IN  /\ g.xres \in Nat \ {0} /\ g.yres \in Nat \ {0}
                 /\ g.xres <= XRes + YRes /\ g.yres <= XRes + YRes
                 /\ LL(g) \in {XRes * BytesPerPixel, YRes * BytesPerPixel}
                 /\ g # NoGeometry
                 /\ g.yres * LL(g) = SmemLen
  <2>1. CASE a \in {90, 270}
    <3>1. Geometry(a).xres = YRes /\ Geometry(a).yres = XRes  BY <2>1 DEF Geometry
    <3>2. XRes * (YRes * BytesPerPixel) = XRes * YRes * BytesPerPixel  BY PanelAssumption
    <3> QED
      BY <3>1, <3>2, PanelAssumption DEF LL, NoGeometry, SmemLen
  <2>2. CASE a \notin {90, 270}
    <3>1. Geometry(a).xres = XRes /\ Geometry(a).yres = YRes  BY <2>2 DEF Geometry
    <3>2. YRes * (XRes * BytesPerPixel) = XRes * YRes * BytesPerPixel  BY PanelAssumption
    <3> QED
      BY <3>1, <3>2, PanelAssumption DEF LL, NoGeometry, SmemLen
  <2> QED
    BY <2>1, <2>2
<1>2. ASSUME NEW a
      PROVE  LET g == DtVar(a)
             IN  /\ g.xres \in Nat \ {0} /\ g.yres \in Nat \ {0}
                 /\ g.xres <= XRes + YRes /\ g.yres <= XRes + YRes
                 /\ LL(g) \in {XRes * BytesPerPixel, YRes * BytesPerPixel}
                 /\ g # NoGeometry
  BY PanelAssumption DEF DtVar, LL, NoGeometry
<1> QED
  BY <1>1, <1>2 DEF KnownVars, Geometries

LEMMA FourModes == \A d \in AllDrivers, a \in Angles : AddrMode(d)[a] \in Modes
BY DEF AllDrivers, AddrMode, MI0283QT, ADAFRUIT797, SAINSMART18, ILI9320, Angles, Modes

\* The address registers are numbers.
LEMMA Registers ==
  ASSUME NEW d, NEW g \in KnownVars, NEW a \in Nat, NEW b \in Nat
  PROVE  Column(d, g, a) \in Nat /\ Page(d, g, a, b) \in [first : Nat, last : Nat]
<1>1. g.xres - 1 \in Nat  BY Known
<1>2. \A i \in Int : U16(i) \in Nat  BY DEF U16
<1>3. XRes - 1 - a \in Int /\ YRes - 1 - a \in Int /\ XRes - 1 \in Nat /\ YRes - 1 \in Nat
  BY PanelAssumption
<1> QED
  BY <1>1, <1>2, <1>3 DEF Column, Page

LEMMA Initially == Init => IInv
<1> SUFFICES ASSUME Init PROVE IInv
  OBVIOUS
<1>1. var \in KnownVars  BY DEF Init, KnownVars
<1>2. lineLength \in {XRes * BytesPerPixel, YRes * BytesPerPixel}
  <2>1. SmemLen = (XRes * BytesPerPixel) * YRes  BY PanelAssumption DEF SmemLen
  <2>2. \A a \in Nat, b \in Nat \ {0} : (a * b) \div b = a  OBVIOUS
  <2>3. XRes * BytesPerPixel \in Nat  BY PanelAssumption
  <2> QED
    BY <2>1, <2>2, <2>3, PanelAssumption DEF Init
<1>3. TypeOK
  <2>1. {} \in Modes  BY DEF Modes
  <2>2. old \in Histories /\ rangeVar \in Histories /\ updateVar \in Histories
        /\ applied \in Histories /\ seen \in Histories  BY DEF Init, Histories
  <2>3. 0 \in Sizes  BY PanelAssumption DEF Sizes
  <2>4. pending \in BOOLEAN /\ ok \in BOOLEAN  BY DEF Init
  <2>5. requests \in 0 .. MaxRequests  BY RequestAssumption DEF Init
  <2> QED
    BY <1>1, <1>2, <2>1, <2>2, <2>3, <2>4, <2>5 DEF Init, TypeOK
<1>4. Requests  BY DEF Init, Requests
<1>5. Left  BY DEF Init, Left
<1>6. Rows  BY DEF Init, Rows, Updating
<1>7. Written  BY DEF Init, Written
<1> QED
  BY <1>3, <1>4, <1>5, <1>6, <1>7 DEF IInv

-----------------------------------------------------------------------------
(* Each step keeps the invariant: first the types, then the three parts.      *)
LEMMA TypesKept == IInv /\ [Next]_vars => TypeOK'
<1> SUFFICES ASSUME IInv, [Next]_vars PROVE TypeOK'
  OBVIOUS
<1> USE DEF IInv, TypeOK, chipVars, requestVars, rangeVars, updateVars
<1>a. KnownVars \subseteq Histories /\ NoGeometry \in Histories  BY DEF Histories
<1>b. 0 \in Sizes /\ \A g \in KnownVars : \A i \in Nat : i < g.yres => i \in Sizes
  BY Known, PanelAssumption DEF Sizes
<1>c. \A g \in KnownVars : g.yres - 1 \in Nat /\ g.yres - 1 < g.yres  BY Known
<1>d. Sizes \subseteq Nat  BY DEF Sizes
<1>e. \A a \in Angles : Geometry(a) \in KnownVars  BY DEF KnownVars
<1>1. CASE Register  BY <1>1, <1>e DEF Register, CheckVar
<1>2. ASSUME NEW res \in Resolutions, NEW r \in Angles, SetVar(res, r) PROVE TypeOK'
  BY <1>2, <1>a, <1>e, RequestAssumption DEF SetVar, CheckVar
<1>3. CASE SetPar
  <2>1. lineLength' \in {XRes * BytesPerPixel, YRes * BytesPerPixel}
    BY <1>3, Known DEF SetPar, LL
  <2> QED
    BY <1>3, <2>1 DEF SetPar
<1>4. CASE Rotate
  <2>1. mode' \in Modes
    BY <1>4, FourModes, DriverAssumption DEF Rotate, Requests, Geometries, Geometry
  <2> QED
    BY <1>4, <2>1, <1>a, <1>b, <1>c DEF Rotate
<1>5. CASE RotateFails  BY <1>5, <1>a DEF RotateFails
<1>6. CASE Restore  BY <1>6, <1>a DEF Restore, Requests
<1>7. ASSUME NEW a \in Sizes, NEW b \in Sizes, Draw(a, b) PROVE TypeOK'
  BY <1>7, <1>a DEF Draw
<1>8. CASE Take
  <2>1. range' \in [first : Sizes, last : Sizes]  BY <1>8, <1>b, <1>c DEF Take
  <2> QED
    BY <1>8, <2>1, <1>a DEF Take
<1>9. CASE ReadVar  BY <1>9, <1>a DEF ReadVar
<1>10. CASE SetColumn
  <2>1. seen \in KnownVars /\ ys \in Nat  BY <1>10, <1>d DEF SetColumn, Rows, Updating
  <2>2. Column(driver, seen, ys) \in Nat  BY <2>1, Registers
  <2>3. column' \in Nat  BY <1>10, <2>2 DEF SetColumn
  <2> QED
    BY <1>10, <2>3 DEF SetColumn
<1>11. CASE SetPage
  <2>1. page' \in [first : Nat, last : Nat]
    BY <1>11, <1>d, Registers DEF SetPage, Rows, Updating
  <2> QED
    BY <1>11, <2>1 DEF SetPage
<1>12. CASE Send  BY <1>12, <1>a, <1>b DEF Send
<1>13. CASE UNCHANGED vars  BY <1>13 DEF vars
<1> QED
  BY <1>1, <1>2, <1>3, <1>4, <1>5, <1>6, <1>7, <1>8, <1>9, <1>10, <1>11, <1>12, <1>13
     DEF Next, RequestStep, UpdateStep

LEMMA RequestsKept == IInv /\ [Next]_vars => Requests'
<1> SUFFICES ASSUME IInv, [Next]_vars PROVE Requests'
  OBVIOUS
<1> USE DEF IInv, TypeOK, Requests, Geometries, LL, chipVars, requestVars, rangeVars, updateVars
<1>1. CASE Register  BY <1>1 DEF Register, CheckVar
<1>2. ASSUME NEW res \in Resolutions, NEW r \in Angles, SetVar(res, r) PROVE Requests'
   BY <1>2 DEF SetVar, CheckVar
<1>3. CASE SetPar  BY <1>3 DEF SetPar
<1>4. CASE Rotate  BY <1>4 DEF Rotate
<1>5. CASE RotateFails  BY <1>5 DEF RotateFails
<1>6. CASE Restore  BY <1>6 DEF Restore
<1>7. ASSUME NEW a \in Sizes, NEW b \in Sizes, Draw(a, b) PROVE Requests'
   BY <1>7 DEF Draw
<1>8. CASE Take  BY <1>8 DEF Take
<1>9. CASE ReadVar  BY <1>9 DEF ReadVar
<1>10. CASE SetColumn  BY <1>10 DEF SetColumn
<1>11. CASE SetPage  BY <1>11 DEF SetPage
<1>12. CASE Send  BY <1>12 DEF Send
<1>13. CASE UNCHANGED vars  BY <1>13 DEF vars
<1> QED
  BY <1>1, <1>2, <1>3, <1>4, <1>5, <1>6, <1>7, <1>8, <1>9, <1>10, <1>11, <1>12, <1>13
     DEF Next, RequestStep, UpdateStep

LEMMA LeftKept == IInv /\ [Next]_vars => Left'
<1> SUFFICES ASSUME IInv, [Next]_vars PROVE Left'
  OBVIOUS
<1> USE DEF IInv, TypeOK, Requests, Left, LL, chipVars, requestVars, rangeVars, updateVars
<1>1. CASE Register  BY <1>1, Known DEF Register, CheckVar
<1>2. ASSUME NEW res \in Resolutions, NEW r \in Angles, SetVar(res, r) PROVE Left'
   BY <1>2, Known DEF SetVar, CheckVar
<1>3. CASE SetPar  BY <1>3, Known DEF SetPar
<1>4. CASE Rotate  BY <1>4, Known DEF Rotate
<1>5. CASE RotateFails  BY <1>5, Known DEF RotateFails
<1>6. CASE Restore  BY <1>6, Known DEF Restore
<1>7. ASSUME NEW a \in Sizes, NEW b \in Sizes, Draw(a, b) PROVE Left'
   BY <1>7, Known DEF Draw
<1>8. CASE Take  BY <1>8, Known DEF Take
<1>9. CASE ReadVar  BY <1>9, Known DEF ReadVar
<1>10. CASE SetColumn  BY <1>10, Known DEF SetColumn
<1>11. CASE SetPage  BY <1>11, Known DEF SetPage
<1>12. CASE Send  BY <1>12, Known DEF Send
<1>13. CASE UNCHANGED vars  BY <1>13 DEF vars
<1> QED
  BY <1>1, <1>2, <1>3, <1>4, <1>5, <1>6, <1>7, <1>8, <1>9, <1>10, <1>11, <1>12, <1>13
     DEF Next, RequestStep, UpdateStep

LEMMA RowsKept == IInv /\ [Next]_vars => Rows'
<1> SUFFICES ASSUME IInv, [Next]_vars PROVE Rows'
  OBVIOUS
<1> USE DEF IInv, TypeOK, Requests, Rows, Updating, chipVars, requestVars, rangeVars, updateVars
<1>1. CASE Register  BY <1>1, Known DEF Register, CheckVar
<1>2. ASSUME NEW res \in Resolutions, NEW r \in Angles, SetVar(res, r) PROVE Rows'
   BY <1>2, Known DEF SetVar, CheckVar
<1>3. CASE SetPar  BY <1>3, Known DEF SetPar
<1>4. CASE Rotate  BY <1>4, Known DEF Rotate
<1>5. CASE RotateFails  BY <1>5, Known DEF RotateFails
<1>6. CASE Restore  BY <1>6, Known DEF Restore
<1>7. ASSUME NEW a \in Sizes, NEW b \in Sizes, Draw(a, b) PROVE Rows'
  <2> USE <1>7 DEF Draw
  <2>1. a \in Nat /\ b \in Nat /\ a <= b /\ b < var.yres /\ var \in KnownVars
        /\ range.first \in Nat /\ range.last \in Nat /\ var.yres \in Nat
    BY Known DEF Sizes
  <2>2. /\ range'.first = IF a < range.first THEN a ELSE range.first
        /\ range'.last = IF b > range.last THEN b ELSE range.last
    OBVIOUS
  <2>3. range'.first <= range'.last  BY <2>1, <2>2
  <2>4. rangeVar' # NoGeometry => range'.last < var.yres /\ rangeVar' = var
    BY <2>1, <2>2
  <2>5. pending' /\ UNCHANGED <<updateVar, wpc, ys, ye, seen>>  OBVIOUS
  <2> QED
    BY <2>3, <2>4, <2>5, Known
<1>8. CASE Take  BY <1>8, Known DEF Take
<1>9. CASE ReadVar  BY <1>9, Known DEF ReadVar
<1>10. CASE SetColumn  BY <1>10, Known DEF SetColumn
<1>11. CASE SetPage  BY <1>11, Known DEF SetPage
<1>12. CASE Send  BY <1>12, Known DEF Send
<1>13. CASE UNCHANGED vars  BY <1>13 DEF vars
<1> QED
  BY <1>1, <1>2, <1>3, <1>4, <1>5, <1>6, <1>7, <1>8, <1>9, <1>10, <1>11, <1>12, <1>13
     DEF Next, RequestStep, UpdateStep

LEMMA WrittenKept == IInv /\ [Next]_vars => Written'
<1> SUFFICES ASSUME IInv, [Next]_vars PROVE Written'
  OBVIOUS
<1> USE DEF IInv, TypeOK, Requests, Written, chipVars, requestVars, rangeVars, updateVars
<1>1. CASE Register  BY <1>1 DEF Register, CheckVar
<1>2. ASSUME NEW res \in Resolutions, NEW r \in Angles, SetVar(res, r) PROVE Written'
   BY <1>2 DEF SetVar, CheckVar
<1>3. CASE SetPar  BY <1>3 DEF SetPar
<1>4. CASE Rotate  BY <1>4 DEF Rotate
<1>5. CASE RotateFails  BY <1>5 DEF RotateFails
<1>6. CASE Restore  BY <1>6 DEF Restore
<1>7. ASSUME NEW a \in Sizes, NEW b \in Sizes, Draw(a, b) PROVE Written'
   BY <1>7 DEF Draw
<1>8. CASE Take  BY <1>8 DEF Take
<1>9. CASE ReadVar  BY <1>9 DEF ReadVar
<1>10. CASE SetColumn  BY <1>10 DEF SetColumn
<1>11. CASE SetPage  BY <1>11 DEF SetPage
<1>12. CASE Send  BY <1>12 DEF Send
<1>13. CASE UNCHANGED vars  BY <1>13 DEF vars
<1> QED
  BY <1>1, <1>2, <1>3, <1>4, <1>5, <1>6, <1>7, <1>8, <1>9, <1>10, <1>11, <1>12, <1>13
     DEF Next, RequestStep, UpdateStep

-----------------------------------------------------------------------------
THEOREM Inductive == Spec => []IInv
<1>1. IInv /\ [Next]_vars => IInv'
  BY TypesKept, RequestsKept, LeftKept, RowsKept, WrittenKept DEF IInv
<1> QED
  BY Initially, <1>1, PTL DEF Spec

\* Every variable has its type, for every size of panel and every driver.
THEOREM TypeCorrect == Spec => []TypeOK
<1>1. IInv => TypeOK  BY DEF IInv
<1> QED
  BY Inductive, <1>1, PTL

\* Between requests the line length and the address mode are those of var, which
\* is one of the four geometries.
THEOREM AlwaysAgrees == Spec => []Agrees
<1>1. IInv => Agrees  BY DEF IInv, Left, LL, Agrees, Geometries
<1> QED
  BY Inductive, <1>1, PTL

\* An update that no rotation crosses stays inside the video memory.
THEOREM StaysInMemory == Spec => []ReadsMemory
<1>1. IInv => ReadsMemory
  <2> SUFFICES ASSUME IInv, wpc = "send", Uncrossed PROVE InMemory
    BY DEF ReadsMemory
  <2>1. seen \in KnownVars /\ seen # NoGeometry  BY Known DEF IInv, Rows, Updating
  <2>2. applied = seen /\ updateVar = seen  BY DEF Uncrossed
  <2>3. applied \in Geometries /\ lineLength = LL(seen)
    BY <2>1, <2>2 DEF IInv, Requests, Left
  <2>4. ys <= ye /\ ye < seen.yres  BY <2>1, <2>2 DEF IInv, Rows
  <2>5. seen.yres * LL(seen) = SmemLen  BY <2>2, <2>3, Known
  <2>6. ye + 1 \in Nat /\ seen.yres \in Nat /\ LL(seen) \in Nat /\ ye + 1 <= seen.yres
    BY <2>1, <2>4, Known, PanelAssumption DEF IInv, TypeOK, Sizes
  <2>7. \A a, b, c \in Nat : a <= b => a * c <= b * c  OBVIOUS
  <2>8. (ye + 1) * LL(seen) <= seen.yres * LL(seen)  BY <2>6, <2>7
  <2> QED
    BY <2>3, <2>4, <2>5, <2>8 DEF InMemory
<1> QED
  BY Inductive, <1>1, PTL

-----------------------------------------------------------------------------
(* Where the words of an update land.                                          *)
LEMMA Quotient ==
  ASSUME NEW d \in Nat \ {0}, NEW q \in Nat, NEW r \in 0 .. d - 1
  PROVE  /\ (q * d + r) \div d = q
         /\ (q * d + r) % d = r
<1>1. PICK m \in Int : m = q * d + r  OBVIOUS
<1>2. /\ m \div d \in Int /\ m % d = m - d * (m \div d)
      /\ d * (m \div d) <= m /\ m < d * (m \div d) + d
  OBVIOUS
<1>3. PICK k \in Int : k = m \div d  BY <1>2
<1>4. d * k < d * (q + 1) /\ d * q < d * (k + 1)  BY <1>1, <1>2, <1>3
<1>5. k < q + 1 /\ q < k + 1  BY <1>4
<1>6. k = q  BY <1>5
<1> QED
  BY <1>1, <1>2, <1>3, <1>6

LEMMA Small == \A d \in Nat \ {0}, i \in Nat : i < d => i % d = i /\ i \div d = 0
OBVIOUS

LEMMA Division ==
  ASSUME NEW d \in Nat \ {0}, NEW n \in Nat
  PROVE  n % d \in 0 .. d - 1 /\ n \div d \in Nat /\ n = (n \div d) * d + (n % d)
<1>1. /\ n % d \in 0 .. d - 1 /\ n % d = n - d * (n \div d)
      /\ n \div d \in Int /\ n < d * (n \div d) + d
  OBVIOUS
<1>2. PICK k \in Int, m \in Int : k = n \div d /\ m = n % d  BY <1>1
<1>3. d * 0 < d * (k + 1) /\ m = n - d * k  BY <1>1, <1>2
<1>4. 0 < k + 1 /\ d * k = k * d  BY <1>3
<1>5. n = k * d + m  BY <1>3, <1>4
<1> QED
  BY <1>1, <1>2, <1>4, <1>5

\* Pixel n of a window of rows of width w is in a row of the window.
LEMMA InWindow ==
  ASSUME NEW w \in Nat \ {0}, NEW rows \in Nat, NEW n \in 0 .. rows * w - 1
  PROVE  n % w \in 0 .. w - 1 /\ n \div w \in 0 .. rows - 1
<1>1. /\ n % w \in 0 .. w - 1
      /\ n \div w \in Int /\ w * (n \div w) <= n /\ n < w * (n \div w) + w
  OBVIOUS
<1>2. PICK k \in Int : k = n \div w  BY <1>1
<1>3. w * k < w * rows /\ w * 0 < w * (k + 1)
  <2>1. n < rows * w /\ rows * w = w * rows  OBVIOUS
  <2> QED
    BY <2>1, <1>1, <1>2
<1>4. k < rows /\ 0 < k + 1  BY <1>3
<1> QED
  BY <1>1, <1>2, <1>4

LEMMA InRows ==
  ASSUME NEW w \in Nat \ {0}, NEW first \in Nat, NEW last \in Nat, first <= last,
         NEW n \in 0 .. (last - first + 1) * w - 1
  PROVE  n % w \in 0 .. w - 1 /\ n \div w \in 0 .. last - first /\ n \in Nat
<1>1. PICK rows \in Nat : rows = last - first + 1  OBVIOUS
<1>2. rows * w - 1 \in Int /\ n \in 0 .. rows * w - 1  BY <1>1
<1>3. n % w \in 0 .. w - 1 /\ n \div w \in 0 .. rows - 1  BY <1>2, InWindow
<1>4. rows - 1 = last - first  BY <1>1
<1> QED
  BY <1>2, <1>3, <1>4

\* The pixel of the memory that is sent n-th.
LEMMA PixelSent ==
  ASSUME NEW g, g.xres \in Nat \ {0}, NEW first \in Nat, NEW n \in Nat
  PROVE  PixelAt(g, first * LL(g) + n * BytesPerPixel)
           = <<n % g.xres, first + n \div g.xres>>
<1>1. PICK w \in Nat \ {0} : w = g.xres  OBVIOUS
<1>2. PICK b \in Nat \ {0} : b = BytesPerPixel  BY PanelAssumption
<1>3. first * (w * b) + n * b = (first * w + n) * b + 0  OBVIOUS
<1>4. ((first * w + n) * b + 0) \div b = first * w + n
  <2>1. first * w + n \in Nat  OBVIOUS
  <2> QED
    BY <2>1, Quotient
<1>5. PICK q \in Nat, m \in 0 .. w - 1 : q = n \div w /\ m = n % w /\ n = q * w + m
  BY Division, ZenonT(30)
<1>6. first * w + n = (first + q) * w + m  BY <1>5
<1>7. ((first + q) * w + m) \div w = first + q /\ ((first + q) * w + m) % w = m
  <2>1. first + q \in Nat  OBVIOUS
  <2> QED
    BY <2>1, Quotient
<1> QED
  BY <1>1, <1>2, <1>3, <1>4, <1>5, <1>6, <1>7 DEF PixelAt, LL

LEMMA Mirrored ==
  ASSUME NEW s \in Nat \ {0}, NEW i \in 0 .. s - 1
  PROVE  /\ s - 1 - i \in 0 .. s - 1 /\ s - 1 - (s - 1 - i) = i
         /\ i % s = i
         /\ s <= 65536 => U16(s - 1 - i) = s - 1 - i
<1>1. i % s = i  BY Small
<1>2. ASSUME s <= 65536 PROVE (s - 1 - i) % 65536 = s - 1 - i
  BY <1>2, Small
<1> QED
  BY <1>1, <1>2 DEF U16

\* The picture of angle 0 is mirrored as its address mode says.
LEMMA UprightPlace ==
  ASSUME driver \in AllDrivers, NEW x \in 0 .. XRes - 1, NEW y \in 0 .. YRes - 1
  PROVE  Upright(x, y) =
           IF IsMipi(driver)
             THEN <<Mirror("MX", AddrMode(driver)[0], XRes, x),
                    Mirror("MY", AddrMode(driver)[0], YRes, y)>>
             ELSE <<x, y>>
<1> DEFINE n == y * XRes + x
<1>1. n \div XRes = y /\ n % XRes = x  BY PanelAssumption, Quotient
<1>2. y % YRes = y /\ x % XRes = x  BY PanelAssumption, Small
<1>g. Geometry(0) = [xres |-> XRes, yres |-> YRes, rotate |-> 0]  BY DEF Geometry
<1>n. n \in Nat  BY PanelAssumption
<1> HIDE DEF n
<1>3. CASE IsMipi(driver)
  <2>1. Column(driver, Geometry(0), 0) = XRes - 1
        /\ Page(driver, Geometry(0), 0, YRes - 1) = [first |-> 0, last |-> YRes - 1]
    BY <1>3, <1>g DEF Column, Page
  <2>2. "MV" \notin AddrMode(driver)[0]
    BY <1>3 DEF IsMipi, AddrMode, MI0283QT, ADAFRUIT797, SAINSMART18, Angles
  <2>3. XRes - 1 + 1 = XRes /\ YRes - 1 - 0 + 1 = YRes /\ 0 + y = y
    BY PanelAssumption
  <2>4. Upright(x, y) = MipiPlace(AddrMode(driver)[0], XRes - 1,
                                  [first |-> 0, last |-> YRes - 1], n)
    BY <1>3, <2>1 DEF Upright, Place, n
  <2> QED
    BY <1>1, <1>2, <1>3, <2>2, <2>3, <2>4 DEF MipiPlace
<1>4. CASE ~IsMipi(driver)
  <2>1. Column(driver, Geometry(0), 0) = 0 /\ Page(driver, Geometry(0), 0, YRes - 1).first = 0
    BY <1>4, <1>g DEF Column, Page
  <2>2. AddrMode(driver)[0] = {"ID1", "ID0"}
    BY <1>4 DEF IsMipi, AllDrivers, AddrMode, ILI9320, Angles
  <2>3. 0 + n = n /\ 0 + n \div XRes = n \div XRes  BY <1>1, <1>n
  <2>4. Upright(x, y) = IliPlace({"ID1", "ID0"}, 0, 0, n)
    BY <1>4, <2>1, <2>2 DEF Upright, Place, n
  <2> QED
    BY <1>1, <1>2, <1>4, <2>3, <2>4 DEF IliPlace
<1> QED
  BY <1>3, <1>4

\* The window of mipi_dbi_update, under the mode of its angle.
LEMMA MipiShows ==
  ASSUME driver \in AllDrivers, IsMipi(driver), NEW a \in Angles,
         NEW first \in Nat, NEW last \in Nat, first <= last, last < Geometry(a).yres,
         NEW n \in 0 .. (last - first + 1) * Geometry(a).xres - 1
  PROVE  LET g == Geometry(a)
         IN  Place(driver, AddrMode(driver)[a], Column(driver, g, first),
                   Page(driver, g, first, last), n)
               = Turned(a, n % g.xres, first + n \div g.xres)
<1>1. PICK w : w = Geometry(a).xres  OBVIOUS
<1>2. w \in Nat \ {0} /\ Geometry(a).yres \in Nat \ {0}  BY <1>1, PanelAssumption DEF Geometry
<1>3. PICK c, r : c = n % w /\ r = n \div w  OBVIOUS
<1>4. c \in 0 .. w - 1 /\ r \in 0 .. last - first  BY <1>1, <1>2, <1>3, InRows
<1>5. r % (last - first + 1) = r
  <2>1. last - first + 1 \in Nat \ {0} /\ r \in Nat /\ r < last - first + 1  BY <1>4
  <2> QED
    BY <2>1, Small
<1>6. w - 1 + 1 = w  BY <1>2
<1> DEFINE y == first + r
<1>7. y \in 0 .. Geometry(a).yres - 1  BY <1>2, <1>4
<1>8. Place(driver, AddrMode(driver)[a], Column(driver, Geometry(a), first),
            Page(driver, Geometry(a), first, last), n)
      = <<Mirror("MX", AddrMode(driver)[a], XRes,
                 IF "MV" \in AddrMode(driver)[a] THEN y ELSE c),
          Mirror("MY", AddrMode(driver)[a], YRes,
                 IF "MV" \in AddrMode(driver)[a] THEN c ELSE y)>>
  BY <1>1, <1>3, <1>5, <1>6 DEF Place, MipiPlace, Column, Page
<1> HIDE DEF y
<1>9. CASE a = 0
  <2>1. c \in 0 .. XRes - 1 /\ y \in 0 .. YRes - 1  BY <1>1, <1>4, <1>7, <1>9 DEF Geometry
  <2>2. "MV" \notin AddrMode(driver)[0]
    BY DEF IsMipi, AddrMode, MI0283QT, ADAFRUIT797, SAINSMART18, Angles
  <2> QED
    BY <1>1, <1>3, <1>8, <1>9, <2>1, <2>2, UprightPlace DEF Turned, y
<1>10. CASE a = 90
  <2>1. c \in 0 .. YRes - 1 /\ y \in 0 .. XRes - 1  BY <1>1, <1>4, <1>7, <1>10 DEF Geometry
  <2>2. YRes - 1 - c \in 0 .. YRes - 1 /\ YRes - 1 - (YRes - 1 - c) = c
    BY <2>1, PanelAssumption
  <2>3. "MV" \in AddrMode(driver)[90]
        /\ ("MX" \in AddrMode(driver)[90] <=> "MX" \in AddrMode(driver)[0])
        /\ ("MY" \in AddrMode(driver)[90] <=> "MY" \notin AddrMode(driver)[0])
    BY DEF IsMipi, AddrMode, MI0283QT, ADAFRUIT797, SAINSMART18, Angles
  <2>4. Turned(90, c, y) = Upright(y, YRes - 1 - c)  BY DEF Turned
  <2>5. Turned(90, c, y) = <<Mirror("MX", AddrMode(driver)[0], XRes, y),
                             Mirror("MY", AddrMode(driver)[0], YRes, YRes - 1 - c)>>
    BY <2>1, <2>2, <2>4, UprightPlace
  <2> QED
    BY <1>1, <1>3, <1>8, <1>10, <2>2, <2>3, <2>5 DEF Mirror, y
<1>11. CASE a = 180
  <2>1. c \in 0 .. XRes - 1 /\ y \in 0 .. YRes - 1  BY <1>1, <1>4, <1>7, <1>11 DEF Geometry
  <2>2. /\ XRes - 1 - c \in 0 .. XRes - 1 /\ XRes - 1 - (XRes - 1 - c) = c
        /\ YRes - 1 - y \in 0 .. YRes - 1 /\ YRes - 1 - (YRes - 1 - y) = y
    BY <2>1, PanelAssumption
  <2>3. "MV" \notin AddrMode(driver)[180]
        /\ ("MX" \in AddrMode(driver)[180] <=> "MX" \notin AddrMode(driver)[0])
        /\ ("MY" \in AddrMode(driver)[180] <=> "MY" \notin AddrMode(driver)[0])
    BY DEF IsMipi, AddrMode, MI0283QT, ADAFRUIT797, SAINSMART18, Angles
  <2>4. Turned(180, c, y) = Upright(XRes - 1 - c, YRes - 1 - y)  BY DEF Turned
  <2>5. Turned(180, c, y) = <<Mirror("MX", AddrMode(driver)[0], XRes, XRes - 1 - c),
                              Mirror("MY", AddrMode(driver)[0], YRes, YRes - 1 - y)>>
    BY <2>2, <2>4, UprightPlace
  <2> QED
    BY <1>1, <1>3, <1>8, <1>11, <2>2, <2>3, <2>5 DEF Mirror, y
<1>12. CASE a = 270
  <2>1. c \in 0 .. YRes - 1 /\ y \in 0 .. XRes - 1  BY <1>1, <1>4, <1>7, <1>12 DEF Geometry
  <2>2. XRes - 1 - y \in 0 .. XRes - 1 /\ XRes - 1 - (XRes - 1 - y) = y
    BY <2>1, PanelAssumption
  <2>3. "MV" \in AddrMode(driver)[270]
        /\ ("MX" \in AddrMode(driver)[270] <=> "MX" \notin AddrMode(driver)[0])
        /\ ("MY" \in AddrMode(driver)[270] <=> "MY" \in AddrMode(driver)[0])
    BY DEF IsMipi, AddrMode, MI0283QT, ADAFRUIT797, SAINSMART18, Angles
  <2>4. Turned(270, c, y) = Upright(XRes - 1 - y, c)  BY DEF Turned
  <2>5. Turned(270, c, y) = <<Mirror("MX", AddrMode(driver)[0], XRes, XRes - 1 - y),
                              Mirror("MY", AddrMode(driver)[0], YRes, c)>>
    BY <2>1, <2>2, <2>4, UprightPlace
  <2> QED
    BY <1>1, <1>3, <1>8, <1>12, <2>2, <2>3, <2>5 DEF Mirror, y
<1> QED
  BY <1>9, <1>10, <1>11, <1>12 DEF Angles

\* The start address of ili9320_update, under the mode of its angle.  Its
\* differences are u16, which panels of up to 65536 pixels a side fit.
LEMMA IliShows ==
  ASSUME XRes <= 65536, YRes <= 65536, driver \in AllDrivers, ~IsMipi(driver),
         NEW a \in Angles, NEW first \in Nat, NEW last \in Nat, first <= last,
         last < Geometry(a).yres,
         NEW n \in 0 .. (last - first + 1) * Geometry(a).xres - 1
  PROVE  LET g == Geometry(a)
         IN  Place(driver, AddrMode(driver)[a], Column(driver, g, first),
                   Page(driver, g, first, last), n)
               = Turned(a, n % g.xres, first + n \div g.xres)
<1>1. PICK w : w = Geometry(a).xres  OBVIOUS
<1>2. w \in Nat \ {0} /\ Geometry(a).yres \in Nat \ {0}  BY <1>1, PanelAssumption DEF Geometry
<1>3. PICK c, r : c = n % w /\ r = n \div w  OBVIOUS
<1>4. c \in 0 .. w - 1 /\ r \in 0 .. last - first  BY <1>1, <1>2, <1>3, InRows, SMTT(30)
<1>5. n \in Nat  BY <1>1, <1>2, InRows
<1> DEFINE y == first + r
<1>6. y \in 0 .. Geometry(a).yres - 1 /\ y \in Nat /\ first \in 0 .. Geometry(a).yres - 1
  BY <1>2, <1>4
<1>7. AddrMode(driver) = ILI9320  BY DEF IsMipi, AllDrivers, AddrMode
<1>8. first + n \div w = y /\ 0 + n = n  BY <1>3, <1>5 DEF y
<1> HIDE DEF y
<1>9. CASE a = 0
  <2>1. c \in 0 .. XRes - 1 /\ y \in 0 .. YRes - 1 /\ w = XRes
    BY <1>1, <1>4, <1>6, <1>9 DEF Geometry
  <2>2. /\ Column(driver, Geometry(0), first) = 0
        /\ Page(driver, Geometry(0), first, last).first = first
    BY DEF Column, Page, Geometry
  <2>3. ILI9320[0] = {"ID1", "ID0"}  BY DEF ILI9320, Angles
  <2>4. y % YRes = y /\ 0 + n = n /\ first + n \div w = y
    BY <2>1, <1>3, <1>5, Small, PanelAssumption DEF y
  <2>5. Place(driver, {"ID1", "ID0"}, 0, Page(driver, Geometry(0), first, last), n) = <<c, y>>
    BY <2>1, <2>2, <2>4, <1>3, <1>8 DEF Place, IliPlace
  <2> QED
    BY <1>1, <1>3, <1>7, <1>8, <1>9, <2>1, <2>2, <2>3, <2>4, <2>5, UprightPlace DEF Turned
<1>10. CASE a = 90
  <2>1. c \in 0 .. YRes - 1 /\ y \in 0 .. XRes - 1 /\ w = YRes
    BY <1>1, <1>4, <1>6, <1>10 DEF Geometry
  <2>2. Column(driver, Geometry(90), first) = first
        /\ Page(driver, Geometry(90), first, last).first = YRes - 1
    BY DEF Column, Page, Geometry
  <2>3. ILI9320[90] = {"ID0", "AM"}  BY DEF ILI9320, Angles
  <2>4. y % XRes = y /\ YRes - 1 - c \in 0 .. YRes - 1 /\ YRes - 1 - (YRes - 1) = 0
    BY <2>1, Mirrored, PanelAssumption
  <2>5. Place(driver, {"ID0", "AM"}, first, Page(driver, Geometry(90), first, last), n)
        = <<y, YRes - 1 - c>>
    BY <2>1, <2>2, <2>4, <1>3, <1>8 DEF Place, IliPlace
  <2>6. Upright(y, YRes - 1 - c) = <<y, YRes - 1 - c>>  BY <2>1, <2>4, UprightPlace
  <2>7. Turned(90, c, y) = Upright(y, YRes - 1 - c)  BY DEF Turned
  <2> QED
    BY <1>1, <1>3, <1>7, <1>8, <1>10, <2>2, <2>3, <2>4, <2>5, <2>6, <2>7
<1>11. CASE a = 180
  <2>1. c \in 0 .. XRes - 1 /\ y \in 0 .. YRes - 1 /\ first \in 0 .. YRes - 1 /\ w = XRes
    BY <1>1, <1>4, <1>6, <1>11 DEF Geometry
  <2>2. U16(YRes - 1 - first) = YRes - 1 - first
    <3>1. YRes \in Nat \ {0} /\ YRes <= 65536  BY PanelAssumption
    <3> QED
      BY <2>1, <3>1, Mirrored
  <2>3. Column(driver, Geometry(180), first) = XRes - 1
        /\ Page(driver, Geometry(180), first, last).first = YRes - 1 - first
    BY <2>2 DEF Column, Page, Geometry
  <2>4. ILI9320[180] = {}  BY DEF ILI9320, Angles
  <2>5. /\ y % YRes = y /\ XRes - 1 - (XRes - 1) = 0
        /\ YRes - 1 - (YRes - 1 - first) = first
        /\ XRes - 1 - c \in 0 .. XRes - 1 /\ YRes - 1 - y \in 0 .. YRes - 1
    BY <2>1, Mirrored, PanelAssumption
  <2>6. Place(driver, {}, XRes - 1, Page(driver, Geometry(180), first, last), n)
        = <<XRes - 1 - c, YRes - 1 - y>>
    BY <2>1, <2>3, <2>5, <1>3, <1>8 DEF Place, IliPlace
  <2>7. Upright(XRes - 1 - c, YRes - 1 - y) = <<XRes - 1 - c, YRes - 1 - y>>
    BY <2>5, UprightPlace
  <2>8. Turned(180, c, y) = Upright(XRes - 1 - c, YRes - 1 - y)  BY DEF Turned
  <2> QED
    BY <1>1, <1>3, <1>7, <1>8, <1>11, <2>3, <2>4, <2>5, <2>6, <2>7, <2>8
<1>12. CASE a = 270
  <2>1. c \in 0 .. YRes - 1 /\ y \in 0 .. XRes - 1 /\ first \in 0 .. XRes - 1 /\ w = YRes
    BY <1>1, <1>4, <1>6, <1>12 DEF Geometry
  <2>2. U16(XRes - 1 - first) = XRes - 1 - first
    <3>1. XRes \in Nat \ {0} /\ XRes <= 65536  BY PanelAssumption
    <3> QED
      BY <2>1, <3>1, Mirrored
  <2>3. Column(driver, Geometry(270), first) = XRes - 1 - first
        /\ Page(driver, Geometry(270), first, last).first = 0
    BY <2>2 DEF Column, Page, Geometry
  <2>4. ILI9320[270] = {"ID1", "AM"}  BY DEF ILI9320, Angles
  <2>5. /\ y % XRes = y /\ XRes - 1 - (XRes - 1 - first) = first
        /\ XRes - 1 - y \in 0 .. XRes - 1
    BY <2>1, Mirrored, PanelAssumption
  <2>6. Place(driver, {"ID1", "AM"}, XRes - 1 - first,
              Page(driver, Geometry(270), first, last), n) = <<XRes - 1 - y, c>>
    BY <2>1, <2>3, <2>5, <1>3, <1>8 DEF Place, IliPlace
  <2>7. Upright(XRes - 1 - y, c) = <<XRes - 1 - y, c>>  BY <2>1, <2>5, UprightPlace
  <2>8. Turned(270, c, y) = Upright(XRes - 1 - y, c)  BY DEF Turned
  <2> QED
    BY <1>1, <1>3, <1>7, <1>8, <1>12, <2>3, <2>4, <2>5, <2>6, <2>7, <2>8
<1> QED
  BY <1>9, <1>10, <1>11, <1>12 DEF Angles

\* An update that no rotation crosses shows every pixel of its rows where the
\* angle says, on panels whose addresses fit the u16 of the address registers.
THEOREM ShownInPlace ==
  ASSUME XRes <= 65536, YRes <= 65536
  PROVE  Spec => []Placed
<1>1. IInv => Placed
  <2> SUFFICES ASSUME IInv, wpc = "send", ok, Uncrossed
               PROVE  WellPlaced(seen)
    BY DEF Placed
  <2>1. seen \in KnownVars /\ seen # NoGeometry  BY Known DEF IInv, Rows, Updating
  <2>2. applied = seen /\ updateVar = seen  BY DEF Uncrossed
  <2>3. /\ seen \in Geometries /\ lineLength = LL(seen)
        /\ mode = AddrMode(driver)[seen.rotate]
    BY <2>1, <2>2 DEF IInv, Requests, Left
  <2>4. ys <= ye /\ ye < seen.yres  BY <2>1, <2>2 DEF IInv, Rows
  <2>5. column = Column(driver, seen, ys) /\ page = Page(driver, seen, ys, ye)
    BY DEF IInv, Written
  <2>6. ys \in Nat /\ ye \in Nat /\ driver \in AllDrivers
    BY DriverAssumption DEF IInv, TypeOK, Sizes
  <2>7. PICK a \in Angles : seen = Geometry(a)  BY <2>3 DEF Geometries
  <2>8. seen.rotate = a  BY <2>7 DEF Geometry
  <2>9. seen.xres \in Nat \ {0}  BY <2>1, Known
  <2>10. Count = (ye - ys + 1) * seen.xres
    <3>1. PICK b \in Nat \ {0}, w \in Nat, k \in Nat :
            b = BytesPerPixel /\ w = seen.xres /\ k = ye - ys + 1
      BY <2>4, <2>6, <2>9, PanelAssumption
    <3>2. k * (w * b) = (k * w) * b + 0 /\ k * w \in Nat  OBVIOUS
    <3>3. ((k * w) * b + 0) \div b = k * w  BY <3>2, Quotient
    <3> QED
      BY <3>1, <3>2, <3>3, <2>3 DEF Count, LL
  <2>11. SUFFICES ASSUME NEW n \in 0 .. Count - 1
                  PROVE  LET at == PixelAt(seen, Offset + n * BytesPerPixel)
                         IN  Place(driver, mode, column, page, n)
                               = Turned(seen.rotate, at[1], at[2])
    BY DEF WellPlaced
  <2>12. n \in 0 .. (ye - ys + 1) * Geometry(a).xres - 1  BY <2>7, <2>10
  <2>13. n \in Nat
    <3>1. \A i \in Int : n \in 0 .. i => n \in Nat  OBVIOUS
    <3>2. Count - 1 \in Int  BY <2>6, <2>9, <2>10
    <3> QED
      BY <3>1, <3>2
  <2>14. PixelAt(seen, Offset + n * BytesPerPixel) = <<n % seen.xres, ys + n \div seen.xres>>
    BY <2>3, <2>6, <2>9, <2>13, PixelSent DEF Offset
  <2>15. Place(driver, mode, column, page, n)
         = Turned(a, n % seen.xres, ys + n \div seen.xres)
    BY <2>3, <2>4, <2>5, <2>6, <2>7, <2>8, <2>12, MipiShows, IliShows
  <2> QED
    BY <2>8, <2>14, <2>15
<1> QED
  BY Inductive, <1>1, PTL

=============================================================================
