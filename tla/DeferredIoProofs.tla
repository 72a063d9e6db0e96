--------------------------- MODULE DeferredIoProofs ---------------------------
(***************************************************************************)
(* For every number of drawing threads, mapping threads, rows, and every   *)
(* geometry of rows and pages: DeferredIo keeps its types, no change of    *)
(* the memory is lost, and it implements the safety part of ShadowDisplay. *)
(***************************************************************************)
EXTENDS DeferredIo, TLAPS

-----------------------------------------------------------------------------
(* Division, and what it says of rows and pages.                              *)

LEMMA DivBounds ==
  ASSUME NEW a \in Int, NEW n \in Nat \ {0}
  PROVE  /\ a \div n \in Int
         /\ n * (a \div n) <= a
         /\ a < n * (a \div n) + n
  OBVIOUS

LEMMA DivMonotone ==
  ASSUME NEW a \in Int, NEW b \in Int, a <= b, NEW n \in Nat \ {0}
  PROVE  a \div n <= b \div n
<1> DEFINE qa == a \div n
           qb == b \div n
<1>1. qa \in Int /\ qb \in Int /\ n * qa <= a /\ b < n * qb + n
  BY DivBounds
<1> HIDE DEF qa, qb
<1>2. SUFFICES ASSUME qb + 1 <= qa PROVE FALSE
  BY <1>1 DEF qa, qb
<1>3. n * (qb + 1) <= n * qa
  BY <1>1, <1>2
<1> QED BY <1>1, <1>3

\* A byte of the memory lies in a row of the panel.
LEMMA ByteRow ==
  ASSUME NEW b \in Bytes
  PROVE  b \div LineLength \in Lines
<1> DEFINE q == b \div LineLength
<1>1. YRes \in Nat \ {0} /\ LineLength \in Nat \ {0} /\ b \in Nat /\ b < YRes * LineLength
  BY GeometryAssumption DEF Bytes
<1>2. q \in Int /\ LineLength * q <= b /\ b < LineLength * q + LineLength
  BY <1>1, DivBounds
<1> HIDE DEF q
<1>3. 0 <= q
  <2>1. SUFFICES ASSUME q + 1 <= 0 PROVE FALSE
    BY <1>2
  <2>2. LineLength * (q + 1) <= 0
    BY <1>1, <1>2, <2>1
  <2> QED BY <1>1, <1>2, <2>2
<1>4. q < YRes
  <2>1. SUFFICES ASSUME YRes <= q PROVE FALSE
    BY <1>1, <1>2
  <2>2. LineLength * YRes <= LineLength * q
    BY <1>1, <1>2, <2>1
  <2> QED BY <1>1, <1>2, <2>2
<1> QED BY <1>1, <1>2, <1>3, <1>4 DEF q, Lines

\* PageLow and PageHigh, the arithmetic of fbdbi_deferred_io, bound the rows
\* that have a byte on the page, and stay on the panel.
LEMMA PageRows ==
  ASSUME NEW p \in Pages
  PROVE  /\ PageLow(p) \in Lines /\ PageHigh(p) \in Lines
         /\ PageLow(p) <= PageHigh(p)
         /\ \A l \in RowsOnPage(p) : PageLow(p) <= l /\ l <= PageHigh(p)
<1> DEFINE first == p * PageSize
           last == p * PageSize + PageSize - 1
           size == YRes * LineLength
<1>1. /\ YRes \in Nat \ {0} /\ LineLength \in Nat \ {0} /\ PageSize \in Nat \ {0}
      /\ p \in Nat /\ p <= (size - 1) \div PageSize
  BY GeometryAssumption DEF Pages
<1>2. first \in Nat /\ last \in Nat /\ first <= last /\ size \in Nat \ {0}
  <2>1. p * PageSize \in Nat /\ YRes * LineLength \in Nat \ {0}
    BY <1>1
  <2> QED BY <1>1, <2>1
<1>3. first <= size - 1
  <2>1. PageSize * ((size - 1) \div PageSize) <= size - 1
    BY <1>1, <1>2, DivBounds
  <2>2. (size - 1) \div PageSize \in Int
    BY <1>1, <1>2, DivBounds
  <2>3. p * PageSize <= PageSize * ((size - 1) \div PageSize)
    <3> DEFINE q == (size - 1) \div PageSize
    <3>1. q \in Int /\ p <= q
      BY <1>1, <2>2
    <3> HIDE DEF q
    <3>2. p * PageSize <= PageSize * q
      BY <1>1, <3>1
    <3> QED BY <3>2 DEF q
  <2> HIDE DEF size
  <2>4. PageSize * ((size - 1) \div PageSize) \in Int
    BY <1>1, <2>2
  <2> QED BY <1>2, <2>1, <2>3, <2>4
<1>4. first \in Bytes
  BY <1>2, <1>3 DEF Bytes
<1>5. PageLow(p) \in Lines
  BY <1>4, ByteRow DEF PageLow
<1>6. last \div LineLength \in Int /\ PageLow(p) <= last \div LineLength
  <2>1. first \div LineLength <= last \div LineLength
    BY <1>1, <1>2, DivMonotone
  <2>2. last \div LineLength \in Int
    BY <1>1, <1>2, DivBounds
  <2> QED BY <2>1, <2>2 DEF PageLow
<1>7. PageHigh(p) = IF last \div LineLength > YRes - 1 THEN YRes - 1
                                                     ELSE last \div LineLength
  BY DEF PageHigh
<1>8. PageHigh(p) \in Lines /\ PageLow(p) <= PageHigh(p)
  <2> HIDE DEF last
  <2> QED BY <1>1, <1>5, <1>6, <1>7 DEF Lines
<1>9. ASSUME NEW l \in RowsOnPage(p)
      PROVE  PageLow(p) <= l /\ l <= PageHigh(p)
  <2>1. l \in Lines
    BY DEF RowsOnPage
  <2>2. PICK b \in Bytes : b \div PageSize = p /\ b \div LineLength = l
    BY DEF RowsOnPage
  <2>3. b \in Int
    BY DEF Bytes
  <2>4. first <= b /\ b <= last
    <3>1. PageSize * (b \div PageSize) <= b /\ b < PageSize * (b \div PageSize) + PageSize
      BY <1>1, <2>3, DivBounds
    <3>2. PageSize * p <= b /\ b < PageSize * p + PageSize
      BY <2>2, <3>1
    <3> QED BY <1>1, <2>3, <3>2
  <2>5. first \div LineLength <= l
    BY <1>1, <1>2, <2>2, <2>3, <2>4, DivMonotone, SMTT(30)
  <2>6. l <= last \div LineLength
    BY <1>1, <1>2, <2>2, <2>3, <2>4, DivMonotone, SMTT(30)
  <2> HIDE DEF first, last
  <2> QED BY <1>1, <1>6, <1>7, <2>1, <2>5, <2>6 DEF PageLow, Lines, first
<1> QED BY <1>5, <1>8, <1>9

-----------------------------------------------------------------------------
(* Types.                                                                     *)

LEMMA RectRows ==
  ASSUME NEW r \in Rects
  PROVE  /\ r.y \in Lines /\ LastLine(r) \in Lines
         /\ Rows(r) \subseteq Lines
         /\ \A l \in Rows(r) : r.y <= l /\ l <= LastLine(r)
  BY GeometryAssumption DEF Rects, LastLine, Rows, Lines

LEMMA RectsGiven == FullScreen \in Rects
  BY GeometryAssumption DEF Rects, FullScreen, Lines

LEMMA InitTypeOK == Init => TypeOK
<1> SUFFICES ASSUME Init PROVE TypeOK
  OBVIOUS
<1>1. 0 \in Lines /\ YRes \in Nat \ {0} /\ MaxFsync \in Nat
  BY GeometryAssumption, BehaviourAssumption DEF Lines
<1>2. 0 \in Pages
  <2>1. YRes * LineLength - 1 \in Nat
    BY GeometryAssumption
  <2>2. 0 \div PageSize <= (YRes * LineLength - 1) \div PageSize
    BY <2>1, GeometryAssumption, DivMonotone
  <2>3. 0 \div PageSize = 0 /\ (YRes * LineLength - 1) \div PageSize \in Int
    BY <2>1, GeometryAssumption, DivBounds
  <2> QED BY <2>2, <2>3 DEF Pages
<1>3. 0 \in 0 .. YRes /\ 0 \in 0 .. MaxFsync
  BY <1>1
<1>4. wrect \in [Writers -> Rects] /\ mpage \in [Mappers -> Pages]
  BY <1>2, RectsGiven DEF Init
<1> QED BY <1>1, <1>3, <1>4 DEF Init, TypeOK

LEMMA StepTypeOK == TypeOK /\ [Next]_vars => TypeOK'
<1> SUFFICES ASSUME TypeOK, [Next]_vars PROVE TypeOK'
  OBVIOUS
<1> USE DEF TypeOK, rowVars, rangeVars, writerVars, workerVars, mapVars, fsyncVars
<1>0. YRes \in Nat \ {0} /\ 0 \in Lines /\ YRes - 1 \in Lines
  BY GeometryAssumption DEF Lines
<1>1. ASSUME NEW w \in Writers, NEW r \in Rects, BeginDraw(w, r) PROVE TypeOK'
  BY <1>1 DEF BeginDraw
<1>2. ASSUME NEW w \in Writers, Draw(w) PROVE TypeOK'
  <2>1. PICK l \in Rows(wrect[w]) : Touch(l)
    BY <1>2 DEF Draw
  <2>2. l \in Lines
    BY <2>1, RectRows
  <2> QED BY <1>2, <2>1, <2>2 DEF Draw, Touch
<1>3. ASSUME NEW w \in Writers, EndDraw(w) PROVE TypeOK'
  BY <1>3 DEF EndDraw
<1>4. ASSUME NEW w \in Writers, Mark(w) PROVE TypeOK'
  BY <1>4, RectRows DEF Mark, Widen
<1>5. ASSUME NEW w \in Writers, Schedule(w) PROVE TypeOK'
  BY <1>5, RectsGiven DEF Schedule, ScheduleWork
<1>6. ASSUME NEW m \in Mappers, NEW p \in Pages, Fault(m, p) PROVE TypeOK'
  BY <1>6 DEF Fault
<1>7. ASSUME NEW m \in Mappers, NEW b \in Bytes, Store(m, b) PROVE TypeOK'
  BY <1>7, ByteRow DEF Store, Touch
<1>8. ASSUME NEW m \in Mappers, ListPage(m) PROVE TypeOK'
  BY <1>8 DEF ListPage
<1>9. ASSUME NEW m \in Mappers, ScheduleFault(m) PROVE TypeOK'
  BY <1>9 DEF ScheduleFault, ScheduleWork
<1>10. ASSUME NEW m \in Mappers, EndFault(m) PROVE TypeOK'
  <2>1. mpage[m] \in Pages /\ 0 \in Pages
    BY GeometryAssumption DEF Pages
  <2> QED BY <1>10, <2>1 DEF EndFault
<1>11. CASE FsyncCancel
  <2>1. fsyncs' \in 0 .. MaxFsync
    <3>1. MaxFsync \in Nat
      BY BehaviourAssumption
    <3> QED BY <1>11, <3>1 DEF FsyncCancel
  <2> QED BY <1>11, <2>1 DEF FsyncCancel
<1>12. CASE FsyncStep
  BY <1>12 DEF FsyncStep, FsyncWaited, FsyncSchedule
<1>13. CASE StartWork
  BY <1>13 DEF StartWork
<1>14. CASE TakeRange
  <2>1. Starts \subseteq Lines /\ Ends \subseteq Lines
    BY PageRows DEF Starts, Ends
  <2>2. ys' \in Lines /\ ye' \in Lines /\ cursor' = ys'
    BY <1>14, <2>1 DEF TakeRange
  <2>3. cursor' \in 0 .. YRes
    BY <1>0, <2>2 DEF Lines
  <2> QED BY <1>0, <1>14, <2>2, <2>3 DEF TakeRange, ClearRange
<1>15. CASE SendLine
  <2>1. cursor' \in 0 .. YRes
    BY <1>0, <1>15 DEF SendLine, Lines
  <2> QED BY <1>15, <2>1 DEF SendLine
<1>16. CASE EndUpdate
  BY <1>0, <1>16 DEF EndUpdate, EndWork
<1>17. CASE UpdateFails
  <2>1. ys .. ye \subseteq Lines
    BY <1>0 DEF Lines
  <2> QED BY <1>0, <1>17, <2>1 DEF UpdateFails, EndWork
<1>18. CASE Inverted
  BY <1>0, <1>18 DEF Inverted, EndWork
<1>19. ASSUME NEW p \in Pages, CleanPage(p) PROVE TypeOK'
  BY <1>19 DEF CleanPage
<1>20. CASE UNCHANGED vars
  BY <1>20 DEF vars
<1> QED
  BY <1>1, <1>2, <1>3, <1>4, <1>5, <1>6, <1>7, <1>8, <1>9, <1>10, <1>11, <1>12, <1>13,
     <1>14, <1>15, <1>16, <1>17, <1>18, <1>19, <1>20
  DEF Next, WriterStep, MapperStep, WorkerStep

\* Every variable of the deferred-I/O machinery keeps its type; in particular the
\* dirty range and the arguments of display->update always are rows of the panel.
THEOREM TypeCorrect == Spec => []TypeOK
<1>1. Init => TypeOK
  BY InitTypeOK
<1>2. TypeOK /\ [Next]_vars => TypeOK'
  BY StepTypeOK
<1> QED BY <1>1, <1>2, PTL DEF Spec

-----------------------------------------------------------------------------
(* No lost update.  Beside the property itself, the inductive invariant says  *)
(* that a page whose fault is under way is listed and not being sent, that    *)
(* the work is scheduled while pages are listed, and that an update only      *)
(* moves forward.                                                             *)

FaultsListed ==
  \A m \in Mappers : mpc[m] \in {"schedule", "pte"} =>
                        mpage[m] \in pagelist /\ worker \in {"idle", "clean"}
PagesScheduled == pagelist # {} /\ worker \in {"idle", "clean"} => Scheduled
CursorForward == worker = "update" => ys <= cursor

IndInv ==
  /\ TypeOK
  /\ PagesTracked
  /\ FaultsListed
  /\ PagesScheduled
  /\ CursorForward
  /\ NoLostUpdate

\* What a step does to the rows, beside the rest of the invariant: no change is lost,
\* and it is a step of ShadowDisplay.
Implements == NoLostUpdate' /\ Shadow!Next

\* A step that neither draws nor sends is one when it keeps every promise: to
\* ShadowDisplay it promises rows, or none.
LEMMA KeptPromises ==
  ASSUME TypeOK, NoLostUpdate, stale' = stale, dropped' = dropped,
         \A l \in Lines : Promised(l) => Promised(l)'
  PROVE  Implements
<1>1. NoLostUpdate'
  BY DEF TypeOK, NoLostUpdate
<1>2. Shadow!Promise({l \in Lines : Promised(l)'})
  BY DEF Shadow!Promise
<1>3. \E L \in SUBSET Lines : Shadow!Promise(L)
  <2>1. {l \in Lines : Promised(l)'} \in SUBSET Lines
    OBVIOUS
  <2> QED BY <1>2, <2>1
<1> QED BY <1>1, <1>3 DEF Implements, Shadow!Next

\* A step that changes a promised row and keeps the promises.
LEMMA DrawnPromised ==
  ASSUME TypeOK, NoLostUpdate, NEW k \in Lines, Promised(k), Touch(k),
         \A l \in Lines : Promised(l)' <=> Promised(l)
  PROVE  Implements
<1>1. NoLostUpdate'
  BY DEF Touch, TypeOK, NoLostUpdate
<1>2. Shadow!Draw(k)
  BY DEF Shadow!Draw, Touch
<1> QED BY <1>1, <1>2 DEF Implements, Shadow!Next

\* One step of a writer.
LEMMA WriterKeepsInv ==
  ASSUME IndInv, NEW w \in Writers,
         (\E r \in Rects : BeginDraw(w, r)) \/ Draw(w) \/ WriterStep(w)
  PROVE  PagesTracked' /\ FaultsListed' /\ PagesScheduled' /\ CursorForward' /\ Implements
<1> USE DEF IndInv, TypeOK, rowVars, rangeVars, writerVars, workerVars, mapVars, fsyncVars
<1>1. /\ UNCHANGED <<worker, ys, ye, cursor, pagelist, writable, mpc, mpage, fsync>>
      /\ Scheduled => Scheduled'
  <2>1. ASSUME NEW r \in Rects, BeginDraw(w, r)
        PROVE  UNCHANGED <<worker, ys, ye, cursor, pagelist, writable, mpc, mpage, fsync>>
               /\ (Scheduled => Scheduled')
    BY <2>1 DEF BeginDraw, Scheduled
  <2>2. ASSUME Draw(w)
        PROVE  UNCHANGED <<worker, ys, ye, cursor, pagelist, writable, mpc, mpage, fsync>>
               /\ (Scheduled => Scheduled')
    BY <2>2 DEF Draw, Scheduled
  <2>3. ASSUME EndDraw(w)
        PROVE  UNCHANGED <<worker, ys, ye, cursor, pagelist, writable, mpc, mpage, fsync>>
               /\ (Scheduled => Scheduled')
    BY <2>3 DEF EndDraw, Scheduled
  <2>4. ASSUME Mark(w)
        PROVE  UNCHANGED <<worker, ys, ye, cursor, pagelist, writable, mpc, mpage, fsync>>
               /\ (Scheduled => Scheduled')
    BY <2>4 DEF Mark, Scheduled
  <2>5. ASSUME Schedule(w)
        PROVE  UNCHANGED <<worker, ys, ye, cursor, pagelist, writable, mpc, mpage, fsync>>
               /\ (Scheduled => Scheduled')
    BY <2>5 DEF Schedule, ScheduleWork, Scheduled
  <2> QED BY <2>1, <2>2, <2>3, <2>4, <2>5 DEF WriterStep
<1>2. PagesTracked' /\ FaultsListed' /\ PagesScheduled' /\ CursorForward'
  BY <1>1 DEF PagesTracked, FaultsListed, PagesScheduled, CursorForward
<1>3. ASSUME NEW l \in Lines
      PROVE  /\ Listed(l) => Listed(l)'
             /\ InFlight(l) => InFlight(l)'
  BY <1>1 DEF Listed, InFlight
<1>4. ASSUME NEW r \in Rects, BeginDraw(w, r) PROVE Implements
  <2>1. ASSUME NEW l \in Lines, Promised(l) PROVE Promised(l)'
    <3>1. BeingDrawn(l) => BeingDrawn(l)'
      BY <1>4 DEF BeginDraw, BeingDrawn
    <3>2. Recorded(l) => Recorded(l)'
      BY <1>1, <1>4 DEF BeginDraw, Recorded
    <3> QED BY <1>3, <2>1, <3>1, <3>2 DEF Promised
  <2> QED BY <1>4, <2>1, KeptPromises DEF BeginDraw
<1>5. ASSUME Draw(w) PROVE Implements
  <2>1. PICK l \in Rows(wrect[w]) : Touch(l)
    BY <1>5 DEF Draw
  <2>2. Promised(l)
    BY <1>5 DEF Draw, BeingDrawn, Promised
  <2>3. \A k \in Lines : Promised(k)' <=> Promised(k)
    BY <1>5 DEF Draw, Promised, BeingDrawn, Recorded, Listed, InFlight, Scheduled
  <2>4. l \in Lines
    BY RectRows
  <2> QED BY <2>1, <2>2, <2>3, <2>4, DrawnPromised
<1>6. ASSUME EndDraw(w) PROVE Implements
  <2>1. ASSUME NEW l \in Lines, Promised(l) PROVE Promised(l)'
    <3>1. BeingDrawn(l) => BeingDrawn(l)'
      BY <1>6 DEF EndDraw, BeingDrawn
    <3>2. Recorded(l) => Recorded(l)'
      BY <1>1, <1>6 DEF EndDraw, Recorded
    <3> QED BY <1>3, <2>1, <3>1, <3>2 DEF Promised
  <2> QED BY <1>6, <2>1, KeptPromises DEF EndDraw
<1>7. ASSUME Mark(w) PROVE Implements
  <2>1. ASSUME NEW l \in Lines, Promised(l) PROVE Promised(l)'
    <3>1. CASE l \in Rows(wrect[w])
      <4>1. Scheduled'
        BY <1>7 DEF Mark, Scheduled
      <4>2. dirtyStart' <= l /\ l <= dirtyEnd'
        BY <1>7, <3>1, RectRows DEF Mark, Widen, Lines
      <4> QED BY <4>1, <4>2 DEF Recorded, Promised
    <3>2. CASE l \notin Rows(wrect[w])
      <4>1. BeingDrawn(l) => BeingDrawn(l)'
        BY <1>7, <3>2 DEF Mark, BeingDrawn
      <4>2. Recorded(l) => Recorded(l)'
        BY <1>1, <1>7, RectRows DEF Mark, Widen, Recorded, Lines
      <4> QED BY <1>3, <2>1, <4>1, <4>2 DEF Promised
    <3> QED BY <3>1, <3>2
  <2> QED BY <1>7, <2>1, KeptPromises DEF Mark
<1>8. ASSUME Schedule(w) PROVE Implements
  <2>1. ASSUME NEW l \in Lines, Promised(l) PROVE Promised(l)'
    <3>1. BeingDrawn(l) => BeingDrawn(l)'
      BY <1>8 DEF Schedule, BeingDrawn
    <3>2. Recorded(l) => Recorded(l)'
      BY <1>1, <1>8 DEF Schedule, Recorded
    <3> QED BY <1>3, <2>1, <3>1, <3>2 DEF Promised
  <2> QED BY <1>8, <2>1, KeptPromises DEF Schedule
<1> QED BY <1>2, <1>4, <1>5, <1>6, <1>7, <1>8 DEF WriterStep

\* One step of a mapping thread.
LEMMA MapperKeepsInv ==
  ASSUME IndInv, NEW m \in Mappers,
         \/ \E p \in Pages : Fault(m, p)
         \/ \E b \in Bytes : Store(m, b)
         \/ MapperStep(m)
  PROVE  PagesTracked' /\ FaultsListed' /\ PagesScheduled' /\ CursorForward' /\ Implements
<1> USE DEF IndInv, TypeOK, rowVars, rangeVars, writerVars, workerVars, mapVars, fsyncVars
<1>1. ASSUME NEW p \in Pages, Fault(m, p)
      PROVE  PagesTracked' /\ FaultsListed' /\ PagesScheduled' /\ CursorForward' /\ Implements
  <2>1. Scheduled => Scheduled'
    BY <1>1 DEF Fault, Scheduled
  <2>2. PagesTracked' /\ FaultsListed' /\ PagesScheduled' /\ CursorForward'
    BY <1>1, <2>1 DEF Fault, PagesTracked, FaultsListed, PagesScheduled, CursorForward
  <2>3. \A l \in Lines : Promised(l) => Promised(l)'
    BY <1>1, <2>1 DEF Fault, Promised, BeingDrawn, Recorded, Listed, InFlight
  <2> QED BY <1>1, <2>2, <2>3, KeptPromises DEF Fault
<1>2. ASSUME NEW b \in Bytes, Store(m, b)
      PROVE  PagesTracked' /\ FaultsListed' /\ PagesScheduled' /\ CursorForward' /\ Implements
  <2> DEFINE p == b \div PageSize
             k == b \div LineLength
  <2>1. Scheduled' = Scheduled
    BY <1>2 DEF Store, Scheduled
  <2>2. PagesTracked' /\ FaultsListed' /\ PagesScheduled' /\ CursorForward'
    BY <1>2, <2>1 DEF Store, PagesTracked, FaultsListed, PagesScheduled, CursorForward
  <2>3. k \in Lines
    BY ByteRow
  <2>4. \A l \in Lines : Promised(l)' <=> Promised(l)
    BY <1>2, <2>1 DEF Store, Promised, BeingDrawn, Recorded, Listed, InFlight
  <2>5. Promised(k)
    <3>1. p \in writable
      BY <1>2 DEF Store
    <3>2. p \in pagelist /\ worker \in {"idle", "clean"}
      BY <3>1 DEF PagesTracked
    <3>3. k \in RowsOnPage(p)
      BY <2>3 DEF RowsOnPage
    <3>4. Scheduled
      BY <3>2 DEF PagesScheduled
    <3> QED BY <3>2, <3>3, <3>4 DEF Listed, Promised
  <2>6. Touch(k)
    BY <1>2 DEF Store
  <2> HIDE DEF k
  <2> QED BY <2>2, <2>3, <2>4, <2>5, <2>6, DrawnPromised
<1>3. ASSUME ListPage(m)
      PROVE  PagesTracked' /\ FaultsListed' /\ PagesScheduled' /\ CursorForward' /\ Implements
  <2>1. Scheduled'
    BY <1>3 DEF ListPage, Scheduled
  <2>2. PagesTracked' /\ FaultsListed' /\ PagesScheduled' /\ CursorForward'
    BY <1>3, <2>1 DEF ListPage, PagesTracked, FaultsListed, PagesScheduled, CursorForward
  <2>3. \A l \in Lines : Promised(l) => Promised(l)'
    BY <1>3, <2>1 DEF ListPage, Promised, BeingDrawn, Recorded, Listed, InFlight
  <2> QED BY <1>3, <2>2, <2>3, KeptPromises DEF ListPage
<1>4. ASSUME ScheduleFault(m)
      PROVE  PagesTracked' /\ FaultsListed' /\ PagesScheduled' /\ CursorForward' /\ Implements
  <2>1. Scheduled'
    BY <1>4 DEF ScheduleFault, ScheduleWork, Scheduled
  <2>2. PagesTracked' /\ FaultsListed' /\ PagesScheduled' /\ CursorForward'
    BY <1>4, <2>1 DEF ScheduleFault, PagesTracked, FaultsListed, PagesScheduled, CursorForward
  <2>3. \A l \in Lines : Promised(l) => Promised(l)'
    BY <1>4, <2>1 DEF ScheduleFault, Promised, BeingDrawn, Recorded, Listed, InFlight
  <2> QED BY <1>4, <2>2, <2>3, KeptPromises DEF ScheduleFault
<1>5. ASSUME EndFault(m)
      PROVE  PagesTracked' /\ FaultsListed' /\ PagesScheduled' /\ CursorForward' /\ Implements
  <2>1. Scheduled => Scheduled'
    BY <1>5 DEF EndFault, Scheduled
  <2>2. PagesTracked' /\ FaultsListed' /\ PagesScheduled' /\ CursorForward'
    BY <1>5, <2>1 DEF EndFault, PagesTracked, FaultsListed, PagesScheduled, CursorForward
  <2>3. \A l \in Lines : Promised(l) => Promised(l)'
    BY <1>5, <2>1 DEF EndFault, Promised, BeingDrawn, Recorded, Listed, InFlight
  <2> QED BY <1>5, <2>2, <2>3, KeptPromises DEF EndFault
<1> QED BY <1>1, <1>2, <1>3, <1>4, <1>5 DEF MapperStep

\* One step of fsync.
LEMMA FsyncKeepsInv ==
  ASSUME IndInv, FsyncCancel \/ FsyncStep
  PROVE  PagesTracked' /\ FaultsListed' /\ PagesScheduled' /\ CursorForward' /\ Implements
<1> USE DEF IndInv, TypeOK, rowVars, rangeVars, writerVars, workerVars, mapVars, fsyncVars
<1>1. /\ UNCHANGED <<rowVars, rangeVars, writerVars, workerVars, mapVars>>
      /\ Scheduled => Scheduled'
  BY DEF FsyncCancel, FsyncStep, FsyncWaited, FsyncSchedule, Scheduled
<1>2. PagesTracked' /\ FaultsListed' /\ PagesScheduled' /\ CursorForward'
  BY <1>1 DEF PagesTracked, FaultsListed, PagesScheduled, CursorForward
<1>3. \A l \in Lines : Promised(l) => Promised(l)'
  BY <1>1 DEF Promised, BeingDrawn, Recorded, Listed, InFlight
<1> QED BY <1>1, <1>2, <1>3, KeptPromises

\* One step of the work.
LEMMA WorkerKeepsInv ==
  ASSUME IndInv, WorkerStep
  PROVE  PagesTracked' /\ FaultsListed' /\ PagesScheduled' /\ CursorForward' /\ Implements
<1> USE DEF IndInv, TypeOK, rowVars, rangeVars, writerVars, workerVars, mapVars, fsyncVars
<1>1. ASSUME StartWork
      PROVE  PagesTracked' /\ FaultsListed' /\ PagesScheduled' /\ CursorForward' /\ Implements
  <2>1. Scheduled'
    BY <1>1 DEF StartWork, Scheduled
  <2>2. PagesTracked' /\ FaultsListed' /\ PagesScheduled' /\ CursorForward'
    BY <1>1, <2>1 DEF StartWork, PagesTracked, FaultsListed, PagesScheduled, CursorForward
  <2>3. \A l \in Lines : Promised(l) => Promised(l)'
    BY <1>1, <2>1 DEF StartWork, Promised, BeingDrawn, Recorded, Listed, InFlight
  <2> QED BY <1>1, <2>2, <2>3, KeptPromises DEF StartWork
<1>2. ASSUME NEW p \in Pages, CleanPage(p)
      PROVE  PagesTracked' /\ FaultsListed' /\ PagesScheduled' /\ CursorForward' /\ Implements
  <2>1. Scheduled'
    BY <1>2 DEF CleanPage, Scheduled
  <2>2. PagesTracked' /\ FaultsListed' /\ PagesScheduled' /\ CursorForward'
    BY <1>2, <2>1 DEF CleanPage, PagesTracked, FaultsListed, PagesScheduled, CursorForward
  <2>3. \A l \in Lines : Promised(l) => Promised(l)'
    BY <1>2, <2>1 DEF CleanPage, Promised, BeingDrawn, Recorded, Listed, InFlight
  <2> QED BY <1>2, <2>2, <2>3, KeptPromises DEF CleanPage
<1>3. ASSUME TakeRange
      PROVE  PagesTracked' /\ FaultsListed' /\ PagesScheduled' /\ CursorForward' /\ Implements
  <2>1. writable = {} /\ \A m \in Mappers : mpc[m] \notin {"schedule", "pte"}
    BY <1>3 DEF TakeRange, PageLocked, PagesTracked, FaultsListed
  <2>2. worker' = "update" /\ cursor' = ys' /\ ys' \in Lines
    <3>1. Starts \subseteq Lines
      BY PageRows DEF Starts
    <3> QED BY <1>3, <3>1 DEF TakeRange
  <2>3. PagesTracked' /\ FaultsListed' /\ PagesScheduled' /\ CursorForward'
    BY <1>3, <2>1, <2>2
    DEF TakeRange, PagesTracked, FaultsListed, PagesScheduled, CursorForward, Lines
  <2>4. /\ \A x \in Starts : ys' <= x
        /\ \A x \in Ends : x <= ye'
    <3>1. Ends \subseteq Lines
      BY PageRows DEF Ends
    <3>2. \A x \in Ends : ye' >= x /\ ye' \in Lines
      BY <1>3, <3>1 DEF TakeRange
    <3>3. \A x \in Ends : x <= ye'
      BY <3>1, <3>2 DEF Lines
    <3> QED BY <1>3, <3>3 DEF TakeRange
  <2>5. ASSUME NEW l \in Lines, Promised(l) PROVE Promised(l)'
    <3>1. CASE BeingDrawn(l)
      BY <1>3, <3>1 DEF TakeRange, BeingDrawn, Promised
    <3>2. CASE Recorded(l)
      <4>1. ys' <= dirtyStart /\ dirtyEnd <= ye'
        BY <2>4 DEF Starts, Ends
      <4>2. ye' \in Lines
        BY <1>3, PageRows DEF TakeRange, Ends
      <4>3. cursor' <= l /\ l <= ye'
        BY <2>2, <3>2, <4>1, <4>2 DEF Recorded, Lines
      <4> QED BY <2>2, <4>3 DEF InFlight, Promised
    <3>3. CASE Listed(l)
      <4>1. PICK p \in pagelist : l \in RowsOnPage(p)
        BY <3>3 DEF Listed
      <4>2. /\ PageLow(p) \in Lines /\ PageHigh(p) \in Lines
            /\ PageLow(p) <= l /\ l <= PageHigh(p)
        BY <4>1, PageRows
      <4>3. ys' <= PageLow(p) /\ PageHigh(p) <= ye'
        BY <2>4 DEF Starts, Ends
      <4>4. ye' \in Lines
        BY <1>3, PageRows DEF TakeRange, Ends
      <4>5. cursor' <= l /\ l <= ye'
        BY <2>2, <4>2, <4>3, <4>4 DEF Lines
      <4> QED BY <2>2, <4>5 DEF InFlight, Promised
    <3>4. ~InFlight(l)
      BY <1>3 DEF TakeRange, InFlight
    <3> QED BY <2>5, <3>1, <3>2, <3>3, <3>4 DEF Promised
  <2> QED BY <1>3, <2>3, <2>5, KeptPromises DEF TakeRange
<1>4. ASSUME SendLine
      PROVE  PagesTracked' /\ FaultsListed' /\ PagesScheduled' /\ CursorForward' /\ Implements
  <2>1. Scheduled' = Scheduled
    BY <1>4 DEF SendLine, Scheduled
  <2>2. PagesTracked' /\ FaultsListed' /\ PagesScheduled' /\ CursorForward'
    BY <1>4, <2>1
    DEF SendLine, PagesTracked, FaultsListed, PagesScheduled, CursorForward, Lines
  <2>3. ASSUME NEW l \in Lines, l # cursor PROVE Promised(l)' <=> Promised(l)
    <3>1. InFlight(l)' <=> InFlight(l)
      BY <1>4, <2>3 DEF SendLine, InFlight, Lines
    <3> QED BY <1>4, <2>1, <3>1 DEF SendLine, Promised, BeingDrawn, Recorded, Listed
  <2>4. NoLostUpdate'
    BY <1>4, <2>3 DEF SendLine, NoLostUpdate
  <2>5. cursor \in Lines /\ Promised(cursor)
    <3>1. worker = "update" /\ cursor \in Int /\ cursor <= ye
      BY <1>4 DEF SendLine
    <3>2. cursor \in Lines
      BY <3>1, GeometryAssumption DEF Lines
    <3>3. InFlight(cursor)
      BY <3>1 DEF InFlight
    <3> QED BY <3>2, <3>3 DEF Promised
  <2>6. {l \in Lines : Promised(l)'} \in {{l \in Lines : Promised(l)},
                                         {l \in Lines : Promised(l)} \ {cursor}}
    <3>1. CASE Promised(cursor)'
      BY <2>3, <2>5, <3>1
    <3>2. CASE ~Promised(cursor)'
      BY <2>3, <2>5, <3>2
    <3> QED BY <3>1, <3>2
  <2>7. Shadow!Send(cursor)
    BY <1>4, <2>5, <2>6 DEF SendLine, Shadow!Send
  <2> QED BY <2>2, <2>4, <2>5, <2>7 DEF Implements, Shadow!Next
<1>5. ASSUME EndWork, worker = "update"
      PROVE  /\ PagesTracked' /\ FaultsListed' /\ PagesScheduled' /\ CursorForward'
             /\ \A l \in Lines : Promised(l) /\ ~InFlight(l) => Promised(l)'
  <2>1. Scheduled => Scheduled'
    BY <1>5 DEF EndWork, Scheduled
  <2>2. PagesTracked' /\ FaultsListed' /\ PagesScheduled' /\ CursorForward'
    BY <1>5 DEF EndWork, PagesTracked, FaultsListed, PagesScheduled, CursorForward
  <2>3. \A l \in Lines : Promised(l) /\ ~InFlight(l) => Promised(l)'
    BY <1>5, <2>1 DEF EndWork, Promised, BeingDrawn, Recorded, Listed
  <2> QED BY <2>2, <2>3
<1>6. ASSUME EndUpdate
      PROVE  PagesTracked' /\ FaultsListed' /\ PagesScheduled' /\ CursorForward' /\ Implements
  <2>1. \A l \in Lines : ~InFlight(l)
    BY <1>6 DEF EndUpdate, InFlight, Lines
  <2> QED BY <1>5, <1>6, <2>1, KeptPromises DEF EndUpdate
<1>7. ASSUME UpdateFails
      PROVE  PagesTracked' /\ FaultsListed' /\ PagesScheduled' /\ CursorForward' /\ Implements
  <2>1. \A l \in Lines : InFlight(l) => l \in ys .. ye
    BY <1>7 DEF UpdateFails, InFlight, CursorForward, Lines
  <2>2. NoLostUpdate'
    BY <1>5, <1>7, <2>1 DEF UpdateFails, NoLostUpdate
  <2>3. \A l \in Lines : Promised(l)' => Promised(l)
    <3>1. Scheduled' => Scheduled
      BY <1>7 DEF UpdateFails, EndWork, Scheduled
    <3> QED BY <1>7, <3>1
            DEF UpdateFails, EndWork, Promised, BeingDrawn, Recorded, Listed, InFlight
  <2> DEFINE P == {l \in Lines : Promised(l)}
             Q == {l \in Lines : Promised(l)'}
  <2>4. Q = P \ (P \ Q) /\ P \ Q \in SUBSET (ys .. ye)
    BY <1>5, <1>7, <2>1, <2>3 DEF UpdateFails
  <2>5. Q \in {P \ G : G \in SUBSET (ys .. ye)}
    <3> HIDE DEF P, Q
    <3> QED BY <2>4
  <2>6. Shadow!Fail(ys .. ye)
    BY <1>7, <2>5 DEF UpdateFails, Shadow!Fail
  <2>7. \E L \in SUBSET Lines : Shadow!Fail(L)
    <3>1. ys \in 0 .. YRes - 1 /\ ye \in 0 .. YRes - 1 /\ YRes \in Nat
      BY GeometryAssumption DEF Lines
    <3>2. \A l \in ys .. ye : l \in 0 .. YRes - 1
      BY <3>1
    <3>3. ys .. ye \in SUBSET Lines
      BY <3>2 DEF Lines
    <3> QED BY <2>6, <3>3
  <2>8. Implements
    BY <2>2, <2>7 DEF Implements, Shadow!Next
  <2>9. EndWork /\ worker = "update"
    BY <1>7 DEF UpdateFails
  <2> QED BY <1>5, <2>8, <2>9
<1>8. ASSUME Inverted
      PROVE  PagesTracked' /\ FaultsListed' /\ PagesScheduled' /\ CursorForward' /\ Implements
  <2>1. \A l \in Lines : ~InFlight(l)
    BY <1>8 DEF Inverted, InFlight, CursorForward, Lines
  <2>2. CASE EndWork
    BY <1>5, <1>8, <2>1, <2>2, KeptPromises DEF Inverted
  <2>3. CASE worker' = "oops" /\ UNCHANGED <<rangeVars, writerVars, queued, ys, ye, cursor,
                                             mapVars, fsyncVars>>
    <3>1. Scheduled' = Scheduled
      BY <1>8, <2>3 DEF Inverted, Scheduled
    <3>2. PagesTracked' /\ FaultsListed' /\ PagesScheduled' /\ CursorForward'
      BY <1>8, <2>3 DEF Inverted, PagesTracked, FaultsListed, PagesScheduled, CursorForward
    <3>3. \A l \in Lines : Promised(l) => Promised(l)'
      BY <1>8, <2>1, <2>3, <3>1
      DEF Inverted, Promised, BeingDrawn, Recorded, Listed
    <3> QED BY <1>8, <3>2, <3>3, KeptPromises DEF Inverted
  <2> QED BY <1>8, <2>2, <2>3 DEF Inverted
<1> QED BY <1>1, <1>2, <1>3, <1>4, <1>6, <1>7, <1>8 DEF WorkerStep

LEMMA StepKeepsInv ==
  ASSUME IndInv, [Next]_vars
  PROVE  IndInv' /\ [Shadow!Next]_(Shadow!vars)
<1>1. TypeOK'
  BY StepTypeOK DEF IndInv
<1>2. CASE Next
  <2>1. PagesTracked' /\ FaultsListed' /\ PagesScheduled' /\ CursorForward' /\ Implements
    BY <1>2, WriterKeepsInv, MapperKeepsInv, FsyncKeepsInv, WorkerKeepsInv DEF Next
  <2> QED BY <1>1, <2>1 DEF IndInv, Implements
<1>3. CASE UNCHANGED vars
  <2>1. \A l \in Lines : Promised(l)' <=> Promised(l)
    BY <1>3
    DEF vars, rowVars, rangeVars, writerVars, workerVars, mapVars, fsyncVars, Scheduled,
        Promised, BeingDrawn, Recorded, Listed, InFlight
  <2>2. UNCHANGED Shadow!vars
    BY <1>3, <2>1 DEF vars, rowVars, Shadow!vars
  <2>3. NoLostUpdate'
    BY <1>3, <2>1, KeptPromises DEF vars, rowVars, IndInv, Implements
  <2>4. PagesTracked' /\ FaultsListed' /\ PagesScheduled' /\ CursorForward'
    BY <1>3
    DEF vars, rowVars, rangeVars, writerVars, workerVars, mapVars, fsyncVars, IndInv,
        PagesTracked, FaultsListed, PagesScheduled, CursorForward, Scheduled
  <2> QED BY <1>1, <2>2, <2>3, <2>4 DEF IndInv
<1> QED BY <1>2, <1>3

LEMMA IndInvHolds == Spec => []IndInv
<1>1. Init => IndInv
  BY InitTypeOK DEF Init, IndInv, PagesTracked, FaultsListed, PagesScheduled, CursorForward,
                    NoLostUpdate
<1>2. IndInv /\ [Next]_vars => IndInv'
  BY StepKeepsInv
<1> QED BY <1>1, <1>2, PTL DEF Spec

\* No change of the memory is lost, whatever the interleaving of drawing calls,
\* page faults, fsync and the work, for every panel and page geometry.
THEOREM NothingLost == Spec => []NoLostUpdate
<1>1. IndInv => NoLostUpdate
  BY DEF IndInv
<1> QED BY <1>1, IndInvHolds, PTL

\* Listed pages are written to only while fbdbi_deferred_io will look at them again.
THEOREM PagesAlwaysTracked == Spec => []PagesTracked
<1>1. IndInv => PagesTracked
  BY DEF IndInv
<1> QED BY <1>1, IndInvHolds, PTL

\* The dirty range, the page list, the work and fsync implement the safety part of what
\* ShadowDisplay promises: a row changes only while it is promised to be sent, and a
\* promise is given up only by sending the row or by an update that failed.
THEOREM PromisesKept == Spec => Shadow!Spec
<1>1. Init => Shadow!Init
  <2>1. Init => \A l \in Lines : ~Promised(l)
    BY DEF Init, Promised, BeingDrawn, Recorded, Listed, InFlight, Scheduled
  <2> QED BY <2>1 DEF Init, Shadow!Init
<1>2. IndInv /\ [Next]_vars => [Shadow!Next]_(Shadow!vars)
  BY StepKeepsInv
<1> QED BY <1>1, <1>2, IndInvHolds, PTL DEF Spec, Shadow!Spec
=============================================================================
