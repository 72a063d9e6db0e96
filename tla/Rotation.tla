------------------------------- MODULE Rotation -------------------------------
(***************************************************************************)
(* The geometry of a panel: what a rotation changes and what an update     *)
(* that runs beside it makes of that.                                      *)
(*                                                                         *)
(*   - FBIOPUT_VSCREENINFO checks the request (fbdbi_fb_check_var), stores *)
(*     it in info->var and calls fbdbi_fb_set_par, which sets              *)
(*     fix.line_length and has the controller set its address mode, both   *)
(*     under lcdreg_lock; when that fails the old var is put back, the     *)
(*     line length is not;                                                 *)
(*   - a drawing call records rows of the moment's var in the dirty range; *)
(*   - the deferred work takes the range and calls display->update, which  *)
(*     reads info->var before it takes the lock and the line length after, *)
(*     programs an address window or a start address and sends the words.  *)
(*                                                                         *)
(* Where the controller puts the n-th pixel it is sent is a function of    *)
(* its address mode and its address registers (MIPI DBI: a window that is  *)
(* exchanged and mirrored; ILI9320: a start and two directions).  Each     *)
(* driver's four address modes are the tables of its probe.                *)
(*                                                                         *)
(* The content of the memory is not kept: a pixel is named by its place.   *)
(***************************************************************************)
EXTENDS Integers

CONSTANTS Drivers,       \* the drivers of the instance
          XRes, YRes,    \* display->xres and yres, the panel unrotated
          BytesPerPixel, \* of the format: 2, 3 or 4
          DtRotations,   \* what the "rotate" property may hold
          MayFail,       \* whether a register access may fail
          MaxRequests    \* bound: how many requests are accepted

AllDrivers == {"mi0283qt", "adafruit797", "sainsmart18", "hy28a", "itdb02_28"}

ASSUME DriverAssumption == Drivers \subseteq AllDrivers
ASSUME PanelAssumption == /\ XRes \in Nat \ {0} /\ YRes \in Nat \ {0}
                          /\ BytesPerPixel \in {2, 3, 4}
ASSUME RequestAssumption == /\ DtRotations \subseteq Nat
                            /\ MayFail \in BOOLEAN
                            /\ MaxRequests \in Nat

Angles == {0, 90, 180, 270}
SmemLen == XRes * YRes * BytesPerPixel

\* The geometry fbdbi_fb_check_var makes of an angle.
Geometry(angle) ==
  IF angle \in {90, 270} THEN [xres |-> YRes, yres |-> XRes, rotate |-> angle]
                         ELSE [xres |-> XRes, yres |-> YRes, rotate |-> angle]
NoGeometry == [xres |-> 0, yres |-> 0, rotate |-> 0]

\* What devm_fbdbi_init and the "rotate" property make of var.
DtVar(angle) == [xres |-> XRes, yres |-> YRes, rotate |-> angle]

-----------------------------------------------------------------------------
(* The address modes in the drivers' configurations.  MIPI DBI: MV exchanges  *)
(* columns and pages, MX and MY mirror.  ILI9320: with AM the vertical        *)
(* address moves first, ID0 and ID1 make the horizontal and the vertical      *)
(* address increase.                                                          *)
MI0283QT == [a \in Angles |-> CASE a = 0 -> {"MX"}
                                [] a = 90 -> {"MV", "MY", "MX"}
                                [] a = 180 -> {"MY"}
                                [] a = 270 -> {"MV"}]
ADAFRUIT797 == [a \in Angles |-> CASE a = 0 -> {}
                                   [] a = 90 -> {"MV", "MY"}
                                   [] a = 180 -> {"MX", "MY"}
                                   [] a = 270 -> {"MX", "MV"}]
SAINSMART18 == [a \in Angles |-> CASE a = 0 -> {"MX", "MY"}
                                   [] a = 90 -> {"MX", "MV"}
                                   [] a = 180 -> {}
                                   [] a = 270 -> {"MY", "MV"}]
\* 0x30, 0x18, 0x00 and 0x28: the same two tables in hy28afb.c and itdb02-28fb.c.
ILI9320 == [a \in Angles |-> CASE a = 0 -> {"ID1", "ID0"}
                               [] a = 90 -> {"ID0", "AM"}
                               [] a = 180 -> {}
                               [] a = 270 -> {"ID1", "AM"}]

\* Mutation: 90 and 270 degrees are swapped in the table of a probe.
AddrModeSwapped(d) ==
  CASE d = "mi0283qt" -> [MI0283QT EXCEPT ![90] = {"MV"}, ![270] = {"MV", "MY", "MX"}]
    [] d = "adafruit797" -> ADAFRUIT797
    [] d = "sainsmart18" -> SAINSMART18
    [] d \in {"hy28a", "itdb02_28"} -> ILI9320

AddrMode(d) ==
  CASE d = "mi0283qt" -> MI0283QT
    [] d = "adafruit797" -> ADAFRUIT797
    [] d = "sainsmart18" -> SAINSMART18
    [] d \in {"hy28a", "itdb02_28"} -> ILI9320
IsMipi(d) == d \in {"mi0283qt", "adafruit797", "sainsmart18"}
Modes == SUBSET {"MV", "MX", "MY", "AM", "ID0", "ID1"}

-----------------------------------------------------------------------------
(* Where a controller puts pixel n of the words it is sent, as <<column, row>> *)
(* of the panel's memory.                                                      *)
Mirror(flag, mode, size, i) == IF flag \in mode THEN size - 1 - i ELSE i
MipiPlace(mode, xe, page, n) ==
  LET c == n % (xe + 1)
      p == page.first + ((n \div (xe + 1)) % (page.last - page.first + 1))
  IN  <<Mirror("MX", mode, XRes, IF "MV" \in mode THEN p ELSE c),
        Mirror("MY", mode, YRes, IF "MV" \in mode THEN c ELSE p)>>
\* An address that decreases is counted from its high end, as one that increases
\* from 0; the quick one wraps into the slow one.
IliPlace(mode, h, v, n) ==
  LET Up(flag, size, i) == IF flag \in mode THEN i ELSE size - 1 - i
      dh == Up("ID0", XRes, h)
      dv == Up("ID1", YRes, v)
      col == IF "AM" \in mode THEN (dh + (dv + n) \div YRes) % XRes ELSE (dh + n) % XRes
      row == IF "AM" \in mode THEN (dv + n) % YRes ELSE (dv + (dh + n) \div XRes) % YRes
  IN  <<Up("ID0", XRes, col), Up("ID1", YRes, row)>>
Place(d, mode, column, page, n) ==
  IF IsMipi(d) THEN MipiPlace(mode, column, page, n)
               ELSE IliPlace(mode, column, page.first, n)

\* The address registers of an update of rows a to b under geometry g: the last
\* column and the pages of mipi_dbi_update, the start of ili9320_update, whose
\* differences are u16.
U16(i) == i % 65536
Column(d, g, a) ==
  IF IsMipi(d) THEN g.xres - 1
  ELSE CASE g.rotate = 180 -> XRes - 1
         [] g.rotate = 270 -> U16(XRes - 1 - a)
         [] g.rotate = 90 -> a
         [] OTHER -> 0
Page(d, g, a, b) ==
  IF IsMipi(d) THEN [first |-> a, last |-> b]
  ELSE LET v == CASE g.rotate = 180 -> U16(YRes - 1 - a)
                  [] g.rotate = 270 -> 0
                  [] g.rotate = 90 -> YRes - 1
                  [] OTHER -> a
       IN  [first |-> v, last |-> v]

VARIABLES
  driver,     \* the driver of this panel
  phase,      \* "probe", "first" (the update of registration), "live" or "gone"
  var,        \* info->var: xres, yres and rotate
  lineLength, \* info->fix.line_length
  mode,       \* the address mode register of the controller
  column,     \* its column (MIPI) or horizontal address register
  page,       \* its page registers (MIPI) or vertical address register
  lock,       \* lcdreg_lock: "free", "set_par" or "update"
  ipc,        \* where set_par's caller is: "idle", "set_par", "rotate" or "restore"
  old,        \* the var fb_set_var keeps to put back
  requests,   \* how many requests have been accepted
  range,      \* the dirty range: first, last
  pending,    \* rows have been recorded since the work took the range
  wpc,        \* where the update is: "idle", "called", "column", "page" or "send"
  ys, ye,     \* its arguments
  seen,       \* what it read of var before it took the lock
  ok,         \* its address registers were written
  rangeVar, updateVar, \* history: the var the rows were recorded under, or none
  applied     \* history: the var of the last set_par, if it succeeded

chipVars    == <<mode, column, page>>
requestVars == <<ipc, old, requests>>
rangeVars   == <<range, pending, rangeVar>>
updateVars  == <<wpc, ys, ye, seen, ok, updateVar>>
vars == <<driver, phase, var, lineLength, chipVars, lock, requestVars, rangeVars,
          updateVars, applied>>

Sizes == 0 .. XRes + YRes
KnownVars == {Geometry(a) : a \in Angles} \cup {DtVar(a) : a \in DtRotations}
Histories == KnownVars \cup {NoGeometry}

TypeOK ==
  /\ driver \in Drivers
  /\ phase \in {"probe", "first", "live", "gone"}
  /\ var \in KnownVars /\ old \in Histories
  /\ lineLength \in {XRes * BytesPerPixel, YRes * BytesPerPixel}
  /\ mode \in Modes
  /\ column \in Nat
  /\ page \in [first : Nat, last : Nat]
  /\ lock \in {"free", "set_par", "update"}
  /\ ipc \in {"idle", "set_par", "rotate", "restore"}
  /\ requests \in 0 .. MaxRequests
  /\ range \in [first : Sizes, last : Sizes]
  /\ pending \in BOOLEAN
  /\ wpc \in {"idle", "called", "column", "page", "send"}
  /\ ys \in Sizes /\ ye \in Sizes
  /\ seen \in Histories
  /\ ok \in BOOLEAN
  /\ rangeVar \in Histories /\ updateVar \in Histories
  /\ applied \in Histories

\* devm_fbdbi_init and the device tree.  An "initialized" display is live as it is:
\* its geometry is not made to agree with its rotation, nor its controller.
Init ==
  /\ driver \in Drivers
  /\ \E a \in DtRotations : var = DtVar(a)
  /\ phase \in {"probe", "live"}
  /\ mode = {}
  /\ lineLength = SmemLen \div YRes
  /\ column = 0 /\ page = [first |-> 0, last |-> 0]
  /\ lock = "free"
  /\ ipc = "idle" /\ old = NoGeometry /\ requests = 0
  /\ range = [first |-> 0, last |-> 0] /\ pending = FALSE
  /\ wpc = "idle" /\ ys = 0 /\ ye = 0 /\ seen = NoGeometry /\ ok = FALSE
  /\ rangeVar = NoGeometry /\ updateVar = NoGeometry /\ applied = NoGeometry

-----------------------------------------------------------------------------
\* The angle a request asks for: by its resolution when that differs from the
\* panel's current one, else by its rotate.
Resolutions == {<<XRes, YRes>>, <<YRes, XRes>>}
Angle(res, rotate) ==
  CASE res = <<var.xres, var.yres>> -> rotate
    [] res # <<var.xres, var.yres>> /\ res = <<XRes, YRes>> -> 0
    [] res # <<var.xres, var.yres>> /\ res # <<XRes, YRes>> -> 90

\* Mutation: 270 degrees keeps the resolution of an upright panel.
CheckVarKeeps(angle) ==
  /\ angle \in Angles
  /\ var' = IF angle = 270 THEN DtVar(angle) ELSE Geometry(angle)

\* fbdbi_fb_check_var and the assignment of its result to info->var.  An angle
\* that is none of the four is refused with -EINVAL, and nothing happens.
CheckVar(angle) ==
  /\ angle \in Angles
  /\ var' = Geometry(angle)

\* devm_fbdbi_register checks the "rotate" property as a request; a bad one ends
\* the probe.
Register ==
  /\ phase = "probe" /\ ipc = "idle"
  /\ \/ CheckVar(var.rotate) /\ ipc' = "set_par" /\ phase' = phase
     \/ var.rotate \notin Angles /\ phase' = "gone" /\ UNCHANGED <<var, ipc>>
  /\ UNCHANGED <<driver, lineLength, chipVars, lock, old, requests, rangeVars,
                 updateVars, applied>>

\* fb_set_var with a request that differs from info->var.
SetVar(res, rotate) ==
  /\ phase = "live" /\ ipc = "idle" /\ requests < MaxRequests
  /\ [xres |-> res[1], yres |-> res[2], rotate |-> rotate] # var
  /\ CheckVar(Angle(res, rotate))
  /\ old' = var
  /\ ipc' = "set_par"
  /\ requests' = requests + 1
  /\ UNCHANGED <<driver, phase, lineLength, chipVars, lock, rangeVars, updateVars,
                 applied>>

\* fbdbi_fb_set_par, up to display->rotate.
SetPar ==
  /\ ipc = "set_par" /\ lock = "free"
  /\ lock' = "set_par"
  /\ lineLength' = var.xres * BytesPerPixel
  /\ ipc' = "rotate"
  /\ UNCHANGED <<driver, phase, var, chipVars, old, requests, rangeVars, updateVars,
                 applied>>

\* display->rotate wrote the address mode.  A probe goes on with a first update of
\* all rows.
Rotate ==
  /\ ipc = "rotate"
  /\ mode' = AddrMode(driver)[var.rotate]
  /\ lock' = "free"
  /\ applied' = var
  /\ ipc' = "idle" /\ old' = NoGeometry
  /\ IF phase = "probe"
     THEN /\ phase' = "first" /\ wpc' = "called"
          /\ ys' = 0 /\ ye' = var.yres - 1 /\ updateVar' = var
     ELSE UNCHANGED <<phase, wpc, ys, ye, updateVar>>
  /\ UNCHANGED <<driver, var, lineLength, column, page, requests, rangeVars, seen, ok>>

\* The write failed: set_par returns the error, fb_set_var puts var back, a probe
\* ends.
RotateFails ==
  /\ MayFail
  /\ ipc = "rotate"
  /\ lock' = "free"
  /\ applied' = NoGeometry
  /\ IF phase = "probe" THEN phase' = "gone" /\ ipc' = "idle"
                        ELSE phase' = phase /\ ipc' = "restore"
  /\ UNCHANGED <<driver, var, lineLength, chipVars, old, requests, rangeVars,
                 updateVars>>

Restore ==
  /\ ipc = "restore"
  /\ var' = old
  /\ ipc' = "idle" /\ old' = NoGeometry
  /\ UNCHANGED <<driver, phase, lineLength, chipVars, lock, requests, rangeVars,
                 updateVars, applied>>

-----------------------------------------------------------------------------
\* A drawing call, in rows of the moment's var, up to the end of fbdbi_mkdirty.
Draw(a, b) ==
  /\ phase = "live"
  /\ a <= b /\ b < var.yres
  /\ range' = [first |-> IF a < range.first THEN a ELSE range.first,
               last |-> IF b > range.last THEN b ELSE range.last]
  /\ pending' = TRUE
  /\ rangeVar' = IF pending /\ rangeVar # var THEN NoGeometry ELSE var
  /\ UNCHANGED <<driver, phase, var, lineLength, chipVars, lock, requestVars,
                 updateVars, applied>>

\* Mutation: the cleared range keeps its last row.
TakeKeeps ==
  /\ phase = "live" /\ wpc = "idle" /\ pending
  /\ ys' = range.first /\ ye' = range.last
  /\ range' = [first |-> var.yres - 1, last |-> range.last]
  /\ pending' = FALSE
  /\ updateVar' = rangeVar /\ rangeVar' = NoGeometry
  /\ wpc' = "called"
  /\ UNCHANGED <<driver, phase, var, lineLength, chipVars, lock, requestVars, seen, ok,
                 applied>>

\* fbdbi_deferred_io: take the range, clear it with the moment's yres, call update.
Take ==
  /\ phase = "live" /\ wpc = "idle" /\ pending
  /\ ys' = range.first /\ ye' = range.last
  /\ range' = [first |-> var.yres - 1, last |-> 0]
  /\ pending' = FALSE
  /\ updateVar' = rangeVar /\ rangeVar' = NoGeometry
  /\ wpc' = "called"
  /\ UNCHANGED <<driver, phase, var, lineLength, chipVars, lock, requestVars, seen, ok,
                 applied>>

\* update reads xres or rotate, then waits for the lock.
ReadVar ==
  /\ wpc = "called"
  /\ seen' = var
  /\ ok' = TRUE
  /\ wpc' = "column"
  /\ UNCHANGED <<driver, phase, var, lineLength, chipVars, lock, requestVars, rangeVars,
                 ys, ye, updateVar, applied>>

\* With the lock, it writes the address registers, and goes on when that fails.
SetColumn ==
  /\ wpc = "column" /\ lock = "free"
  /\ lock' = "update"
  /\ wpc' = "page"
  /\ \/ column' = Column(driver, seen, ys) /\ ok' = ok
     \/ MayFail /\ column' = column /\ ok' = FALSE
  /\ UNCHANGED <<driver, phase, var, lineLength, mode, page, requestVars, rangeVars, ys,
                 ye, seen, updateVar, applied>>

SetPage ==
  /\ wpc = "page"
  /\ wpc' = "send"
  /\ \/ page' = Page(driver, seen, ys, ye) /\ ok' = ok
     \/ MayFail /\ page' = page /\ ok' = FALSE
  /\ UNCHANGED <<driver, phase, var, lineLength, mode, column, lock, requestVars,
                 rangeVars, ys, ye, seen, updateVar, applied>>

\* fbdbi_display_update.  The first update's error ends the probe, the work's is
\* dropped.
Send ==
  /\ wpc = "send"
  /\ wpc' = "idle" /\ lock' = "free"
  /\ ys' = 0 /\ ye' = 0 /\ seen' = NoGeometry /\ ok' = FALSE /\ updateVar' = NoGeometry
  /\ IF phase = "first" THEN \/ ok /\ phase' = "live"
                             \/ (MayFail \/ ~ok) /\ phase' = "gone"
                        ELSE phase' = phase
  /\ UNCHANGED <<driver, var, lineLength, chipVars, requestVars, rangeVars, applied>>

-----------------------------------------------------------------------------
RequestStep == Register \/ SetPar \/ Rotate \/ RotateFails \/ Restore
UpdateStep == Take \/ ReadVar \/ SetColumn \/ SetPage \/ Send

Next ==
  \/ \E res \in Resolutions, r \in Angles : SetVar(res, r)
  \/ RequestStep
  \/ \E a, b \in Sizes : Draw(a, b)
  \/ UpdateStep

Spec == Init /\ [][Next]_vars

-----------------------------------------------------------------------------
\* The pixel at byte address i of a memory drawn under geometry g, and where the
\* panel is to show it: the picture of angle 0, turned counter clockwise.
PixelAt(g, i) == LET p == i \div BytesPerPixel IN <<p % g.xres, p \div g.xres>>
Upright(x, y) ==
  Place(driver, AddrMode(driver)[0], Column(driver, Geometry(0), 0),
        Page(driver, Geometry(0), 0, YRes - 1), y * XRes + x)
Turned(angle, x, y) ==
  CASE angle = 0 -> Upright(x, y)
    [] angle = 90 -> Upright(y, YRes - 1 - x)
    [] angle = 180 -> Upright(XRes - 1 - x, YRes - 1 - y)
    [] angle = 270 -> Upright(XRes - 1 - y, x)

\* Where the update begins in the memory, and how many pixels it sends.
Offset == ys * lineLength
Count == ((ye - ys + 1) * lineLength) \div BytesPerPixel
WellPlaced(g) ==
  \A n \in 0 .. Count - 1 :
    LET at == PixelAt(g, Offset + n * BytesPerPixel)
    IN  Place(driver, mode, column, page, n) = Turned(g.rotate, at[1], at[2])
InMemory == ys <= ye /\ (ye + 1) * lineLength <= SmemLen

\* No rotation came between the recording of the rows, the update's reading of
\* var and its taking the lock.
Uncrossed == updateVar = seen /\ seen = applied

\* An update that no rotation crosses, and whose address registers were written,
\* shows each pixel of its rows where the angle says, counter clockwise: the
\* tables of the five drivers, the window of mipi_dbi_update and the start address
\* of ili9320_update agree, at every angle and for every range, and set_par
\* changes nothing under an update that holds the lock.
Placed == wpc = "send" /\ ok /\ Uncrossed => WellPlaced(seen)

\* Such an update reads nothing beyond the video memory, whatever rotations,
\* failed ones too, came before it.
ReadsMemory == wpc = "send" /\ Uncrossed => InMemory

\* When no request is under way and the last set_par succeeded, var is one of the
\* four geometries, and the line length and the address mode are those of var.
Agrees ==
  ipc = "idle" /\ applied # NoGeometry =>
    /\ applied = var /\ var \in {Geometry(a) : a \in Angles}
    /\ lineLength = var.xres * BytesPerPixel
    /\ mode = AddrMode(driver)[var.rotate]
=============================================================================
