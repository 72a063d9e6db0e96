------------------------------ MODULE Lifecycle ------------------------------
(***************************************************************************)
(* The life of a display: probe, power on, registration, use, unbinding.   *)
(*                                                                         *)
(*   - a probe acquires its resources one by one, each with a release the  *)
(*     driver core runs in reverse order when the probe fails or the       *)
(*     device is unbound (the devm_ functions of src/core/fbdbi.c);        *)
(*   - unless the display is "initialized", devm_fbdbi_register powers it  *)
(*     on (the panel driver's poweron), sets its format and its rotation   *)
(*     and sends a first picture; then it registers the frame buffer, adds *)
(*     a mode and turns the backlight on;                                  *)
(*   - a registered frame buffer is drawn in, opened, closed and blanked;  *)
(*   - its release unregisters it, and the last reference calls            *)
(*     fbdbi_fb_destroy: stop the deferred work, backlight off, power off. *)
(*                                                                         *)
(* The frame buffer core's reference count, the backlight core's notifier, *)
(* the regulator core and devres are Linux's, modelled from how fbdbi.c    *)
(* uses them.                                                              *)
(***************************************************************************)
EXTENDS Integers, Sequences

CONSTANTS Panels,    \* the drivers of the instance
          MayFail,   \* whether an allocation or a register access may fail
          MaxProbes  \* bound: how often the device is probed

AllPanels == {"mi0283qt", "adafruit13", "itdb02_28", "hy28a", "sainsmart18", "adafruit797",
              "ebay181283191283"}

ASSUME LifeAssumption == Panels \subseteq AllPanels /\ MayFail \in BOOLEAN /\ MaxProbes \in Nat

(* What poweron does, in groups: "check" is a register write whose error ends *)
(* the probe, "write" one or more whose errors nobody looks at.               *)
mi0283qt_poweron         == <<"enable", "reset", "check", "write">>
adafruit13_poweron       == <<"enable", "reset", "check", "write">>
itdb02_28_poweron        == <<"enable", "reset", "check", "write">>
hy28a_poweron            == <<"enable", "reset", "write">>
sainsmart18_poweron      == <<"enable", "reset", "write">>
adafruit797_poweron      == <<"enable", "reset", "write">>
ebay181283191283_poweron == <<"reset", "check", "write">>

poweron(p) == CASE p = "mi0283qt"         -> mi0283qt_poweron
                [] p = "adafruit13"       -> adafruit13_poweron
                [] p = "itdb02_28"        -> itdb02_28_poweron
                [] p = "hy28a"            -> hy28a_poweron
                [] p = "sainsmart18"      -> sainsmart18_poweron
                [] p = "adafruit797"      -> adafruit797_poweron
                [] p = "ebay181283191283" -> ebay181283191283_poweron

\* The operations the controller of a panel gives its display.  The ebay panel's
\* SSD1963 is registered without devm_fbdbi_register_dt: no supply, no poweroff,
\* and a backlight of its own.
HasSupply(p) == p # "ebay181283191283"
HasFormat(p) == p \in {"mi0283qt", "sainsmart18", "adafruit797", "adafruit13"}
HasRotate(p) == p # "adafruit13"
HasBlank(p)  == p = "adafruit13"
OwnLight(p)  == p = "ebay181283191283"

\* The resources of a probe, in the order it acquires them.
Resources(p) == <<"lcdreg", "display", "info", "fbops", "vmem", "fbdefio",
                  IF OwnLight(p) THEN "light" ELSE "supply">>
ResourceNames == {"lcdreg", "display", "info", "fbops", "vmem", "fbdefio", "light",
                  "supply", "fb"}

VARIABLES
  panel,        \* the driver of the device
  initialized,  \* display->initialized
  lighted,      \* display->backlight is not NULL
  stage,        \* what probe, unbinding or fb_destroy does next
  pos,          \* the next step of poweron
  held,         \* the resources acquired and not released, oldest first
  probes,       \* how many probes have started
  enables,      \* what the driver added to the use count of its regulator
  chip,         \* the controller: "unknown", "reset", "partial" or "ready"
  registered,   \* the frame buffer can be opened
  open,         \* somebody has it open
  queued,       \* the deferred work is pending
  working,      \* the deferred work runs: display->update
  onFor,        \* the backlight's fb_bl_on[node]
  useCount,     \* its use_count
  bright, off,  \* its brightness is not 0; its core has blanked it
  lit,          \* it shines
  blanked,      \* the frame buffer is blanked
  orphan,       \* history: it was open when it was unregistered
  early,        \* history: it was blanked before the backlight was attached, or the
                \* backlight was blanked by an earlier life
  imbalance     \* history: probes that failed with the supply on, less displays
                \* powered off that were never powered on

probeVars == <<panel, initialized, lighted>>
powerVars == <<enables, chip, imbalance>>
userVars  == <<registered, open, orphan>>
workVars  == <<queued, working>>
blVars    == <<onFor, useCount, bright, off, lit>>
lightVars == <<blVars, blanked, early>>
vars == <<probeVars, stage, pos, held, probes, powerVars, userVars, workVars, lightVars>>

Stages == {"unbound", "acquire", "power", "format", "rotate", "first", "register", "mode",
           "attach", "light", "bound", "unwind", "cleanup", "dark", "off"}

TypeOK ==
  /\ panel \in Panels /\ initialized \in BOOLEAN /\ lighted \in BOOLEAN
  /\ stage \in Stages
  /\ pos \in 0 .. 4
  /\ held \in Seq(ResourceNames)
  /\ probes \in 0 .. MaxProbes
  /\ enables \in Int /\ imbalance \in Int /\ useCount \in Int
  /\ chip \in {"unknown", "reset", "partial", "ready"}
  /\ registered \in BOOLEAN /\ open \in BOOLEAN /\ orphan \in BOOLEAN
  /\ queued \in BOOLEAN /\ working \in BOOLEAN
  /\ onFor \in BOOLEAN /\ bright \in BOOLEAN /\ off \in BOOLEAN /\ lit \in BOOLEAN
  /\ blanked \in BOOLEAN /\ early \in BOOLEAN

Init ==
  /\ panel \in Panels
  /\ initialized \in BOOLEAN
  /\ lighted \in IF OwnLight(panel) THEN {FALSE} ELSE BOOLEAN
  /\ initialized => ~OwnLight(panel)
  /\ stage = "unbound" /\ pos = 0 /\ held = <<>> /\ probes = 0
  /\ enables = 0 /\ chip = "unknown" /\ imbalance = 0
  /\ registered = FALSE /\ open = FALSE /\ orphan = FALSE
  /\ queued = FALSE /\ working = FALSE
  /\ onFor = FALSE /\ useCount = 0 /\ bright = FALSE /\ off = FALSE /\ lit = FALSE
  /\ blanked = FALSE /\ early = FALSE

-----------------------------------------------------------------------------
(* Probing: devm_fbdbi_init, devm_fbdbi_register_dt, devm_fbdbi_register.     *)

\* What is left on the table when a probe ends with an error: the supply stays on
\* when nothing is to call fb_destroy.
Fail(on) ==
  /\ MayFail
  /\ stage' = "unwind"
  /\ imbalance' = IF on /\ HasSupply(panel) /\ ~initialized THEN imbalance + 1
                                                           ELSE imbalance

Probe ==
  /\ stage = "unbound" /\ probes < MaxProbes /\ ~orphan
  /\ stage' = "acquire" /\ probes' = probes + 1
  /\ lighted' = (lighted /\ ~OwnLight(panel))
  /\ blanked' = FALSE /\ early' = FALSE
  /\ UNCHANGED <<panel, initialized, pos, held, powerVars, userVars, workVars, blVars>>

Wanted == Resources(panel)[Len(held) + 1]

\* The next resource of the probe.  With the last one devm_fbdbi_register begins.
Acquire ==
  /\ stage = "acquire"
  /\ held' = Append(held, Wanted)
  /\ lighted' = (lighted \/ Wanted = "light")
  /\ IF Len(held) + 1 < Len(Resources(panel)) THEN UNCHANGED <<stage, pos>>
     ELSE IF initialized THEN stage' = "register" /\ pos' = pos
     ELSE stage' = "power" /\ pos' = 1
  /\ UNCHANGED <<panel, initialized, probes, powerVars, userVars, workVars, lightVars>>

\* ssd1963_backlight_register returns NULL, and the probe goes on without a backlight.
NoLight ==
  /\ MayFail
  /\ stage = "acquire" /\ Wanted = "light"
  /\ stage' = "power" /\ pos' = 1
  /\ UNCHANGED <<probeVars, held, probes, powerVars, userVars, workVars, lightVars>>

\* No memory, no supply, or (once all is acquired) no backlight device yet.
AcquireFails ==
  /\ stage = "acquire" /\ Wanted # "light"
  /\ Fail(FALSE)
  /\ held' \in {held, Append(held, Wanted)}
  /\ UNCHANGED <<probeVars, pos, probes, enables, chip, userVars, workVars, lightVars>>

\* Mutation: a step is taken after the last.
PowerStepOn ==
  /\ stage = "power"
  /\ enables' = enables /\ chip' = "ready"
  /\ pos' = pos + 1
  /\ stage' = IF pos <= Len(poweron(panel)) THEN stage ELSE "format"
  /\ UNCHANGED <<probeVars, held, probes, imbalance, userVars, workVars, lightVars>>

\* One group of poweron; lcdreg_reset is the interface's, and the chip forgets what
\* it was told when its supply goes on.
PowerStep ==
  /\ stage = "power"
  /\ LET step == poweron(panel)[pos]
     IN  /\ enables' = IF step = "enable" THEN enables + 1 ELSE enables
         /\ \/ step = "enable" /\ chip' = IF enables > 0 THEN chip ELSE "unknown"
            \/ step = "reset" /\ chip' = "reset"
            \/ step = "check" /\ chip' = chip
            \/ step = "write" /\ chip' = "ready"
            \/ step = "write" /\ MayFail /\ chip' = "partial"
  /\ IF pos < Len(poweron(panel)) THEN pos' = pos + 1 /\ stage' = stage
                                  ELSE pos' = 0 /\ stage' = "format"
  /\ UNCHANGED <<probeVars, held, probes, imbalance, userVars, workVars, lightVars>>

PowerFails ==
  /\ stage = "power"
  /\ poweron(panel)[pos] \in {"enable", "check"}
  /\ Fail(poweron(panel)[pos] = "check")
  /\ pos' = 0
  /\ UNCHANGED <<probeVars, held, probes, enables, chip, userVars, workVars, lightVars>>

\* set_format, check_var and set_par, the first update.
Configure ==
  /\ \/ stage = "format" /\ stage' = "rotate"
     \/ stage = "rotate" /\ stage' = "first"
     \/ stage = "first" /\ stage' = "register"
  /\ UNCHANGED <<probeVars, pos, held, probes, powerVars, userVars, workVars, lightVars>>

ConfigureFails ==
  /\ \/ stage = "format" /\ HasFormat(panel)
     \/ stage = "rotate" /\ HasRotate(panel)
     \/ stage = "first"
  /\ Fail(TRUE)
  /\ UNCHANGED <<probeVars, pos, held, probes, enables, chip, userVars, workVars,
                 lightVars>>

\* devm_register_framebuffer: from here on the console and user space may use it.
Register ==
  /\ stage = "register"
  /\ stage' = "mode"
  /\ held' = Append(held, "fb")
  /\ registered' = TRUE
  /\ UNCHANGED <<probeVars, pos, probes, powerVars, open, orphan, workVars, lightVars>>

RegisterFails ==
  /\ stage = "register"
  /\ Fail(TRUE)
  /\ UNCHANGED <<probeVars, pos, held, probes, enables, chip, userVars, workVars,
                 lightVars>>

\* fb_add_videomode.  When it fails the frame buffer is registered already.
AddMode ==
  /\ stage = "mode"
  /\ stage' = IF lighted THEN "attach" ELSE "bound"
  /\ UNCHANGED <<probeVars, pos, held, probes, powerVars, userVars, workVars, lightVars>>

AddModeFails ==
  /\ stage = "mode"
  /\ Fail(FALSE)
  /\ UNCHANGED <<probeVars, pos, held, probes, enables, chip, userVars, workVars,
                 lightVars>>

\* backlight_update_status, and what the backlight's driver makes of it.
UpdateStatus == lit' = (bright' /\ ~off')

\* Mutation: a backlight is attached without being counted as used.
AttachUncounted ==
  /\ stage = "attach"
  /\ onFor' = TRUE /\ bright' = TRUE
  /\ stage' = "light"
  /\ early' = (early \/ off)
  /\ UNCHANGED <<probeVars, pos, held, probes, powerVars, userVars, workVars, useCount, off, lit,
                 blanked>>

\* "This is needed for the backlight to turn off also on the very first console
\* blanking event": the notifier turns off a backlight that was on and loses its last user.
Attach ==
  /\ stage = "attach"
  /\ onFor' = TRUE /\ bright' = TRUE
  /\ useCount' = IF useCount = 0 THEN 1 ELSE useCount
  /\ stage' = "light"
  /\ early' = (early \/ off)
  /\ UNCHANGED <<probeVars, pos, held, probes, powerVars, userVars, workVars, off, lit, blanked>>

Light ==
  /\ stage = "light"
  /\ UNCHANGED <<onFor, useCount, bright, off>>
  /\ UpdateStatus
  /\ stage' = "bound"
  /\ UNCHANGED <<probeVars, pos, held, probes, powerVars, userVars, workVars, blanked,
                 early>>

-----------------------------------------------------------------------------
(* A registered frame buffer in use.                                          *)
Open ==
  /\ registered /\ ~open
  /\ open' = TRUE
  /\ UNCHANGED <<probeVars, stage, pos, held, probes, powerVars, registered, orphan,
                 workVars, lightVars>>

Close ==
  /\ open /\ ~orphan
  /\ open' = FALSE
  /\ UNCHANGED <<probeVars, stage, pos, held, probes, powerVars, registered, orphan,
                 workVars, lightVars>>

\* A drawing call of the console or of a user, in the end fbdbi_mkdirty.
Draw ==
  /\ registered
  /\ queued' = TRUE
  /\ UNCHANGED <<probeVars, stage, pos, held, probes, powerVars, userVars, working,
                 lightVars>>

StartWork ==
  /\ queued /\ ~working
  /\ queued' = FALSE /\ working' = TRUE
  /\ UNCHANGED <<probeVars, stage, pos, held, probes, powerVars, userVars, lightVars>>

EndWork ==
  /\ working
  /\ working' = FALSE
  /\ UNCHANGED <<probeVars, stage, pos, held, probes, powerVars, userVars, queued,
                 lightVars>>

\* fb_notifier_callback of the backlight core, on FB_EVENT_BLANK: the first user turns
\* the backlight on and the last one off.
Notify(on) ==
  IF onFor = on THEN UNCHANGED blVars
  ELSE LET others == IF on THEN useCount ELSE useCount - 1
       IN  /\ onFor' = on /\ bright' = bright
           /\ useCount' = IF on THEN others + 1 ELSE others
           /\ IF others = 0 THEN off' = ~on /\ UpdateStatus ELSE UNCHANGED <<off, lit>>

\* fb_blank: fbdbi_fb_blank returns 0 when the display can blank or has a
\* backlight, and then the event is sent; a write to the controller may fail.
Blank(on) ==
  /\ registered /\ blanked = on
  /\ blanked' = ~on
  /\ HasBlank(panel) \/ lighted
  /\ IF lighted THEN Notify(on) ELSE UNCHANGED blVars
  /\ early' = (early \/ stage \in {"mode", "attach"})
  /\ UNCHANGED <<probeVars, stage, pos, held, probes, powerVars, userVars, workVars>>

-----------------------------------------------------------------------------
(* Unbinding, and the releases of devres in reverse order.                    *)
Unbind ==
  /\ stage = "bound"
  /\ stage' = "unwind"
  /\ UNCHANGED <<probeVars, pos, held, probes, powerVars, userVars, workVars, lightVars>>

Newest == held[Len(held)]
Rest == SubSeq(held, 1, Len(held) - 1)

\* vfree, framebuffer_release, kfree, ...  A backlight of its own is gone with them.
Release ==
  /\ stage = "unwind" /\ held # <<>> /\ Newest # "fb"
  /\ held' = Rest
  /\ IF Newest = "light" THEN /\ onFor' = FALSE /\ useCount' = 0
                              /\ bright' = FALSE /\ off' = FALSE /\ lit' = FALSE
                         ELSE UNCHANGED blVars
  /\ UNCHANGED <<probeVars, stage, pos, probes, powerVars, userVars, workVars, blanked,
                 early>>

\* unregister_framebuffer; fb_destroy is called if the last reference is put.
Unregister ==
  /\ stage = "unwind" /\ held # <<>> /\ Newest = "fb"
  /\ registered' = FALSE
  /\ orphan' = open
  /\ IF open THEN held' = Rest /\ stage' = stage
             ELSE held' = held /\ stage' = "cleanup"
  /\ UNCHANGED <<probeVars, pos, probes, powerVars, open, workVars, lightVars>>

Unbound ==
  /\ stage = "unwind" /\ held = <<>>
  /\ stage' = "unbound"
  /\ UNCHANGED <<probeVars, pos, held, probes, powerVars, userVars, workVars, lightVars>>

\* Mutation: a running work is not waited for.
CleanupAtOnce ==
  /\ stage = "cleanup"
  /\ queued' = FALSE
  /\ stage' = "dark"
  /\ UNCHANGED <<probeVars, pos, held, probes, powerVars, userVars, working, lightVars>>

\* Mutation: fb_destroy leaves the deferred work alone.
CleanupNot ==
  /\ stage = "cleanup"
  /\ stage' = "dark"
  /\ UNCHANGED <<probeVars, pos, held, probes, powerVars, userVars, workVars, lightVars>>

\* Mutation: pending work is waited for, which need not ever run.
CleanupWaits ==
  /\ stage = "cleanup" /\ ~working /\ ~queued
  /\ stage' = "dark"
  /\ UNCHANGED <<probeVars, pos, held, probes, powerVars, userVars, workVars, lightVars>>

\* fb_deferred_io_cleanup cancels the work and waits for it.
Cleanup ==
  /\ stage = "cleanup" /\ ~working
  /\ queued' = FALSE
  /\ stage' = "dark"
  /\ UNCHANGED <<probeVars, pos, held, probes, powerVars, userVars, working, lightVars>>

Dark ==
  /\ stage = "dark"
  /\ IF lighted THEN bright' = FALSE /\ UNCHANGED <<onFor, useCount, off>> /\ UpdateStatus
                ELSE UNCHANGED blVars
  /\ stage' = "off"
  /\ UNCHANGED <<probeVars, pos, held, probes, powerVars, userVars, workVars, blanked,
                 early>>

\* Mutation: the supply is not turned off.
OffForgets ==
  /\ stage = "off"
  /\ held' = Rest
  /\ stage' = "unwind"
  /\ UNCHANGED <<probeVars, pos, probes, powerVars, userVars, workVars, lightVars>>

\* fbdbi_display_poweroff, of ssd1306_poweroff too.
Off ==
  /\ stage = "off"
  /\ enables' = IF HasSupply(panel) THEN enables - 1 ELSE enables
  /\ chip' = IF HasSupply(panel) /\ enables <= 1 THEN "unknown" ELSE chip
  /\ imbalance' = IF HasSupply(panel) /\ initialized THEN imbalance - 1 ELSE imbalance
  /\ held' = Rest
  /\ stage' = "unwind"
  /\ UNCHANGED <<probeVars, pos, probes, userVars, workVars, lightVars>>

-----------------------------------------------------------------------------
ProbeStep ==
  \/ Acquire \/ NoLight \/ AcquireFails \/ PowerStep \/ PowerFails \/ Configure \/ ConfigureFails
  \/ Register \/ RegisterFails \/ AddMode \/ AddModeFails \/ Attach \/ Light
UnbindStep == Release \/ Unregister \/ Unbound \/ Cleanup \/ Dark \/ Off
UserStep == Open \/ Close \/ Draw \/ \E on \in BOOLEAN : Blank(on)

Next == Probe \/ ProbeStep \/ Unbind \/ UnbindStep \/ UserStep \/ StartWork \/ EndWork
Spec == Init /\ [][Next]_vars

\* A probe, an unbinding and a running work go on; nobody has to probe, unbind or
\* use the device, and pending work need not ever run.
FairSpec == Spec /\ WF_vars(ProbeStep) /\ WF_vars(UnbindStep) /\ WF_vars(EndWork)

-----------------------------------------------------------------------------
Held == {held[i] : i \in 1 .. Len(held)}
Destroying == stage \in {"cleanup", "dark", "off"}
UpdateUses == {"lcdreg", "display", "info", "vmem", "fbdefio"}
DestroyUses == {"lcdreg", "display", "info", "fbdefio"} \cup
               (IF ~OwnLight(panel) THEN {"supply"} ELSE IF lighted THEN {"light"} ELSE {})

\* Unless the frame buffer was open when its device was unbound, what runs finds
\* its resources alive: the work its memory and its bus, also while a probe that
\* failed late is unwound, fb_destroy the display, the supply and the backlight,
\* every user of a registered frame buffer all of these.
Alive ==
  ~orphan => /\ working => UpdateUses \subseteq Held
             /\ Destroying => DestroyUses \subseteq Held
             /\ registered => UpdateUses \cup DestroyUses \subseteq Held

\* The deferred work sends to a controller that is powered and was reset and set up
\* since it was: it runs neither before poweron is done nor after poweroff.  An
\* "initialized" display is left as it is; a set-up some of whose writes failed
\* goes unnoticed.
SentWhenReady ==
  (working \/ registered \/ stage = "first") /\ ~orphan /\ ~initialized =>
    /\ chip \in {"ready", "partial"}
    /\ HasSupply(panel) => enables > 0

\* Nothing but two paths unbalances the supply: a probe that fails after its
\* poweron leaves it on, and an "initialized" display turns off what it never
\* turned on.
SupplyBalanced == stage = "unbound" /\ ~orphan => enables = imbalance

\* A display in use that has a backlight is lit when it is not blanked, and dark when
\* it is, from the very first blanking on - unless it was blanked while it was being
\* registered, or its backlight was still blanked from an earlier life.  One whose
\* backlight could not be registered has none.  For the first blanking the comment in
\* fbdbi.c and the FIXME in ssd1963.c disagree, which has a log of a use_count of 0 when
\* the display is first blanked; the use_count that fbdbi.c sets now is what makes it so.
LightFollows == stage = "bound" /\ lighted /\ ~early => (lit <=> ~blanked)

\* Unbinding, and the unwinding of a failed probe, come to an end.
Unbinds == stage = "unwind" ~> stage = "unbound"

\* The most steps the releases, the work and fb_destroy can still need.
StepsLeft ==
  CASE stage = "unwind"  -> 8 * Len(held) + 7
    [] stage = "cleanup" -> 8 * Len(held) + 3 + (IF queued THEN 2 ELSE 0)
                                              + (IF working THEN 1 ELSE 0)
    [] stage = "dark"    -> 8 * Len(held) + 2
    [] stage = "off"     -> 8 * Len(held) + 1
    [] OTHER             -> 0

\* Users who draw, blank, open and close while a display is unwound can not hold that up,
\* and from unregister_framebuffer to poweroff nothing is left to anybody else: every step
\* of fb_destroy and of the work it cancels is one nearer the end, and no new work comes.
NearerEnd ==
  [][/\ stage = "unwind" \/ Destroying => StepsLeft' \in 0 .. StepsLeft
     /\ UnbindStep \/ Destroying => StepsLeft' < StepsLeft]_vars

=============================================================================
