-------------------------------- MODULE Leds --------------------------------
(***************************************************************************)
(* The LEDs of the front panel and the bays: what AppState (state.rs) and  *)
(* led.rs write to them, over the driver (driver_watch.rs) that comes and  *)
(* goes under them and puts each back to its default.                      *)
(*                                                                         *)
(* What an LED shows is layered: a locate over an alert over the health of *)
(* the disk, night mode over the front, but nothing stores what it should  *)
(* show: each handler writes the LEDs it thinks it has changed, and skips  *)
(* those it remembers to be right already.                                 *)
(*                                                                         *)
(* An LED's sysfs attributes (trigger, delays, brightness) are the one     *)
(* thing they make it do: "Off", "Solid", "Auto" (the driver's trigger) or *)
(* one of four blinks.  The loop is one thread, so a handler is one step;  *)
(* a tick is its locates' ends, night or morning, and a refresh, each a    *)
(* step when it is due.  Menus only put messages off: see AppState.        *)
(***************************************************************************)
EXTENDS Integers, FiniteSets

CONSTANTS
  Bays,
  Healths,   \* what a scan finds in a bay: "None" if it is empty
  Messages,  \* what SHOW can bring: [level, bay, pattern] records
  Configs,   \* which brightnesses are set: [night, day] records
  Others,    \* patterns of the alarms that are not about a bay
  MaxLoads, MaxDimmers, \* bounds: how often each driver is loaded, in all
  NoBay, Nothing

ASSUME BaysAssumption == IsFiniteSet(Bays) /\ NoBay \notin Bays
ASSUME MessagesAssumption ==
  /\ \A m \in Messages : m.level \in 0..3 /\ m.bay \in Bays \cup {NoBay}
  /\ Nothing \notin Messages
ASSUME HealthsAssumption ==
  "None" \in Healths /\ Healths \subseteq {"None", "Normal", "Standby", "Failed"}
ASSUME ConfigsAssumption == Configs \subseteq [night : BOOLEAN, day : BOOLEAN]
ASSUME LoadsAssumption == {MaxLoads, MaxDimmers} \subseteq Nat

VARIABLES
  app,     \* AppState: night mode, message, locates, scanned disks, health
  leds,    \* what the LEDs show, and `status_shown`, remembered beside them
  bright,  \* the front LEDs' level, day_brightness and applied_brightness
  device,  \* the drivers: asustor's stage, the dimmer, and how often loaded
  applied, \* DriverWatch: the snapshot the LEDs were last written for
  seen     \* DriverWatch: the last snapshot taken

ledsVars == <<app, leds, bright, device, applied, seen>>

Levels == {"bios", "day", "night"}

\* Green and red, per status pattern and per bay state.
StatusLook ==
  [Ok |-> <<"Solid", "Off">>, Warning |-> <<"Solid", "Solid">>,
   GreenFlashing |-> <<"Slow", "Off">>, WarningFlashing |-> <<"Slow", "Slow">>,
   Degraded |-> <<"Solid", "Half">>, Failed |-> <<"Off", "Solid">>,
   CriticalFlashing |-> <<"Off", "Slow">>, Locate |-> <<"Fast", "Fast">>,
   Off |-> <<"Off", "Off">>]
BayLook ==
  [Normal |-> <<"Auto", "Off">>, Standby |-> <<"Blip", "Off">>,
   Failed |-> <<"Off", "Solid">>, Alert |-> <<"Off", "Slow">>,
   Locate |-> <<"Fast", "Fast">>]
NightLook(state) ==
  IF state = "Locate" THEN BayLook[state] ELSE <<"Off", BayLook[state][2]>>

Severity ==
  [Ok |-> 0, GreenFlashing |-> 0, Warning |-> 1, WarningFlashing |-> 1,
   Degraded |-> 2, Failed |-> 3, CriticalFlashing |-> 4]

\* No alarm asks for the patterns of the locate and the night: health_pattern
\* (alarm.rs:47) and what a message's colour and flash make (led.rs:311).
ASSUME PatternsAssumption ==
  /\ \A m \in Messages : m.pattern \in DOMAIN Severity \cup {Nothing}
  /\ "Ok" \in Others /\ Others \subseteq DOMAIN Severity
ASSUME NothingAssumption == Nothing \notin DOMAIN StatusLook \cup Levels

-----------------------------------------------------------------------------
(* What AppState wants shown. *)

DarkensFront(a) == ~a.config.night

BayState(a, b) ==
  IF b \in a.located THEN "Locate"
  ELSE IF a.alertBay = b THEN "Alert"
  ELSE IF a.disks[b] = "None" THEN "Normal" ELSE a.disks[b]

Worse(first, p) == IF Severity[p] > Severity[first] THEN p ELSE first

HealthPattern(a) == Worse(a.other, IF a.failed # {} THEN "Failed" ELSE "Ok")

\* The most severe alarm; the message, listed first, wins a tie.
Verdict(a) ==
  IF a.over = Nothing \/ a.over.pattern = Nothing THEN HealthPattern(a)
  ELSE Worse(a.over.pattern, HealthPattern(a))

StatusPattern(a) ==
  IF a.chassis THEN "Locate"
  ELSE IF a.asleep /\ DarkensFront(a) THEN "Off" ELSE Verdict(a)

PowerLook(a) ==
  IF a.chassis THEN "Fast" ELSE IF a.asleep /\ DarkensFront(a) THEN "Off" ELSE "Solid"

-----------------------------------------------------------------------------
(* The writes, in terms of what the LEDs show before and after them. *)

SetBay(a, l, b) ==
  [l EXCEPT !.bays[b] =
     IF a.asleep THEN NightLook(BayState(a, b)) ELSE BayLook[BayState(a, b)]]

SetBays(a, l, bays) ==
  [l EXCEPT !.bays = [b \in Bays |-> IF b \in bays THEN SetBay(a, l, b).bays[b]
                                      ELSE l.bays[b]]]

SetPower(a, l) == [l EXCEPT !.power = PowerLook(a)]

Recompute_Slip(a, l) ==
  LET p == StatusPattern(a) IN
  IF l.shown = p THEN l ELSE [l EXCEPT !.status = StatusLook[p]]

\* recompute_status_led: only writes a pattern it does not remember writing.
Recompute(a, l) ==
  LET p == StatusPattern(a) IN
  IF l.shown = p THEN l ELSE [l EXCEPT !.status = StatusLook[p], !.shown = p]

UpdateHealth(a, l) == Recompute(a, SetBays(a, l, {b \in Bays : a.disks[b] # "None"}))

Green(l, look) == [b \in Bays |-> <<look, l.bays[b][2]>>]

EnterNight(l, front) ==
  LET dark == [l EXCEPT !.bays = Green(l, "Off")] IN
  IF front THEN [dark EXCEPT !.status = StatusLook["Off"], !.power = "Off", !.lan = "Off"]
  ELSE dark

ExitNight(l, front) ==
  LET lit == [l EXCEPT !.bays = Green(l, "Auto")] IN
  IF front THEN [lit EXCEPT !.status = StatusLook["Ok"], !.power = "Solid", !.lan = "Auto"]
  ELSE lit

Reassert_Slip(a, l) == SetBays(a, l, a.located)

\* reassert_locate_leds, after writes that went over every LED.
Reassert(a, l) ==
  LET bays == SetBays(a, l, a.located) IN
  IF a.chassis THEN [bays EXCEPT !.power = "Fast", !.status = StatusLook["Locate"],
                                 !.shown = "Locate"]
  ELSE bays

Remember(l, pattern) == [l EXCEPT !.shown = pattern]

\* Only a loaded driver has LEDs to write to; without it they stand at the
\* defaults they will have.
Written(l) == IF device.stage = "full" THEN l ELSE [leds EXCEPT !.shown = l.shown]

-----------------------------------------------------------------------------
(* Brightness. *)

WantedLevel(a, day) ==
  IF a.config.night /\ a.asleep /\ ~a.chassis THEN "night" ELSE day

\* apply_front_brightness: fails, and is not remembered, without the dimmer.
Dimmed(a, b) ==
  LET want == WantedLevel(a, b.day) IN
  IF want = Nothing \/ b.written = want \/ ~device.dimmer THEN b
  ELSE [b EXCEPT !.level = want, !.written = want]

\* The day level is configured, or read once there is something to read.
DayLevel(a, b) ==
  IF b.day # Nothing THEN b.day
  ELSE IF a.config.day THEN "day"
  ELSE IF a.config.night /\ device.dimmer THEN b.level ELSE Nothing

Redimmed(a, b) == Dimmed(a, [b EXCEPT !.day = DayLevel(a, b), !.written = Nothing])

-----------------------------------------------------------------------------
(* Handlers. *)

driver == <<device, applied, seen>>

\* A node's inode is new each time its driver is loaded.
Snapshot ==
  [stage |-> device.stage, core |-> IF device.stage = "absent" THEN 0 ELSE device.loads,
   dimmer |-> IF device.dimmer THEN device.dimmers ELSE 0]

\* One bay has changed since the last scan, and none of the other checks:
\* several changes come one by one.
Scans == {[app.disks EXCEPT ![b] = h] : b \in Bays, h \in Healths}

\* The monitor keeps what it last knew of a bay that is empty now.
Scanned(a, disks) ==
  [a EXCEPT !.disks = disks,
            !.failed = {b \in Bays : disks[b] = "Failed"
                                     \/ (disks[b] = "None" /\ b \in a.failed)}]

Darkened(a, l) ==
  IF DarkensFront(a) THEN Remember(EnterNight(l, TRUE), "Off") ELSE EnterNight(l, FALSE)

Lit(a, l) ==
  IF DarkensFront(a) THEN Remember(ExitNight(l, TRUE), Nothing) ELSE ExitNight(l, FALSE)

\* Waking refreshes everything.
Waking(a, l) == Reassert(a, UpdateHealth(a, Lit(a, l)))
Woken(disks) == [Scanned(app, disks) EXCEPT !.asleep = FALSE]

\* An alert flashes its bay only if it is an error or critical.
AlertOf(m) == IF m # Nothing /\ m.level >= 2 THEN m.bay ELSE NoBay
Said(a, m) == [a EXCEPT !.over = m, !.alertBay = AlertOf(m)]

Sync_Slip(before, a, l) == Recompute(a, SetBays(a, l, {a.alertBay} \ {NoBay}))

\* sync_leds_to_override: the bay that was flashing, and the one that is.
Sync(before, a, l) == Recompute(a, SetBays(a, l, {before, a.alertBay} \ {NoBay}))

ShowAwake(m) ==
  LET a == Said(app, m) IN
  /\ ~app.asleep
  /\ app' = a
  /\ leds' = Written(Sync(app.alertBay, a, leds))
  /\ UNCHANGED bright

\* An urgent message wakes the panel first; others are dropped at night.
ShowWakes(m) ==
  /\ app.asleep /\ m.level >= 2
  /\ \E disks \in Scans :
       LET woken == Woken(disks)
           a == Said(woken, m)
       IN /\ app' = a
          /\ leds' = Written(Sync(woken.alertBay, a, Waking(woken, leds)))
          /\ bright' = Dimmed(woken, bright)

Show ==
  /\ \E m \in Messages : /\ app.over # Nothing => m.level >= app.over.level
                         /\ ShowAwake(m) \/ ShowWakes(m)
  /\ UNCHANGED driver

\* CLEAR, or the message's time is up.
Clear ==
  LET a == Said(app, Nothing) IN
  /\ app.over # Nothing
  /\ app' = a
  /\ leds' = Written(Sync(app.alertBay, a, leds))
  /\ UNCHANGED <<bright, driver>>

LocateBay(b) ==
  LET a == [app EXCEPT !.located = @ \cup {b}] IN
  /\ app' = a
  /\ leds' = Written(SetBays(a, leds, {b}))
  /\ UNCHANGED <<bright, driver>>

\* Lit solid first, behind the back of `status_shown`.
Primed(l) == IF app.chassis THEN l ELSE [l EXCEPT !.status = StatusLook["Warning"]]

ChassisChanges_Slip(a, l) ==
  app' = a /\ leds' = Written(Recompute(a, SetPower(a, l))) /\ bright' = bright

\* The power and status LEDs and the brightness change hands.
ChassisChanges(a, l) ==
  /\ app' = a
  /\ leds' = Written(Recompute(a, SetPower(a, l)))
  /\ bright' = Dimmed(a, bright)

LocateChassis ==
  /\ ChassisChanges([app EXCEPT !.chassis = TRUE], Primed(leds))
  /\ UNCHANGED driver

\* LOCATE off for one bay, or its time is up.
EndBay(b) ==
  LET a == [app EXCEPT !.located = @ \ {b}] IN
  /\ b \in app.located
  /\ app' = a
  /\ leds' = Written(SetBays(a, leds, {b}))
  /\ UNCHANGED <<bright, driver>>

EndChassis ==
  /\ app.chassis
  /\ ChassisChanges([app EXCEPT !.chassis = FALSE], leds)
  /\ UNCHANGED driver

\* LOCATE off: the bays' first, then the chassis's.
EndLocates ==
  LET a == [app EXCEPT !.located = {}, !.chassis = FALSE]
      handedBack == SetBays(a, leds, app.located)
  IN /\ app.located # {} /\ app.chassis
     /\ ChassisChanges(a, handedBack)
     /\ UNCHANGED driver

\* The tick that finds the schedule wanting night and nothing in the way.
NightFalls ==
  LET a == [app EXCEPT !.asleep = TRUE] IN
  /\ ~app.asleep /\ app.over = Nothing
  /\ app' = a
  /\ leds' = Written(Reassert(a, Darkened(a, leds)))
  /\ bright' = Dimmed(a, bright)
  /\ UNCHANGED driver

\* In the morning, or by a key.
Wakes ==
  /\ app.asleep
  /\ \E disks \in Scans :
       LET a == Woken(disks) IN
       app' = a /\ leds' = Written(Waking(a, leds)) /\ bright' = Dimmed(a, bright)
  /\ UNCHANGED driver

\* A refresh whose disk or pool data is due.
RefreshDisks ==
  /\ \E disks \in Scans :
       LET a == Scanned(app, disks) IN
       app' = a /\ leds' = Written(UpdateHealth(a, leds))
  /\ UNCHANGED <<bright, driver>>

\* One in which only links, temperatures or fans may have changed.
RefreshReadings ==
  /\ \E other \in Others :
       LET a == [app EXCEPT !.other = other] IN
       app' = a /\ leds' = Written(Recompute(a, leds))
  /\ UNCHANGED <<bright, driver>>

-----------------------------------------------------------------------------
(* The drivers, and the watch over them. *)

Present(snapshot) == snapshot.stage = "full"

Change_Slip(before, after) ==
  IF Present(before) # Present(after)
  THEN IF Present(after) THEN "Appeared" ELSE "Disappeared"
  ELSE IF after.dimmer \notin {0, before.dimmer} THEN "BrightnessLed" ELSE "None"

Change(before, after) ==
  IF Present(before) # Present(after)
  THEN IF Present(after) THEN "Appeared" ELSE "Disappeared"
  ELSE IF Present(after) /\ before.core # after.core THEN "Reloaded"
  ELSE IF after.dimmer \notin {0, before.dimmer} THEN "BrightnessLed" ELSE "None"

ApplyBays(a, l) ==
  Reassert(a, SetBays(a, UpdateHealth(a, l), {a.alertBay} \ {NoBay}))

ApplyAll_Slip(a, l) ==
  IF a.asleep /\ DarkensFront(a) THEN ApplyBays(a, Remember(EnterNight(l, TRUE), "Off"))
  ELSE ApplyBays(a, Remember(ExitNight(l, TRUE), Nothing))

\* apply_all_leds: every setting from scratch, for the current state.
ApplyAll(a, l) ==
  LET lit == Remember(ExitNight(l, TRUE), Nothing) IN
  ApplyBays(a, IF ~a.asleep THEN lit
               ELSE IF DarkensFront(a) THEN Remember(EnterNight(l, TRUE), "Off")
               ELSE EnterNight(lit, FALSE))

CheckSeesNew_Slip == seen # Snapshot /\ UNCHANGED <<app, leds, bright, applied, seen>>

\* A snapshot counts once it has been seen twice running.
CheckSeesNew == seen # Snapshot /\ seen' = Snapshot /\ UNCHANGED <<app, leds, bright, applied>>

CheckActs ==
  LET change == Change(applied, Snapshot) IN
  /\ seen = Snapshot /\ applied # Snapshot
  /\ applied' = Snapshot
  /\ IF change \in {"None", "Disappeared"}
     THEN UNCHANGED <<leds, bright>>
     ELSE /\ leds' = Written(ApplyAll(app, leds))
          /\ bright' = Redimmed(app, bright)
  /\ UNCHANGED <<app, seen>>

Check == (CheckSeesNew \/ CheckActs) /\ UNCHANGED device

\* A new device's LEDs.
Defaults(shown) ==
  [bays |-> [b \in Bays |-> <<"Auto", "Off">>], status |-> <<"Solid", "Off">>,
   power |-> "Solid", lan |-> "Auto", shown |-> shown]

DriverLoading ==
  /\ device.stage = "absent" /\ device.loads < MaxLoads
  /\ device' = [device EXCEPT !.stage = "partial", !.loads = @ + 1]
  /\ UNCHANGED leds

DriverLoaded ==
  /\ device.stage = "partial"
  /\ device' = [device EXCEPT !.stage = "full"]
  /\ UNCHANGED leds

DriverUnloaded ==
  /\ device.stage # "absent"
  /\ device' = [device EXCEPT !.stage = "absent"]
  /\ leds' = Defaults(leds.shown)

\* it87 keeps the level across its own reload.
DimmerLoaded ==
  /\ ~device.dimmer /\ device.dimmers < MaxDimmers
  /\ device' = [device EXCEPT !.dimmer = TRUE, !.dimmers = @ + 1]
  /\ UNCHANGED leds

DimmerUnloaded ==
  /\ device.dimmer
  /\ device' = [device EXCEPT !.dimmer = FALSE]
  /\ UNCHANGED leds

DriverMoves ==
  /\ \/ DriverLoading
     \/ DriverLoaded
     \/ DriverUnloaded
     \/ DimmerLoaded
     \/ DimmerUnloaded
  /\ UNCHANGED <<app, bright, applied, seen>>

-----------------------------------------------------------------------------
\* A starting daemon knows nothing of what it finds: it scans, takes its first
\* snapshot and applies everything.
Started(config, disks, other) ==
  [config |-> config, asleep |-> FALSE, over |-> Nothing, alertBay |-> NoBay,
   located |-> {}, chassis |-> FALSE, disks |-> disks, other |-> other,
   failed |-> {b \in Bays : disks[b] = "Failed"}]

Forgot(b) == [b EXCEPT !.day = Nothing, !.written = Nothing]

Restart ==
  LET a == Started(app.config, app.disks, app.other) IN
  /\ app' = a
  /\ leds' = Written(ApplyAll(a, UpdateHealth(a, Remember(leds, Nothing))))
  /\ bright' = Redimmed(a, Forgot(bright))
  /\ applied' = Snapshot /\ seen' = Snapshot
  /\ UNCHANGED device

\* The boot that is usual: the driver is not there yet.
LedsInit ==
  /\ \E config \in Configs, disks \in [Bays -> Healths] :
       app = Started(config, disks, "Ok")
  /\ leds = Defaults(StatusPattern(app))
  /\ bright = [level |-> "bios", written |-> Nothing,
               day |-> IF app.config.day THEN "day" ELSE Nothing]
  /\ device = [stage |-> "absent", dimmer |-> FALSE, loads |-> 0, dimmers |-> 0]
  /\ applied = Snapshot /\ seen = Snapshot

LedsNext ==
  \/ Show
  \/ Clear
  \/ \E b \in Bays : LocateBay(b) \/ EndBay(b)
  \/ LocateChassis
  \/ EndChassis
  \/ EndLocates
  \/ NightFalls
  \/ Wakes
  \/ RefreshDisks
  \/ RefreshReadings
  \/ Check
  \/ DriverMoves
  \/ Restart

LedsSpec == LedsInit /\ [][LedsNext]_ledsVars

\* The loop looks at the drivers every CHECK_INTERVAL, for as long as it runs.
LedsFairSpec == LedsSpec /\ WF_ledsVars(Check)

-----------------------------------------------------------------------------
(* Properties. *)

Patterns == DOMAIN StatusLook
Looks == {"Off", "Solid", "Auto", "Slow", "Half", "Fast", "Blip"}
Snapshots == [stage : {"absent", "partial", "full"}, core : 0..MaxLoads, dimmer : 0..MaxDimmers]

\* Types of everything the LED code keeps.
LedsTypeOK ==
  /\ app \in [config : Configs, asleep : BOOLEAN, over : Messages \cup {Nothing},
              alertBay : Bays \cup {NoBay}, located : SUBSET Bays, chassis : BOOLEAN,
              disks : [Bays -> Healths], other : Others, failed : SUBSET Bays]
  /\ leds \in [bays : [Bays -> Looks \X Looks], status : Looks \X Looks, power : Looks,
               lan : Looks, shown : Patterns \cup {Nothing}]
  /\ bright \in [level : Levels, day : Levels \cup {Nothing}, written : Levels \cup {Nothing}]
  /\ device \in [stage : {"absent", "partial", "full"}, dimmer : BOOLEAN,
                loads : 0..MaxLoads, dimmers : 0..MaxDimmers]
  /\ {applied, seen} \subseteq Snapshots

BayRight(b) ==
  leds.bays[b] = IF app.asleep THEN NightLook(BayState(app, b)) ELSE BayLook[BayState(app, b)]

FrontRight ==
  /\ leds.status = StatusLook[StatusPattern(app)]
  /\ leds.power = PowerLook(app)
  /\ leds.lan = IF app.asleep /\ DarkensFront(app) THEN "Off" ELSE "Auto"

\* What an empty bay's red LED was last told to show stays, by day its green
\* one's as well: see README.md.
Looked(b) == app.disks[b] # "None" \/ b \in app.located \/ b = app.alertBay

LedsRight ==
  /\ FrontRight
  /\ \A b \in Bays : /\ Looked(b) => BayRight(b)
                     /\ app.asleep /\ b \notin app.located => leds.bays[b][1] = "Off"

LevelRight == device.dimmer => WantedLevel(app, bright.day) \in {bright.level, Nothing}

\* The devices the settings were last applied to are the ones that are there.
Settled == device.stage = "full" /\ applied = Snapshot

\* Whatever messages, locates, nights, scans and driver reloads came in what
\* order, each LED shows what the state calls for, at the level it calls for:
\* nothing written for a layer outlives it, nothing remembered as written is
\* missing (state.rs:428-640).
LedsFollowState == Settled => LedsRight /\ LevelRight

\* After a driver (re)load or a restart of the daemon the LEDs come right again
\* without any of the events that would write them one by one (driver_watch.rs).
LedsComeRight == []<>(device.stage = "full" => LedsRight)
=============================================================================
