------------------------------- MODULE Settings -------------------------------
(***************************************************************************)
(* What the configuration file may say, and what the daemon makes of it    *)
(* (Config::validate and what it calls, config.rs; Rule::parse and lint,   *)
(* power.rs). Each problem turns off or reverts only the piece it is in.   *)
(* Only the settings with a rule to them are here; templates and names are *)
(* not.                                                                    *)
(*                                                                         *)
(* A temperature is a whole degree, or NaN: what is not finite, which no   *)
(* comparison holds of. None is an option left out.                        *)
(***************************************************************************)
EXTENDS Integers, FiniteSets

CONSTANTS NaN, None

ASSUME NumbersAssumption == NaN \notin Int /\ None \notin Int /\ NaN # None

Degrees == Int \cup {NaN}

MaxSecs == 86400 \* MAX_SECS
MaxCountdown == 3600 \* MAX_COUNTDOWN_SECS

AtLeast(a, b) == a # NaN /\ b # NaN /\ a >= b

ClampTo(value, max) == IF value > max THEN max ELSE value
Clamp(value, min, max) == IF value < min THEN min ELSE ClampTo(value, max)

-----------------------------------------------------------------------------
(* [[fans]] *)

Selectors == [chip : BOOLEAN, min : Degrees \cup {None}, max : Degrees \cup {None}]
RawFans ==
  [enabled : BOOLEAN, chip : BOOLEAN, mode : {"curve", "fixed"},
   fixed : 0 .. 255 \cup {None}, every : Nat, min : Degrees, max : Degrees,
   minPwm : 0 .. 255, minStop : 0 .. 255, maxPwm : 0 .. 255,
   sensors : SUBSET Selectors]

DefaultMin == 45
DefaultMax == 90

Finite(value, default) == IF value = NaN THEN default ELSE value

\* sanitize_fan_temps
SanitizedFan(f) ==
  [f EXCEPT !.every = Clamp(f.every, 1, 60),
            !.min = Finite(f.min, DefaultMin), !.max = Finite(f.max, DefaultMax),
            !.sensors = {[s EXCEPT !.min = Finite(s.min, None),
                                   !.max = Finite(s.max, None)] : s \in f.sensors}]

\* The ends of a selector's ramp: its own, or the fan's.
RampMin(f, s) == IF s.min = None THEN f.min ELSE s.min
RampMax(f, s) == IF s.max = None THEN f.max ELSE s.max

\* FanProfile::problems has nothing to say.
NoProblems(f) ==
  /\ f.chip /\ ~AtLeast(f.min, f.max)
  /\ ~(f.minPwm > f.maxPwm) /\ ~(f.minStop > f.maxPwm)
  /\ f.mode = "fixed" =>
       /\ f.fixed # None /\ ~(f.fixed < f.minPwm) /\ ~(f.fixed > f.maxPwm)
       /\ f.sensors # {}
  /\ \A s \in f.sensors : s.chip /\ ~AtLeast(RampMin(f, s), RampMax(f, s))

\* An inconsistent profile is turned off.
ValidFan(f) ==
  LET g == SanitizedFan(f) IN [g EXCEPT !.enabled = g.enabled /\ NoProblems(g)]

-----------------------------------------------------------------------------
(* [cpu_power] *)

CpuLimits == [pl1 : Nat, pl2 : Nat, tau : Nat]
RawCpu == [enabled : BOOLEAN, own : CpuLimits, stock : CpuLimits, rearm : Nat, check : Nat]

LimitsFine(l) ==
  /\ l.pl1 \in 1 .. 100 /\ l.pl2 \in 1 .. 100 /\ ~(l.pl2 < l.pl1)
  /\ l.tau \in 1 .. 3600

\* CpuPowerConfig::problems has nothing to say.
CpuFine(c) ==
  LimitsFine(c.own) /\ LimitsFine(c.stock) /\ c.check \in 1 .. 60 /\ ~(c.rearm > MaxSecs)

ValidCpu(c) == [c EXCEPT !.enabled = c.enabled /\ CpuFine(c)]

\* UW_PER_W and US_PER_S.
Million == 1000000

\* Limits::configured and Limits::stock, in the kernel's units.
InMicro(l) ==
  [pl1 |-> l.pl1 * Million, pl2 |-> l.pl2 * Million, tau |-> l.tau * Million]

-----------------------------------------------------------------------------
(* [temperature] *)

Thresholds == [warn : Degrees, critical : Degrees]
DefaultThresholds == [warn |-> 75, critical |-> 85]

\* sanitize_thresholds: those of a chip that are not finite are dropped.
SanitizedOverrides(chips) ==
  {o \in chips : o.warn # NaN /\ o.critical # NaN}
SanitizedThresholds(t) ==
  [warn |-> Finite(t.warn, DefaultThresholds.warn),
   critical |-> Finite(t.critical, DefaultThresholds.critical)]

-----------------------------------------------------------------------------
(* [sleep], and the durations. *)

ClockTimes == [hour : Nat, minute : Nat] \cup {None}

\* parse_hhmm; None is no number at all.
ParseTime(t) ==
  IF t # None /\ t.hour < 24 /\ t.minute < 60 THEN t.hour * 60 + t.minute ELSE None

RawSleep == [enabled : BOOLEAN, start : ClockTimes, end : ClockTimes]
ValidSleep(s) ==
  [s EXCEPT !.enabled = s.enabled /\ ParseTime(s.start) # None /\ ParseTime(s.end) # None]

\* SleepConfig::contains, of minutes of the day.
Contains(start, end, now) ==
  IF start <= end THEN start <= now /\ now < end ELSE now >= start \/ now < end

-----------------------------------------------------------------------------
(* [[power_schedule]] *)

Week == 7 * 1440
Actions == {"PowerOn", "Shutdown", "Restart"}

\* The words of `days`, full names aside, and their days, Sunday being 0.
DayWords ==
  [daily |-> 0 .. 6, weekdays |-> 1 .. 5, weekends |-> {0, 6}, sun |-> {0}, mon |-> {1},
   tue |-> {2}, wed |-> {3}, thu |-> {4}, fri |-> {5}, sat |-> {6}]

RawRules ==
  [enabled : BOOLEAN, action : Actions \cup {None},
   days : SUBSET (DOMAIN DayWords \cup {None}), time : ClockTimes, countdown : Nat]

ParseDays(words) == UNION {DayWords[w] : w \in words}

\* Rule::parse succeeds.
RuleFine(r) ==
  /\ r.action # None /\ r.days # {} /\ r.days \subseteq DOMAIN DayWords
  /\ ParseTime(r.time) # None /\ ~(r.countdown > MaxCountdown)

Parsed(r) ==
  [action |-> r.action, days |-> ParseDays(r.days), minute |-> ParseTime(r.time),
   countdown |-> r.countdown]

\* parse_rules, of those validate left enabled.
ParseRules(raw) == {Parsed(r) : r \in {q \in raw : q.enabled /\ RuleFine(q)}}

WeekMinutes(r) == {d * 1440 + r.minute : d \in r.days}

\* How long before a power-on its shutdown has to be, with the margin.
Window(off) == (off.countdown + 59) \div 60 + 5

TooSoon(m, n, window) == (n + Week - m) % Week < window

\* lint: two that clash, and a power-on too soon after a shutdown.
Clash(a, b) ==
  /\ {a.action, b.action} = {"Shutdown", "Restart"}
  /\ WeekMinutes(a) \cap WeekMinutes(b) # {}
Missed(off, on) ==
  /\ off.action = "Shutdown" /\ on.action = "PowerOn"
  /\ \E m \in WeekMinutes(off), n \in WeekMinutes(on) : TooSoon(m, n, Window(off))

-----------------------------------------------------------------------------
(* The whole file. *)

\* Config::validate
Validate(c) ==
  [c EXCEPT !.fans = {ValidFan(f) : f \in c.fans},
            !.cpu = ValidCpu(c.cpu),
            !.sleep = ValidSleep(c.sleep),
            !.rules = {[r EXCEPT !.enabled = r.enabled /\ RuleFine(r)] : r \in c.rules},
            !.thresholds = SanitizedThresholds(c.thresholds),
            !.chips = SanitizedOverrides(c.chips),
            !.secs = ClampTo(c.secs, MaxSecs),
            !.brightness = IF c.brightness = None THEN None
                           ELSE ClampTo(c.brightness, 100)]

RawConfigs ==
  [fans : SUBSET RawFans, cpu : RawCpu, sleep : RawSleep, rules : SUBSET RawRules,
   thresholds : Thresholds, chips : SUBSET Thresholds, secs : Nat,
   brightness : Nat \cup {None}]

-----------------------------------------------------------------------------
(* What the rest of the daemon relies on. *)

\* What FanController assumes of a profile.
FanSane(f) ==
  /\ f.every \in 1 .. 60 /\ f.min \in Int /\ f.max \in Int /\ f.min < f.max
  /\ f.minPwm <= f.maxPwm /\ f.minStop <= f.maxPwm
  /\ f.mode = "fixed" => f.fixed \in f.minPwm .. f.maxPwm /\ f.sensors # {}
  /\ \A s \in f.sensors :
       RampMin(f, s) \in Int /\ RampMax(f, s) \in Int /\ RampMin(f, s) < RampMax(f, s)

\* What CpuPower assumes of both sets of limits.
CpuSane(c) ==
  \A l \in {InMicro(c.own), InMicro(c.stock)} :
    0 < l.pl1 /\ l.pl1 <= l.pl2 /\ 0 < l.tau

\* What PowerSchedule and AppState assume of a rule.
RuleSane(r) ==
  /\ r.action \in Actions /\ r.days \subseteq 0 .. 6 /\ r.days # {}
  /\ r.minute \in 0 .. 1439 /\ r.countdown \in 0 .. MaxCountdown
=============================================================================
