---------------------------- MODULE FanController ----------------------------
(***************************************************************************)
(* One fan (FanController, src/src/fan.rs): what its sensors read, what    *)
(* the control thread remembers of them, and what it writes to the pwm     *)
(* chip every update_secs.  One Update is one update(): it reads the       *)
(* sensors and the tach, decides and writes, and any write may fail.       *)
(*                                                                         *)
(* Time.  As in AppState an Instant is the time left to it; since the      *)
(* start and since control was lost it is the time gone by, counted up to  *)
(* CriticalAfter, the last age anything asks for.  The control thread      *)
(* passes every 100 ms, so no unit of time goes by while an update is due  *)
(* (a thread that is stuck is FanService's business).                      *)
(*                                                                         *)
(* Data.  reading[s] is SensorFeed::current: the value the selector's      *)
(* reader thread published last, or NoReading if that matched no sensor or *)
(* is stale.  Temperatures are whole degrees; those of an over-range       *)
(* sensor count as critical, so CritAt and WarnAt stand for the lower of   *)
(* the configured threshold and the over-range limit.  fixedPwm is the     *)
(* mode: NoPwm is mode = "curve".                                          *)
(*                                                                         *)
(* A definition whose name ends in _Slip is the next one with a mistake in *)
(* it; see AppState.                                                       *)
(***************************************************************************)
EXTENDS Integers

CONSTANTS
  Sensors,      \* the fan's selectors
  Temps,        \* what they may read
  NoReading,    \* a reading that is None
  MinTemp, MaxTemp,  \* per selector: the ends of its ramp
  WarnAt, CritAt,    \* per selector: its chip's thresholds
  FixedPwms,    \* the profile's fixed_pwm, or NoPwm in curve mode
  MinPwm, MinStopPwm, MinStartPwm, MaxPwm,
  Tachs,        \* what the tach may say; "low": below min_expected_rpm
  UpdateEvery,  \* update_secs
  KickFor,      \* how long a kick is left alone, rounded up
  LossGrace, RecoveryHold, TakeoverAfter, WarnAfter, CriticalAfter \* Timing

Never == -1
NoPwm == -1
Pwm == 0 .. 255
Timer == {t \in Int : t >= Never}
UnresponsiveAfterStalls == 3

ASSUME SensorsAssumption ==
  /\ Temps \subseteq Int
  /\ NoReading \notin Int
  /\ {MinTemp, MaxTemp, WarnAt, CritAt} \subseteq [Sensors -> Int]
  /\ \A s \in Sensors : MinTemp[s] < MaxTemp[s]
ASSUME ProfileAssumption ==
  /\ {MinPwm, MinStopPwm, MinStartPwm, MaxPwm} \subseteq Pwm
  /\ MinPwm <= MaxPwm /\ MinStopPwm <= MaxPwm
  /\ \A p \in FixedPwms : p = NoPwm \/ p \in MinPwm .. MaxPwm
  /\ Tachs \subseteq {"none", "zero", "low", "ok"}
ASSUME TimingAssumption ==
  /\ UpdateEvery \in Nat \ {0} /\ KickFor \in Nat \ {0}
  /\ {LossGrace, RecoveryHold} \subseteq Nat
  /\ CriticalAfter \in Nat
  /\ WarnAfter \in 0 .. CriticalAfter /\ TakeoverAfter \in 0 .. CriticalAfter

VARIABLES
  fixedPwm,    \* profile.fixed_pwm in fixed mode; never changes
  reading,     \* what each selector reads now
  feeds,       \* what the control thread remembers of each selector
  critical,    \* critical_override
  hwmon,       \* the chip's path is known
  lastPwm,     \* last_pwm
  kick,        \* kick_until
  stalls,      \* consecutive_stalls, counted up to UnresponsiveAfterStalls
  lowRpm,      \* low_rpm_warned
  sensorsLost,
  age,         \* how long ago it started
  lossAge,     \* control_loss: how long the fan has not been under control
  nextUpdate,  \* last_tick: until the next update is due
  manual, pwm  \* the chip: pwmN_enable = 1, and pwmN

sensing == <<reading, feeds, critical>>
driving == <<hwmon, lastPwm, kick, lossAge, manual, pwm>>
health == <<stalls, lowRpm, sensorsLost>>
vars == <<fixedPwm, sensing, driving, health, age, nextUpdate>>

Feed == [ever : BOOLEAN, held : BOOLEAN, lost : Timer, back : Timer]

-----------------------------------------------------------------------------
(* The sensors. *)

Readable == {s \in Sensors : reading[s] # NoReading}

\* The grace starts anew at every update: SilenceIsCovered.
TrackedAnew_Slip(s) ==
  LET f == feeds[s] IN
  IF s \in Readable \/ ~f.ever
  THEN [f EXCEPT !.ever = @ \/ s \in Readable, !.held = FALSE]
  ELSE [f EXCEPT !.lost = LossGrace, !.held = @ \/ LossGrace = 0]

\* The recovery goes on through a silence: HoldOutlastsFlapping.
TrackedOn_Slip(s) ==
  LET f == feeds[s]
      back == IF f.held /\ f.back = Never THEN RecoveryHold ELSE f.back
      lost == IF f.lost = Never THEN LossGrace ELSE f.lost
  IN  IF s \in Readable
      THEN [ever |-> TRUE, lost |-> Never,
            held |-> f.held /\ back # 0,
            back |-> IF f.held /\ back = 0 THEN Never ELSE back]
      ELSE IF ~f.ever THEN f
      ELSE [f EXCEPT !.lost = lost, !.held = @ \/ lost = 0]

\* A selector's loss and recovery as track_sensors leaves them.
Tracked(s) ==
  LET f == feeds[s]
      back == IF f.held /\ f.back = Never THEN RecoveryHold ELSE f.back
      lost == IF f.lost = Never THEN LossGrace ELSE f.lost
  IN  IF s \in Readable
      THEN [ever |-> TRUE, lost |-> Never,
            held |-> f.held /\ back # 0,
            back |-> IF f.held /\ back = 0 THEN Never ELSE back]
      ELSE IF ~f.ever THEN f
      ELSE [ever |-> TRUE, lost |-> lost,
            held |-> f.held \/ lost = 0, back |-> Never]

\* The hold as the last update left it: FullSpeedInDoubt.
FloorActive_Slip == \E s \in Sensors : feeds[s].held

FloorActive == \E s \in Sensors : Tracked(s).held

\* update_critical_override.
CriticalNow ==
  \/ \E s \in Readable : reading[s] >= CritAt[s]
  \/ critical /\ \E s \in Readable : reading[s] >= WarnAt[s]

AnySensorRead == \E s \in Sensors : feeds[s].ever

-----------------------------------------------------------------------------
(* What to write. *)

Rounded(n, d) == (2 * n + d) \div (2 * d)

ComputePwm(s, t) ==
  IF t <= MinTemp[s] THEN MinPwm
  ELSE IF t >= MaxTemp[s] THEN MaxPwm
  ELSE MinStopPwm + Rounded((t - MinTemp[s]) * (MaxPwm - MinStopPwm),
                            MaxTemp[s] - MinTemp[s])

\* s is the sensor that asks for the most.
Hottest(s) ==
  /\ s \in Readable
  /\ \A r \in Readable : ComputePwm(r, reading[r]) <= ComputePwm(s, reading[s])

\* A fixed speed overrides everything: HotIsCooled.
Targets_Slip ==
  IF fixedPwm # NoPwm THEN {fixedPwm}
  ELSE IF CriticalNow \/ FloorActive THEN {MaxPwm}
  ELSE {ComputePwm(s, reading[s]) : s \in {r \in Sensors : Hottest(r)}}

\* What target_pwm_from_sensors returns, as a set of one.
Targets ==
  IF CriticalNow \/ FloorActive THEN {MaxPwm}
  ELSE IF fixedPwm # NoPwm THEN {fixedPwm}
  ELSE {ComputePwm(s, reading[s]) : s \in {r \in Sensors : Hottest(r)}}

Stalled(rpm) == lastPwm > 0 /\ rpm = "zero"

\* A fan that has just been kicked is kicked again: ComesToRest.
Plan_Slip(t, rpm) ==
  IF t = 0 THEN [kick |-> FALSE, pwm |-> 0, stalls |-> 0, low |-> FALSE]
  ELSE IF lastPwm <= MinStartPwm
  THEN [kick |-> TRUE, pwm |-> MinStartPwm, low |-> lowRpm, stalls |-> 0]
  ELSE [kick |-> FALSE, pwm |-> t, stalls |-> 0, low |-> rpm = "low"]

\* plan: the command, and what it makes of the tach.
Plan(t, rpm) ==
  IF t = 0 THEN [kick |-> FALSE, pwm |-> 0, stalls |-> 0, low |-> FALSE]
  ELSE IF Stalled(rpm)
  THEN [kick |-> TRUE, pwm |-> MinStartPwm, low |-> lowRpm,
        stalls |-> IF stalls < UnresponsiveAfterStalls THEN stalls + 1
                                                       ELSE stalls]
  ELSE IF lastPwm <= 0
  THEN [kick |-> TRUE, pwm |-> MinStartPwm, low |-> lowRpm, stalls |-> stalls]
  ELSE [kick |-> FALSE, pwm |-> t, stalls |-> 0,
        low |-> IF rpm = "none" THEN lowRpm ELSE rpm = "low"]

-----------------------------------------------------------------------------
(* Writing it. *)

Wrote(p) ==
  /\ manual' = TRUE /\ pwm' = p
  /\ lastPwm' = p
  /\ hwmon' = TRUE
  /\ lossAge' = Never

\* Every failure starts the clock anew: NeverSilentlyAstray.
NoteControlLost_Slip ==
  /\ hwmon' = FALSE
  /\ lossAge' = 0
  /\ UNCHANGED lastPwm

NoteControlLost ==
  /\ hwmon' = FALSE
  /\ lossAge' = IF lossAge = Never THEN 0 ELSE lossAge
  /\ UNCHANGED lastPwm

\* Manual mode is asserted first: it may hold when the pwm write fails.
WriteFailed ==
  /\ NoteControlLost
  /\ manual' \in {manual, TRUE}
  /\ UNCHANGED pwm

Apply(cmd) ==
  \/ Wrote(cmd.pwm) /\ kick' = IF cmd.kick THEN KickFor ELSE Never
  \/ WriteFailed /\ kick' = Never

-----------------------------------------------------------------------------
(* update: one pass of the control thread over this fan. *)

UpdateDue ==
  /\ nextUpdate = 0
  /\ nextUpdate' = UpdateEvery
  /\ UNCHANGED <<fixedPwm, reading, age>>

\* The chip is not there (yet): the sensors are not looked at either.
UpdateWithoutChip ==
  /\ UpdateDue
  /\ ~hwmon
  /\ NoteControlLost
  /\ UNCHANGED <<feeds, critical, health, kick, manual, pwm>>

TrackSensors == feeds' = [s \in Sensors |-> Tracked(s)]

\* Nothing has ever been written and it is early: the BIOS is left in charge.
UpdateTooEarly ==
  /\ UpdateDue
  /\ Readable = {} /\ lastPwm = NoPwm /\ age < TakeoverAfter
  /\ TrackSensors
  /\ hwmon' = TRUE
  /\ UNCHANGED <<critical, health, lastPwm, kick, lossAge, manual, pwm>>

HoldFullSpeedWithoutSensors ==
  /\ UpdateDue
  /\ Readable = {} /\ ~(lastPwm = NoPwm /\ age < TakeoverAfter)
  /\ TrackSensors
  /\ sensorsLost' = TRUE
  /\ Apply([kick |-> FALSE, pwm |-> MaxPwm])
  /\ UNCHANGED <<critical, stalls, lowRpm>>

UpdateReads ==
  /\ UpdateDue
  /\ Readable # {}
  /\ TrackSensors
  /\ critical' = CriticalNow
  /\ sensorsLost' = FALSE

UpdateMidKick ==
  /\ UpdateReads
  /\ kick > 0
  /\ hwmon' = TRUE
  /\ UNCHANGED <<stalls, lowRpm, lastPwm, kick, lossAge, manual, pwm>>

UpdateDrives(t, rpm) ==
  /\ UpdateReads
  /\ kick <= 0
  /\ Apply(Plan(t, rpm))
  /\ stalls' = Plan(t, rpm).stalls
  /\ lowRpm' = Plan(t, rpm).low

UpdateWithChip ==
  \/ UpdateTooEarly \/ HoldFullSpeedWithoutSensors \/ UpdateMidKick
  \/ \E t \in Targets, rpm \in Tachs : UpdateDrives(t, rpm)

Update == UpdateWithoutChip \/ UpdateWithChip

-----------------------------------------------------------------------------
(* What happens around it. *)

\* A reader thread publishes, or its last sample has become too old.
Sample(s, value) ==
  /\ reading' = [reading EXCEPT ![s] = value]
  /\ UNCHANGED <<fixedPwm, feeds, critical, driving, health, age, nextUpdate>>

\* The firmware, or a driver being reloaded, goes back to automatic.
GoAutomatic ==
  /\ manual' = FALSE
  /\ UNCHANGED <<fixedPwm, sensing, hwmon, lastPwm, kick, lossAge, pwm, health,
                 age, nextUpdate>>

Less(t) == IF t > 0 THEN t - 1 ELSE t
Older(a) == IF a = Never \/ a >= CriticalAfter THEN a ELSE a + 1

Elapse ==
  /\ nextUpdate > 0
  /\ nextUpdate' = nextUpdate - 1
  /\ kick' = Less(kick)
  /\ feeds' = [s \in Sensors |->
       [feeds[s] EXCEPT !.lost = Less(@), !.back = Less(@)]]
  /\ age' = Older(age)
  /\ lossAge' = Older(lossAge)
  /\ UNCHANGED <<fixedPwm, reading, critical, health, hwmon, lastPwm, manual, pwm>>

Init ==
  /\ fixedPwm \in FixedPwms
  /\ reading = [s \in Sensors |-> NoReading]
  /\ feeds = [s \in Sensors |->
       [ever |-> FALSE, held |-> FALSE, lost |-> Never, back |-> Never]]
  /\ critical = FALSE
  /\ hwmon = FALSE /\ lastPwm = NoPwm /\ kick = Never
  /\ stalls = 0 /\ lowRpm = FALSE /\ sensorsLost = FALSE
  /\ age = 0 /\ lossAge = 0 /\ nextUpdate = 0
  /\ manual \in BOOLEAN /\ pwm \in {0, 255}

Next ==
  \/ Update
  \/ \E s \in Sensors, value \in Temps \cup {NoReading} : Sample(s, value)
  \/ GoAutomatic
  \/ Elapse

Spec == Init /\ [][Next]_vars

\* The control thread passes every 100 ms, and clocks run.
FairSpec == Spec /\ WF_vars(Update) /\ WF_vars(Elapse)

-----------------------------------------------------------------------------
(* health_level, which drives the status LED. *)

Health ==
  IF \/ stalls >= UnresponsiveAfterStalls
     \/ lossAge >= CriticalAfter
     \/ sensorsLost /\ ~AnySensorRead /\ age >= CriticalAfter
  THEN "Critical"
  ELSE IF \/ lossAge >= WarnAfter \/ stalls > 0 \/ lowRpm \/ sensorsLost
          \/ \E s \in Sensors : feeds[s].held
  THEN "Warn"
  ELSE "Info"

-----------------------------------------------------------------------------
(* Properties. *)

TypeOK ==
  /\ fixedPwm \in Pwm \cup {NoPwm}
  /\ reading \in [Sensors -> Temps \cup {NoReading}]
  /\ feeds \in [Sensors -> Feed]
  /\ critical \in BOOLEAN
  /\ hwmon \in BOOLEAN
  /\ lastPwm \in Pwm \cup {NoPwm}
  /\ kick \in Timer
  /\ stalls \in 0 .. UnresponsiveAfterStalls
  /\ lowRpm \in BOOLEAN /\ sensorsLost \in BOOLEAN
  /\ age \in Nat /\ lossAge \in Timer /\ nextUpdate \in Nat
  /\ manual \in BOOLEAN /\ pwm \in Pwm

InDoubt == critical \/ sensorsLost \/ \E s \in Sensors : feeds[s].held

\* Whatever the curve or the fixed speed says, a fan in doubt (too hot a
\* sensor, a sensor gone silent, or all of them) has been told to run at
\* max_pwm, unless it is being kicked into motion, its tach reads zero, or it
\* is not under control at all, which control_loss says.
FullSpeedInDoubt ==
  InDoubt => lastPwm = MaxPwm \/ kick # Never \/ stalls > 0 \/ lossAge # Never

\* Once the readings stop changing and the fan can be driven, it ends up at
\* exactly the speed they ask for, every kick and hold over; and once its
\* sensors all stay below warning it is not held at max_pwm for good.
ComesToRest ==
  <>[](Readable # {} /\ lossAge = Never /\ stalls = 0) =>
    /\ <>[][UNCHANGED reading]_vars => <>[](lastPwm \in Targets)
    /\ <>[](\A s \in Sensors : s \in Readable /\ reading[s] < WarnAt[s])
         => <>[]~InDoubt
=============================================================================
