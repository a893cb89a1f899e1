------------------------------ MODULE FanProofs ------------------------------
(***************************************************************************)
(* Proofs about FanController, for every set of selectors, every curve,    *)
(* every threshold and every timing.                                       *)
(***************************************************************************)
EXTENDS FanTiming, TLAPS

-----------------------------------------------------------------------------
(* The inductive invariant. *)

\* A fan nothing was ever written to has not been under control since it
\* started, and control_loss has been running since.
UntouchedIsLost == lastPwm = NoPwm => lossAge # Never

IInv == TypeOK /\ UntouchedIsLost /\ FullSpeedInDoubt

USE DEF Never, NoPwm

-----------------------------------------------------------------------------
(* The curve. *)

\* Rounding a share of a span to the nearest stays within the span.
LEMMA RoundedFact ==
  ASSUME NEW a \in Nat, NEW b \in Nat, NEW d \in Nat, a < d
  PROVE  Rounded(a * b, d) \in 0 .. b
<1> DEFINE n == a * b
           q == (2 * n + d) \div (2 * d)
<1>1. n \in Nat /\ n <= d * b
  <2>1. n \in Nat /\ d * b \in Nat
    OBVIOUS
  <2>2. d * b = n + (d - a) * b
    OBVIOUS
  <2>3. (d - a) * b >= 0
    OBVIOUS
  <2>4. QED
    BY <2>1, <2>2, <2>3
<1> HIDE DEF n
<1>2. 2 * d \in Nat /\ 2 * d > 0 /\ 2 * n + d \in Nat
  BY <1>1
<1>3. q \in Nat /\ (2 * d) * q <= 2 * n + d
  BY <1>2
<1>4. q <= b
  <2>1. SUFFICES ASSUME q >= b + 1 PROVE FALSE
    BY <1>3
  <2> HIDE DEF q
  <2>2. (2 * d) * q >= (2 * d) * (b + 1)
    BY <2>1, <1>2, <1>3
  <2>3. (2 * d) * (b + 1) = 2 * (d * b) + 2 * d
    OBVIOUS
  <2>4. QED
    BY <2>2, <2>3, <1>1, <1>3
<1>5. QED
  BY <1>3, <1>4 DEF n, Rounded

\* The curve never leaves min_pwm, or min_stop_pwm .. max_pwm.
LEMMA CurveFact ==
  ASSUME NEW s \in Sensors, NEW t \in Int
  PROVE  ComputePwm(s, t) \in {MinPwm} \cup (MinStopPwm .. MaxPwm)
<1> DEFINE d == MaxTemp[s] - MinTemp[s]
           a == t - MinTemp[s]
           b == MaxPwm - MinStopPwm
<1>1. MinTemp[s] \in Int /\ MaxTemp[s] \in Int /\ MinTemp[s] < MaxTemp[s]
  BY SensorsAssumption
<1>2. MinPwm \in Int /\ MinStopPwm \in Int /\ MaxPwm \in Int
      /\ MinStopPwm <= MaxPwm
  BY ProfileAssumption DEF Pwm
<1>3. CASE t <= MinTemp[s]
  BY <1>3 DEF ComputePwm
<1>4. CASE t >= MaxTemp[s]
  BY <1>1, <1>2, <1>4 DEF ComputePwm
<1>5. CASE ~(t <= MinTemp[s]) /\ ~(t >= MaxTemp[s])
  <2>1. a \in Nat /\ b \in Nat /\ d \in Nat /\ a < d
    BY <1>1, <1>2, <1>5
  <2>2. Rounded(a * b, d) \in 0 .. b
    BY <2>1, RoundedFact
  <2>3. ComputePwm(s, t) = MinStopPwm + Rounded(a * b, d)
    BY <1>5 DEF ComputePwm
  <2> HIDE DEF a, d
  <2>4. QED
    BY <1>2, <2>2, <2>3
<1>6. QED
  BY <1>1, <1>3, <1>4, <1>5

\* Whatever the sensors ask for is a speed the chip takes.
LEMMA TargetsFact ==
  ASSUME TypeOK
  PROVE  Targets \subseteq Pwm
<1>1. MinPwm \in Pwm /\ MinStopPwm \in Pwm /\ MaxPwm \in Pwm
  BY ProfileAssumption
<1>2. ASSUME NEW s \in Sensors, Hottest(s)
      PROVE  ComputePwm(s, reading[s]) \in Pwm
  <2>1. reading[s] \in Int
    BY <1>2, SensorsAssumption DEF Hottest, Readable, TypeOK
  <2>2. ComputePwm(s, reading[s]) \in {MinPwm} \cup (MinStopPwm .. MaxPwm)
    BY <2>1, CurveFact
  <2>3. QED
    BY <2>2, <1>1 DEF Pwm
<1>3. fixedPwm # NoPwm => fixedPwm \in Pwm
  BY DEF TypeOK
<1>4. QED
  BY <1>1, <1>2, <1>3 DEF Targets

-----------------------------------------------------------------------------
(* The sensors. *)

LEMMA TrackedFact ==
  ASSUME TypeOK, NEW s \in Sensors
  PROVE  Tracked(s) \in Feed
<1> DEFINE f == feeds[s]
           back == IF f.held /\ f.back = Never THEN RecoveryHold ELSE f.back
           lost == IF f.lost = Never THEN LossGrace ELSE f.lost
<1>1. f \in Feed
  BY DEF TypeOK
<1>2. back \in Timer /\ lost \in Timer
  BY <1>1, TimingAssumption DEF Feed, Timer
<1>3. f.ever \in BOOLEAN /\ f.held \in BOOLEAN /\ Never \in Timer
  BY <1>1 DEF Feed, Timer
<1>4. Tracked(s) =
        IF s \in Readable
        THEN [ever |-> TRUE, lost |-> Never,
              held |-> f.held /\ back # 0,
              back |-> IF f.held /\ back = 0 THEN Never ELSE back]
        ELSE IF ~f.ever THEN f
        ELSE [ever |-> TRUE, lost |-> lost,
              held |-> f.held \/ lost = 0, back |-> Never]
  BY DEF Tracked
<1> HIDE DEF f, back, lost
<1>5. QED
  BY <1>1, <1>2, <1>3, <1>4 DEF Feed

\* After an update the fan holds max_pwm for some sensor just when the
\* target was computed so.
LEMMA TrackSensorsFact ==
  ASSUME TypeOK, TrackSensors
  PROVE  /\ feeds' \in [Sensors -> Feed]
         /\ (\E s \in Sensors : feeds'[s].held) => FloorActive
<1>1. feeds' \in [Sensors -> Feed]
  BY TrackedFact DEF TrackSensors
<1>2. QED
  BY <1>1 DEF TrackSensors, FloorActive

-----------------------------------------------------------------------------
(* Writing. *)

LEMMA PlanFact ==
  ASSUME TypeOK, NEW t \in Pwm, NEW rpm \in Tachs
  PROVE  /\ Plan(t, rpm).pwm \in Pwm
         /\ Plan(t, rpm).stalls \in 0 .. UnresponsiveAfterStalls
         /\ Plan(t, rpm).low \in BOOLEAN
         /\ Plan(t, rpm).kick \/ Plan(t, rpm).pwm = t
<1>1. MinStartPwm \in Pwm /\ lowRpm \in BOOLEAN
      /\ stalls \in 0 .. UnresponsiveAfterStalls
  BY ProfileAssumption DEF TypeOK
<1>2. CASE t = 0
  BY <1>2 DEF Plan, UnresponsiveAfterStalls
<1>3. CASE t # 0 /\ Stalled(rpm)
  BY <1>1, <1>3 DEF Plan, UnresponsiveAfterStalls
<1>4. CASE t # 0 /\ ~Stalled(rpm) /\ lastPwm <= 0
  BY <1>1, <1>4 DEF Plan, UnresponsiveAfterStalls
<1>5. CASE t # 0 /\ ~Stalled(rpm) /\ ~(lastPwm <= 0)
  <2> DEFINE low == IF rpm = "none" THEN lowRpm ELSE rpm = "low"
  <2>1. Plan(t, rpm) = [kick |-> FALSE, pwm |-> t, stalls |-> 0, low |-> low]
    BY <1>5 DEF Plan
  <2>2. low \in BOOLEAN
    BY <1>1
  <2> HIDE DEF low
  <2>3. QED
    BY <2>1, <2>2 DEF UnresponsiveAfterStalls
<1>6. QED
  BY <1>2, <1>3, <1>4, <1>5

\* A write that works leaves the fan under control at the commanded speed;
\* one that fails starts or keeps the clock of control_loss.
LEMMA ApplyFact ==
  ASSUME TypeOK, UntouchedIsLost, NEW cmd, cmd.pwm \in Pwm, Apply(cmd)
  PROVE  /\ hwmon' \in BOOLEAN /\ manual' \in BOOLEAN /\ pwm' \in Pwm
         /\ lastPwm' \in Pwm \cup {NoPwm}
         /\ kick' \in Timer /\ lossAge' \in Timer
         /\ \/ lossAge' # Never
            \/ lastPwm' = cmd.pwm /\ (cmd.kick => kick' # Never)
         /\ UntouchedIsLost'
<1>1. KickFor \in Timer /\ KickFor # Never /\ Never \in Timer /\ 0 \in Timer
  BY TimingAssumption DEF Timer
<1>2. CASE Wrote(cmd.pwm) /\ kick' = IF cmd.kick THEN KickFor ELSE Never
  BY <1>1, <1>2 DEF Wrote, UntouchedIsLost, Pwm
<1>3. CASE WriteFailed /\ kick' = Never
  <2>1. hwmon' = FALSE /\ manual' \in BOOLEAN /\ pwm' \in Pwm
        /\ lastPwm' \in Pwm \cup {NoPwm} /\ kick' \in Timer
    BY <1>1, <1>3 DEF WriteFailed, NoteControlLost, TypeOK
  <2>2. lossAge' \in Timer /\ lossAge' # Never
    BY <1>1, <1>3 DEF WriteFailed, NoteControlLost, TypeOK, Timer
  <2>3. QED
    BY <2>1, <2>2 DEF UntouchedIsLost
<1>4. QED
  BY <1>2, <1>3 DEF Apply

-----------------------------------------------------------------------------
(* The steps. *)

LEMMA UpdateDueFact ==
  ASSUME TypeOK, UpdateDue
  PROVE  /\ nextUpdate' \in Nat /\ age' \in Nat
         /\ fixedPwm' \in Pwm \cup {NoPwm}
         /\ reading' \in [Sensors -> Temps \cup {NoReading}]
  BY TimingAssumption DEF TypeOK, UpdateDue

LEMMA WithoutChipStep ==
  ASSUME IInv, UpdateWithoutChip
  PROVE  IInv'
<1>1. lossAge' \in Timer /\ lossAge' # Never /\ hwmon' = FALSE
  BY DEF IInv, TypeOK, UpdateWithoutChip, NoteControlLost, Timer
<1>2. TypeOK'
  BY <1>1, UpdateDueFact
     DEF IInv, TypeOK, UpdateWithoutChip, NoteControlLost, health
<1>3. QED
  BY <1>1, <1>2 DEF IInv, UntouchedIsLost, FullSpeedInDoubt

LEMMA TooEarlyStep ==
  ASSUME IInv, UpdateTooEarly
  PROVE  IInv'
<1>1. TypeOK'
  BY UpdateDueFact, TrackSensorsFact
     DEF IInv, TypeOK, UpdateTooEarly, health
<1>2. lossAge' # Never
  BY DEF IInv, UntouchedIsLost, UpdateTooEarly
<1>3. QED
  BY <1>1, <1>2 DEF IInv, UntouchedIsLost, FullSpeedInDoubt

LEMMA HoldFullSpeedStep ==
  ASSUME IInv, HoldFullSpeedWithoutSensors
  PROVE  IInv'
<1> DEFINE cmd == [kick |-> FALSE, pwm |-> MaxPwm]
<1>1. cmd.pwm \in Pwm /\ cmd.pwm = MaxPwm /\ Apply(cmd)
  BY ProfileAssumption DEF HoldFullSpeedWithoutSensors
<1> HIDE DEF cmd
<1>2. /\ hwmon' \in BOOLEAN /\ manual' \in BOOLEAN /\ pwm' \in Pwm
      /\ lastPwm' \in Pwm \cup {NoPwm}
      /\ kick' \in Timer /\ lossAge' \in Timer
      /\ lossAge' # Never \/ lastPwm' = MaxPwm
      /\ UntouchedIsLost'
  BY <1>1, ApplyFact DEF IInv
<1>3. TypeOK'
  BY <1>2, UpdateDueFact, TrackSensorsFact
     DEF IInv, TypeOK, HoldFullSpeedWithoutSensors
<1>4. QED
  BY <1>2, <1>3 DEF IInv, FullSpeedInDoubt

LEMMA ReadsFact ==
  ASSUME TypeOK, UpdateReads
  PROVE  /\ critical' \in BOOLEAN /\ sensorsLost' = FALSE
         /\ feeds' \in [Sensors -> Feed]
         /\ InDoubt' => Targets = {MaxPwm}
<1>1. feeds' \in [Sensors -> Feed]
      /\ ((\E s \in Sensors : feeds'[s].held) => FloorActive)
  BY TrackSensorsFact DEF UpdateReads
<1>2. critical' = CriticalNow /\ sensorsLost' = FALSE
  BY DEF UpdateReads
<1>3. CriticalNow \in BOOLEAN
  BY DEF CriticalNow
<1>4. InDoubt' => CriticalNow \/ FloorActive
  BY <1>1, <1>2 DEF InDoubt
<1>5. QED
  BY <1>1, <1>2, <1>3, <1>4 DEF Targets

LEMMA MidKickStep ==
  ASSUME IInv, UpdateMidKick
  PROVE  IInv'
<1>1. TypeOK /\ UpdateReads /\ UpdateDue
  BY DEF IInv, UpdateMidKick, UpdateReads
<1>2. TypeOK'
  BY <1>1, ReadsFact, UpdateDueFact DEF TypeOK, UpdateMidKick
<1>3. kick' # Never
  BY DEF UpdateMidKick
<1>4. QED
  BY <1>2, <1>3 DEF IInv, UntouchedIsLost, FullSpeedInDoubt, UpdateMidKick

LEMMA DrivesStep ==
  ASSUME IInv, NEW t \in Targets, NEW rpm \in Tachs, UpdateDrives(t, rpm)
  PROVE  IInv'
<1> DEFINE cmd == Plan(t, rpm)
<1>1. TypeOK /\ UpdateReads /\ UpdateDue
  BY DEF IInv, UpdateDrives, UpdateReads
<1>2. t \in Pwm
  BY <1>1, TargetsFact
<1>3. /\ cmd.pwm \in Pwm
      /\ cmd.stalls \in 0 .. UnresponsiveAfterStalls
      /\ cmd.low \in BOOLEAN
      /\ cmd.kick \/ cmd.pwm = t
  BY <1>1, <1>2, PlanFact
<1>4. Apply(cmd) /\ stalls' = cmd.stalls /\ lowRpm' = cmd.low
  BY DEF UpdateDrives
<1> HIDE DEF cmd
<1>5. /\ hwmon' \in BOOLEAN /\ manual' \in BOOLEAN /\ pwm' \in Pwm
      /\ lastPwm' \in Pwm \cup {NoPwm}
      /\ kick' \in Timer /\ lossAge' \in Timer
      /\ \/ lossAge' # Never
         \/ lastPwm' = cmd.pwm /\ (cmd.kick => kick' # Never)
      /\ UntouchedIsLost'
  BY <1>3, <1>4, ApplyFact DEF IInv
<1>6. TypeOK'
  BY <1>1, <1>3, <1>4, <1>5, ReadsFact, UpdateDueFact DEF TypeOK
<1>7. FullSpeedInDoubt'
  <2>1. InDoubt' => t = MaxPwm
    BY <1>1, ReadsFact
  <2>2. QED
    BY <2>1, <1>3, <1>5 DEF FullSpeedInDoubt
<1>8. QED
  BY <1>5, <1>6, <1>7 DEF IInv

LEMMA UpdateStep ==
  ASSUME IInv, Update
  PROVE  IInv'
  BY WithoutChipStep, TooEarlyStep, HoldFullSpeedStep, MidKickStep, DrivesStep
     DEF Update, UpdateWithChip

\* A clock that is running goes on running.
LEMMA ClockFact ==
  ASSUME NEW t \in Timer
  PROVE  /\ Less(t) \in Timer /\ (Less(t) = Never => t = Never)
         /\ Older(t) \in Timer /\ (Older(t) = Never => t = Never)
         /\ t \in Nat => Older(t) \in Nat
<1>1. t \in Int /\ t >= -1
  BY DEF Timer
<1>2. Less(t) \in Timer /\ (Less(t) = Never => t = Never)
  BY <1>1 DEF Less, Timer
<1>3. Older(t) \in {t, t + 1} /\ (t = Never => Older(t) = t)
  BY DEF Older
<1>4. QED
  BY <1>1, <1>2, <1>3 DEF Timer

LEMMA ElapseStep ==
  ASSUME IInv, Elapse
  PROVE  IInv'
<1>1. /\ feeds \in [Sensors -> Feed]
      /\ kick \in Timer /\ lossAge \in Timer /\ age \in Nat /\ age \in Timer
      /\ nextUpdate \in Nat
  BY DEF IInv, TypeOK, Timer
<1>2. feeds' \in [Sensors -> Feed]
      /\ \A s \in Sensors : feeds'[s].held = feeds[s].held
  <2>1. feeds' = [s \in Sensors |->
          [feeds[s] EXCEPT !.lost = Less(@), !.back = Less(@)]]
    BY DEF Elapse
  <2>2. ASSUME NEW f \in Feed
        PROVE  /\ [f EXCEPT !.lost = Less(@), !.back = Less(@)] \in Feed
               /\ [f EXCEPT !.lost = Less(@), !.back = Less(@)].held = f.held
    <3>1. Less(f.lost) \in Timer /\ Less(f.back) \in Timer
      BY ClockFact DEF Feed
    <3>2. QED
      BY <3>1 DEF Feed
  <2>3. QED
    BY <1>1, <2>1, <2>2
<1>3. kick' \in Timer /\ (kick # Never => kick' # Never)
  BY <1>1, ClockFact DEF Elapse
<1>4. lossAge' \in Timer /\ (lossAge # Never => lossAge' # Never)
  BY <1>1, ClockFact DEF Elapse
<1>5. age' \in Nat /\ nextUpdate' \in Nat
  <2>1. age' = Older(age) /\ Older(age) \in Nat
    BY <1>1, ClockFact DEF Elapse
  <2>2. nextUpdate' = nextUpdate - 1 /\ nextUpdate > 0
    BY DEF Elapse
  <2>3. QED
    BY <1>1, <2>1, <2>2
<1>6. TypeOK'
  BY <1>2, <1>3, <1>4, <1>5 DEF IInv, TypeOK, Elapse, health
<1>7. UntouchedIsLost'
  BY <1>4 DEF IInv, UntouchedIsLost, Elapse
<1>8. InDoubt' = InDoubt
  BY <1>2 DEF InDoubt, Elapse, health
<1>9. FullSpeedInDoubt'
  BY <1>3, <1>4, <1>8 DEF IInv, FullSpeedInDoubt, Elapse, health
<1>10. QED
  BY <1>6, <1>7, <1>9 DEF IInv

LEMMA SurroundingsStep ==
  ASSUME IInv,
         \/ \E s \in Sensors, value \in Temps \cup {NoReading} :
              Sample(s, value)
         \/ GoAutomatic
         \/ UNCHANGED vars
  PROVE  IInv'
<1>1. /\ reading' \in [Sensors -> Temps \cup {NoReading}]
      /\ manual' \in BOOLEAN
      /\ UNCHANGED <<fixedPwm, feeds, critical, hwmon, lastPwm, kick, lossAge,
                     pwm, health, age, nextUpdate>>
  BY DEF IInv, TypeOK, Sample, GoAutomatic, vars, sensing, driving
<1>2. QED
  BY <1>1 DEF IInv, TypeOK, UntouchedIsLost, FullSpeedInDoubt, InDoubt, health

-----------------------------------------------------------------------------
(* The theorems. *)

LEMMA InitFact == Init => IInv
<1> SUFFICES ASSUME Init PROVE IInv
  OBVIOUS
<1>1. fixedPwm \in Pwm \cup {NoPwm}
  <2>1. MinPwm \in 0 .. 255 /\ MaxPwm \in 0 .. 255
    BY ProfileAssumption DEF Pwm
  <2>2. fixedPwm = NoPwm \/ fixedPwm \in MinPwm .. MaxPwm
    BY ProfileAssumption DEF Init
  <2>3. QED
    BY <2>1, <2>2 DEF Pwm
<1>2. feeds \in [Sensors -> Feed]
  BY DEF Init, Feed, Timer
<1>3. TypeOK
  <2>1. reading \in [Sensors -> Temps \cup {NoReading}]
    BY DEF Init
  <2>2. pwm \in Pwm /\ lossAge \in Timer /\ kick \in Timer
    BY DEF Init, Pwm, Timer
  <2>3. stalls \in 0 .. UnresponsiveAfterStalls
    BY DEF Init, UnresponsiveAfterStalls
  <2>4. QED
    BY <1>1, <1>2, <2>1, <2>2, <2>3 DEF Init, TypeOK
<1>4. QED
  BY <1>3 DEF Init, IInv, UntouchedIsLost, FullSpeedInDoubt

\* The inductive invariant holds in every state the control of a fan can
\* reach.
THEOREM InductiveInvariant == Spec => []IInv
<1>1. IInv /\ [Next]_vars => IInv'
  BY UpdateStep, ElapseStep, SurroundingsStep DEF Next
<1>2. QED
  BY InitFact, <1>1, PTL DEF Spec

\* Every variable keeps its type: in particular what is written to the chip
\* is always a byte, whatever the curve and the readings are.
THEOREM TypeCorrect == Spec => []TypeOK
  BY InductiveInvariant, PTL DEF IInv

\* A fan in doubt runs at max_pwm, or is being kicked, or is reported.
THEOREM InDoubtAtFullSpeed == Spec => []FullSpeedInDoubt
  BY InductiveInvariant, PTL DEF IInv

-----------------------------------------------------------------------------
(* How soon a fan answers: what FanTiming's clocks depend on. *)

\* No time left is longer than what it was set to, a hold is for a sensor
\* that has been read, a chip under control is a known one, and a kick is at
\* min_start_pwm.
FeedInRange(f) == f.lost <= LossGrace /\ (f.held => f.ever)

InRange ==
  /\ nextUpdate <= UpdateEvery /\ kick <= KickFor
  /\ \A s \in Sensors : FeedInRange(feeds[s])
  /\ lossAge = Never => hwmon
  /\ kick > 0 => lastPwm = MinStartPwm

LEMMA TimesFact ==
  /\ UpdateEvery \in Int /\ UpdateEvery >= 1 /\ KickFor \in Int /\ KickFor >= 1
  /\ LossGrace \in Int /\ LossGrace >= 0
  /\ RecoveryHold \in Int /\ RecoveryHold >= 0
  /\ CriticalAfter \in Int /\ CriticalAfter >= 0
  /\ WarnAfter \in Int /\ WarnAfter >= 0 /\ WarnAfter <= CriticalAfter
  BY TimingAssumption

LEMMA TrackedInRange ==
  ASSUME TypeOK, NEW s \in Sensors, FeedInRange(feeds[s])
  PROVE  FeedInRange(Tracked(s))
<1> DEFINE f == feeds[s]
           back == IF f.held /\ f.back = Never THEN RecoveryHold ELSE f.back
           lost == IF f.lost = Never THEN LossGrace ELSE f.lost
<1>1. f \in Feed /\ f.lost \in Int /\ f.ever \in BOOLEAN /\ FeedInRange(f)
  BY DEF TypeOK, Feed, Timer
<1>2. lost \in Int /\ lost <= LossGrace
  BY <1>1, TimesFact DEF FeedInRange
<1>3. Tracked(s) =
        IF s \in Readable
        THEN [ever |-> TRUE, lost |-> Never,
              held |-> f.held /\ back # 0,
              back |-> IF f.held /\ back = 0 THEN Never ELSE back]
        ELSE IF ~f.ever THEN f
        ELSE [ever |-> TRUE, lost |-> lost,
              held |-> f.held \/ lost = 0, back |-> Never]
  BY DEF Tracked
<1> HIDE DEF f, back, lost
<1>4. -1 <= LossGrace
  BY TimesFact
<1>5. QED
  BY <1>1, <1>2, <1>3, <1>4 DEF FeedInRange

LEMMA TrackSensorsInRange ==
  ASSUME TypeOK, InRange, TrackSensors
  PROVE  \A s \in Sensors : feeds'[s] = Tracked(s) /\ FeedInRange(feeds'[s])
<1>1. \A s \in Sensors : feeds'[s] = Tracked(s)
  BY DEF TrackSensors
<1>2. \A s \in Sensors : FeedInRange(Tracked(s))
  BY TrackedInRange DEF InRange
<1>3. QED
  BY <1>1, <1>2

\* A kick is at min_start_pwm; any other command is the target.
LEMMA PlanKick ==
  ASSUME NEW t, NEW rpm
  PROVE  /\ Plan(t, rpm).kick \in BOOLEAN
         /\ Plan(t, rpm).kick => Plan(t, rpm).pwm = MinStartPwm
         /\ ~Plan(t, rpm).kick => Plan(t, rpm).pwm = t
<1>1. CASE t = 0
  BY <1>1 DEF Plan
<1>2. CASE t # 0 /\ Stalled(rpm)
  BY <1>2 DEF Plan
<1>3. CASE t # 0 /\ ~Stalled(rpm) /\ lastPwm <= 0
  BY <1>3 DEF Plan
<1>4. CASE t # 0 /\ ~Stalled(rpm) /\ ~(lastPwm <= 0)
  BY <1>4 DEF Plan
<1>5. QED
  BY <1>1, <1>2, <1>3, <1>4

\* A write leaves the chip known or control lost.
LEMMA ApplyInRange ==
  ASSUME TypeOK, NEW cmd, Apply(cmd), cmd.kick \in BOOLEAN,
         cmd.kick => cmd.pwm = MinStartPwm
  PROVE  /\ kick' = Never \/ (kick' = KickFor /\ lastPwm' = MinStartPwm)
         /\ lossAge' = Never => hwmon'
<1>1. CASE Wrote(cmd.pwm) /\ kick' = IF cmd.kick THEN KickFor ELSE Never
  BY <1>1 DEF Wrote
<1>2. CASE WriteFailed /\ kick' = Never
  BY <1>2 DEF WriteFailed, NoteControlLost, TypeOK, Timer
<1>3. QED
  BY <1>1, <1>2 DEF Apply

LEMMA UpdateInRange ==
  ASSUME IInv, InRange, Update
  PROVE  InRange'
<1>1. TypeOK /\ UpdateEvery <= UpdateEvery /\ -1 <= KickFor /\ KickFor <= KickFor
  BY TimesFact DEF IInv
<1>2. nextUpdate' = UpdateEvery /\ (TrackSensors \/ feeds' = feeds)
  BY DEF Update, UpdateWithoutChip, UpdateWithChip, UpdateTooEarly,
         HoldFullSpeedWithoutSensors, UpdateMidKick, UpdateDrives, UpdateReads,
         UpdateDue
<1>3. nextUpdate' <= UpdateEvery /\ \A s \in Sensors : FeedInRange(feeds'[s])
  BY <1>1, <1>2, TrackSensorsInRange DEF InRange
<1>4. CASE UpdateWithoutChip
  <2>1. lossAge' # Never
    BY <1>1, <1>4 DEF UpdateWithoutChip, NoteControlLost, TypeOK, Timer
  <2>2. QED
    BY <1>3, <1>4, <2>1 DEF InRange, UpdateWithoutChip, NoteControlLost
<1>5. CASE UpdateTooEarly \/ UpdateMidKick
  BY <1>3, <1>5 DEF InRange, UpdateTooEarly, UpdateMidKick
<1>6. ASSUME NEW cmd, Apply(cmd), cmd.kick \in BOOLEAN,
             cmd.kick => cmd.pwm = MinStartPwm
      PROVE  InRange'
  <2>1. /\ kick' = Never \/ (kick' = KickFor /\ lastPwm' = MinStartPwm)
        /\ lossAge' = Never => hwmon'
    BY <1>1, <1>6, ApplyInRange
  <2>2. kick' <= KickFor /\ (kick' > 0 => lastPwm' = MinStartPwm)
    BY <1>1, <2>1
  <2>3. QED
    BY <1>3, <2>1, <2>2 DEF InRange
<1>7. CASE HoldFullSpeedWithoutSensors
  BY <1>6, <1>7 DEF HoldFullSpeedWithoutSensors
<1>8. CASE \E t \in Targets, rpm \in Tachs : UpdateDrives(t, rpm)
  BY <1>6, <1>8, PlanKick DEF UpdateDrives
<1>9. QED
  BY <1>4, <1>5, <1>7, <1>8 DEF Update, UpdateWithChip

LEMMA LessFact ==
  ASSUME NEW t \in Timer
  PROVE  /\ t \in Int /\ Less(t) \in Int /\ Less(t) <= t
         /\ Less(t) > 0 => t > 0
         /\ t > 0 => Less(t) = t - 1
         /\ ~(t > 0) => Less(t) = t
  BY DEF Timer, Less

LEMMA ElapseInRange ==
  ASSUME IInv, InRange, Elapse
  PROVE  InRange'
<1>1. /\ feeds \in [Sensors -> Feed] /\ kick \in Timer /\ lossAge \in Timer
      /\ nextUpdate \in Nat
  BY DEF IInv, TypeOK
<1>2. nextUpdate' <= UpdateEvery
  <2>1. nextUpdate' = nextUpdate - 1 /\ nextUpdate <= UpdateEvery
    BY DEF Elapse, InRange
  <2>2. QED
    BY <1>1, <2>1, TimesFact
<1>3. kick' <= KickFor /\ (kick' > 0 => lastPwm' = MinStartPwm)
  <2>1. kick' = Less(kick) /\ lastPwm' = lastPwm
    BY DEF Elapse
  <2>2. QED
    BY <1>1, <2>1, LessFact, TimesFact DEF InRange
<1>4. lossAge' = Never => hwmon'
  BY <1>1, ClockFact DEF Elapse, InRange
<1>5. ASSUME NEW s \in Sensors PROVE FeedInRange(feeds'[s])
  <2>1. feeds'[s] = [feeds[s] EXCEPT !.lost = Less(@), !.back = Less(@)]
    BY DEF Elapse
  <2>2. feeds[s] \in Feed /\ FeedInRange(feeds[s])
    BY <1>1 DEF InRange
  <2>3. /\ feeds'[s].lost = Less(feeds[s].lost)
        /\ feeds'[s].held = feeds[s].held /\ feeds'[s].ever = feeds[s].ever
    BY <2>1, <2>2 DEF Feed
  <2>4. feeds[s].lost \in Timer
    BY <2>2 DEF Feed
  <2>5. Less(feeds[s].lost) <= LossGrace
    BY <2>2, <2>4, LessFact, TimesFact DEF FeedInRange
  <2>6. QED
    BY <2>2, <2>3, <2>5 DEF FeedInRange
<1>6. QED
  BY <1>2, <1>3, <1>4, <1>5 DEF InRange

-----------------------------------------------------------------------------
(* How long a command to run at max_pwm may still take. *)

\* The fan runs at max_pwm, unless the firmware has it and the next update
\* takes it back.
AtFull ==
  /\ kick <= 0 /\ pwm = MaxPwm /\ lastPwm = MaxPwm
  /\ Astray => astrayFor + nextUpdate <= UpdateEvery

\* It will before the clock has passed a kick and first, by when an update
\* asks for it: the kick is over in time, and a kick that is still to come
\* begins in time.
Reach(clock, first) ==
  \/ AtFull
  \/ /\ kick > 0 => clock + Noticed(kick) <= first + Noticed(KickFor)
     /\ kick <= 0 /\ lastPwm > 0
          => clock + nextUpdate <= first + Noticed(KickFor)
     /\ kick <= 0 /\ lastPwm <= 0 => clock + nextUpdate <= first

\* A clock shows nothing unless what it watches holds.
Clocked ==
  /\ hotFor \in Nat /\ darkFor \in Nat /\ astrayFor \in Nat /\ steadyFor \in Nat
  /\ ~Hot => hotFor = 0
  /\ ~Dark => darkFor = 0
  /\ ~Astray => astrayFor = 0

\* A chip astray is taken back, or control of it is lost, by the next update
\* outside a kick; then the clock of control_loss runs beside the other.
AstrayInTime ==
  /\ lossAge = Never /\ Astray =>
       /\ kick <= 0 => astrayFor + nextUpdate <= UpdateEvery + KickFor
       /\ kick > 0 => astrayFor + kick <= KickFor
  /\ lossAge # Never /\ lossAge < CriticalAfter =>
       astrayFor <= lossAge + UpdateEvery + KickFor

HotInTime == Hot => Reach(hotFor, UpdateEvery)

\* A silent sensor is noticed by the next update, and by the one that finds
\* its grace over it is held.
DarkFirst == UpdateEvery + Noticed(LossGrace)

Unheld(f) ==
  /\ f.lost = Never => darkFor + nextUpdate <= UpdateEvery
  /\ f.lost > 0 => darkFor + f.lost <= UpdateEvery + LossGrace
  /\ f.lost = 0 => darkFor + nextUpdate <= DarkFirst

DarkInTime ==
  Dark => /\ feeds[Watched].held => Reach(darkFor, DarkFirst)
          /\ ~feeds[Watched].held => Unheld(feeds[Watched])

\* What is left of a recovery has not been seen yet.
SteadyFact(f, clock) == f.held /\ f.back # Never => clock + f.back >= RecoveryHold
SteadySoFar == SteadyFact(feeds[Watched], steadyFor)

\* What a clock shows after a step.
LEMMA CountFact ==
  ASSUME NEW c \in Nat, NEW p \in BOOLEAN, NEW d \in {0, 1}, NEW limit \in Int
  PROVE  /\ Count(c, p, d, limit) \in Nat /\ Count(c, p, d, limit) <= c + d
         /\ ~p => Count(c, p, d, limit) = 0
         /\ p => Count(c, p, d, limit) = c + d \/ Count(c, p, d, limit) > limit
  BY DEF Count

LEMMA WatchFact ==
  ASSUME Clocked, NEW d \in {0, 1}, NEW blind \in BOOLEAN, Watch(d, blind)
  PROVE  /\ Clocked'
         /\ \E h \in Nat : hotFor' = h /\ h <= hotFor + d
         /\ \E h \in Nat : darkFor' = h /\ h <= darkFor + d
         /\ \E h \in Nat : astrayFor' = h /\ h <= astrayFor + d
         /\ \E h \in Nat : /\ steadyFor' = h
                           /\ ~blind => h = steadyFor + d \/ h > RecoveryHold
<1>1. /\ Reaction \in Int /\ DarkReaction \in Int /\ AstrayReaction \in Int
      /\ RecoveryHold \in Int
  BY TimesFact DEF Reaction, DarkReaction, AstrayReaction, Noticed
<1>2. /\ hotFor \in Nat /\ darkFor \in Nat /\ astrayFor \in Nat /\ steadyFor \in Nat
  BY DEF Clocked
<1>3. Hot' \in BOOLEAN /\ Dark' \in BOOLEAN /\ Astray' \in BOOLEAN
      /\ (~blind) \in BOOLEAN
  BY DEF Hot, Dark, Astray, Drivable
<1>4. /\ hotFor' = Count(hotFor, Hot', d, Reaction)
      /\ darkFor' = Count(darkFor, Dark', d, DarkReaction)
      /\ astrayFor' = Count(astrayFor, Astray', d, AstrayReaction)
      /\ steadyFor' = Count(steadyFor, ~blind, d, RecoveryHold)
  BY DEF Watch
<1>5. \E h \in Nat : hotFor' = h /\ h <= hotFor + d /\ (~Hot' => h = 0)
  <2>1. hotFor' = IF ~Hot' THEN 0 ELSE IF hotFor > Reaction THEN hotFor ELSE hotFor + d
    BY <1>4 DEF Count
  <2>2. hotFor + d \in Nat
    BY <1>2
  <2>3. QED
    BY <1>1, <1>2, <2>1, <2>2
<1>6. \E h \in Nat : darkFor' = h /\ h <= darkFor + d /\ (~Dark' => h = 0)
  <2>1. darkFor' = IF ~Dark' THEN 0 ELSE IF darkFor > DarkReaction THEN darkFor ELSE darkFor + d
    BY <1>4 DEF Count
  <2>2. darkFor + d \in Nat
    BY <1>2
  <2>3. QED
    BY <1>1, <1>2, <2>1, <2>2
<1>7. \E h \in Nat : astrayFor' = h /\ h <= astrayFor + d /\ (~Astray' => h = 0)
  <2>1. astrayFor' = IF ~Astray' THEN 0 ELSE IF astrayFor > AstrayReaction THEN astrayFor ELSE astrayFor + d
    BY <1>4 DEF Count
  <2>2. astrayFor + d \in Nat
    BY <1>2
  <2>3. QED
    BY <1>1, <1>2, <2>1, <2>2
<1>8. /\ steadyFor' \in Nat
      /\ ~blind => steadyFor' = steadyFor + d \/ steadyFor' > RecoveryHold
  BY <1>1, <1>2, <1>3, <1>4, CountFact
<1>9. Clocked'
  BY <1>5, <1>6, <1>7, <1>8 DEF Clocked
<1>10. QED
  BY <1>5, <1>6, <1>7, <1>8, <1>9

\* An update whose command is max_pwm, and which comes no later than first.
LEMMA ReachDrive ==
  ASSUME TypeOK, InRange, MinStartPwm > 0,
         NEW c \in Nat, NEW c2 \in Nat, c2 <= c,
         NEW first \in Int, first >= UpdateEvery,
         Reach(c, first) \/ c <= first,
         nextUpdate = 0, nextUpdate' = UpdateEvery, kick <= 0,
         NEW rpm \in Tachs, Apply(Plan(MaxPwm, rpm)),
         stalls' = Plan(MaxPwm, rpm).stalls, lossAge' = Never, stalls' = 0
  PROVE  Reach(c2, first)'
<1>1. /\ MaxPwm \in Int /\ MaxPwm >= 0 /\ MinStartPwm \in Int
      /\ lastPwm \in Int /\ kick \in Int /\ stalls \in Int /\ stalls >= 0
  BY ProfileAssumption DEF TypeOK, Timer, Pwm
<1> DEFINE cmd == Plan(MaxPwm, rpm)
<1>2. /\ Wrote(cmd.pwm) /\ kick' = IF cmd.kick THEN KickFor ELSE Never
      /\ manual' = TRUE /\ pwm' = cmd.pwm /\ lastPwm' = cmd.pwm
  <2>1. ~WriteFailed
    <3>1. (IF lossAge = -1 THEN 0 ELSE lossAge) # -1
      OBVIOUS
    <3>2. QED
      BY <3>1 DEF WriteFailed, NoteControlLost
  <2>2. QED
    BY <2>1 DEF Apply, Wrote
<1>3. ~Astray'
  BY <1>2 DEF Astray
<1>4. CASE MaxPwm = 0 \/ (~Stalled(rpm) /\ ~(lastPwm <= 0))
  <2>1. cmd.pwm = MaxPwm /\ ~cmd.kick
    BY <1>4 DEF Plan
  <2>2. kick' = Never /\ kick' <= 0
    BY <1>2, <2>1
  <2>3. QED
    BY <1>2, <1>3, <2>1, <2>2 DEF Reach, AtFull
<1>5. CASE MaxPwm # 0 /\ Stalled(rpm)
  <2>1. cmd.stalls = IF stalls < UnresponsiveAfterStalls THEN stalls + 1 ELSE stalls
    BY <1>5 DEF Plan
  <2>2. (IF stalls < UnresponsiveAfterStalls THEN stalls + 1 ELSE stalls) # 0
    BY <1>1 DEF UnresponsiveAfterStalls
  <2>3. QED
    BY <2>1, <2>2
<1>6. CASE MaxPwm # 0 /\ ~Stalled(rpm) /\ lastPwm <= 0
  <2>1. cmd.kick /\ cmd.pwm = MinStartPwm
    BY <1>6 DEF Plan
  <2>2. kick' = KickFor /\ lastPwm' = MinStartPwm
    BY <1>2, <2>1
  <2>3. c <= first
    <3>1. ~AtFull
      BY <1>1, <1>6 DEF AtFull
    <3>2. c + 0 = c
      OBVIOUS
    <3>3. QED
      BY <1>6, <3>1, <3>2 DEF Reach
  <2>4. c2 + Noticed(KickFor) <= first + Noticed(KickFor)
    BY <2>3, TimesFact DEF Noticed
  <2>5. KickFor > 0 /\ ~(KickFor <= 0)
    BY TimesFact
  <2>6. QED
    BY <2>2, <2>4, <2>5 DEF Reach
<1>7. QED
  BY <1>4, <1>5, <1>6

\* An update during a kick leaves it alone.
LEMMA ReachMidKick ==
  ASSUME TypeOK, InRange, NEW c \in Nat, NEW c2 \in Nat, c2 <= c,
         NEW first \in Int, Reach(c, first) \/ c <= first,
         kick > 0, UNCHANGED <<kick, lastPwm, pwm>>
  PROVE  Reach(c2, first)'
<1>1. kick \in Int /\ kick <= KickFor
  BY DEF TypeOK, Timer, InRange
<1>2. kick' = kick /\ ~(kick <= 0)
  BY <1>1
<1>3. c + Noticed(kick) <= first + Noticed(KickFor)
  <2>1. CASE Reach(c, first)
    BY <1>2, <2>1 DEF Reach, AtFull
  <2>2. CASE c <= first
    BY <1>1, <2>2, TimesFact DEF Noticed
  <2>3. QED
    BY <2>1, <2>2
<1>4. c2 + Noticed(kick) <= first + Noticed(KickFor)
  BY <1>1, <1>3, TimesFact DEF Noticed
<1>5. QED
  BY <1>2, <1>4 DEF Reach

\* Time goes by.
LEMMA ReachElapse ==
  ASSUME TypeOK, InRange, Clocked, MinStartPwm > 0,
         Elapse, Astray' = Astray,
         NEW c \in Nat, NEW c2 \in Nat, c2 <= c + 1,
         NEW first \in Int, Reach(c, first),
         NEW a \in Nat, astrayFor' = a, a <= astrayFor + 1
  PROVE  Reach(c2, first)'
<1>1. /\ kick \in Timer /\ kick \in Int /\ nextUpdate \in Int /\ nextUpdate > 0
      /\ nextUpdate <= UpdateEvery /\ astrayFor \in Int /\ lastPwm \in Int
  <2>1. nextUpdate > 0 /\ nextUpdate <= UpdateEvery
    BY DEF Elapse, InRange
  <2>2. kick \in Timer /\ kick \in Int /\ lastPwm \in Int
    BY DEF TypeOK, Timer, Pwm
  <2>3. nextUpdate \in Int /\ astrayFor \in Int
    BY DEF TypeOK, Clocked
  <2>4. QED
    BY <2>1, <2>2, <2>3
<1>2. /\ kick' = Less(kick) /\ nextUpdate' = nextUpdate - 1
      /\ lastPwm' = lastPwm /\ pwm' = pwm
  BY DEF Elapse
<1> DEFINE k == Less(kick)
<1>3. /\ k \in Int /\ k <= kick /\ (k > 0 => kick > 0)
      /\ kick > 0 => k = kick - 1
      /\ ~(kick > 0) => k = kick
  BY <1>1, LessFact
<1> HIDE DEF k
<1>4. kick' = k
  BY <1>2 DEF k
<1>5. CASE AtFull
  <2>1. k <= 0
    BY <1>1, <1>3, <1>5 DEF AtFull
  <2>2. Astray => a + (nextUpdate - 1) <= UpdateEvery
    BY <1>1, <1>5, TimesFact DEF AtFull
  <2>3. AtFull'
    BY <1>2, <1>4, <1>5, <2>1, <2>2 DEF AtFull
  <2>4. QED
    BY <2>3 DEF Reach
<1>6. CASE ~AtFull /\ kick > 0
  <2>1. c + Noticed(kick) <= first + Noticed(KickFor)
    BY <1>6 DEF Reach
  <2>2. k > 0 => c2 + Noticed(k) <= first + Noticed(KickFor)
    BY <1>1, <1>3, <1>6, <2>1, TimesFact DEF Noticed
  <2>3. c2 + (nextUpdate - 1) <= first + Noticed(KickFor)
    BY <1>1, <1>6, <2>1, TimesFact DEF Noticed
  <2>4. ~(lastPwm <= 0)
    BY <1>1, <1>6 DEF InRange
  <2>5. QED
    BY <1>2, <1>4, <2>2, <2>3, <2>4 DEF Reach
<1>7. CASE ~AtFull /\ ~(kick > 0)
  <2>1. kick <= 0 /\ k <= 0 /\ ~(k > 0)
    BY <1>1, <1>3, <1>7
  <2>2. lastPwm > 0 => c2 + (nextUpdate - 1) <= first + Noticed(KickFor)
    BY <1>1, <1>7, <2>1, TimesFact DEF Reach, Noticed
  <2>3. lastPwm <= 0 => c2 + (nextUpdate - 1) <= first
    BY <1>1, <1>7, <2>1 DEF Reach
  <2>4. QED
    BY <1>2, <1>4, <2>1, <2>2, <2>3 DEF Reach
<1>8. QED
  BY <1>5, <1>6, <1>7

\* The firmware takes the fan back, or another sensor is sampled.
LEMMA ReachStays ==
  ASSUME TypeOK, InRange, Clocked, NEW c \in Nat, NEW c2 \in Nat, c2 <= c,
         NEW first \in Int, Reach(c, first),
         NEW a \in Nat, astrayFor' = a, a <= astrayFor,
         UNCHANGED <<kick, lastPwm, pwm, nextUpdate>>
  PROVE  Reach(c2, first)'
<1>1. /\ kick \in Int /\ nextUpdate \in Int /\ nextUpdate <= UpdateEvery
      /\ astrayFor \in Int /\ lastPwm \in Int
  BY DEF TypeOK, Timer, InRange, Clocked, Pwm
<1>2. /\ kick' = kick /\ nextUpdate' = nextUpdate /\ lastPwm' = lastPwm
      /\ pwm' = pwm
  OBVIOUS
<1>3. CASE AtFull
  <2>1. a + nextUpdate <= UpdateEvery
    <3>1. CASE Astray
      BY <1>1, <1>3, <3>1, TimesFact DEF AtFull
    <3>2. CASE ~Astray
      <4>1. astrayFor = 0
        BY <3>2 DEF Clocked
      <4>2. QED
        BY <1>1, <4>1, TimesFact
    <3>3. QED
      BY <3>1, <3>2
  <2>2. AtFull'
    BY <1>2, <1>3, <2>1 DEF AtFull
  <2>3. QED
    BY <2>2 DEF Reach
<1>4. CASE ~AtFull
  <2>1. /\ kick > 0 => c2 + Noticed(kick) <= first + Noticed(KickFor)
        /\ kick <= 0 /\ lastPwm > 0
             => c2 + nextUpdate <= first + Noticed(KickFor)
        /\ kick <= 0 /\ lastPwm <= 0 => c2 + nextUpdate <= first
    BY <1>1, <1>4, TimesFact DEF Reach, Noticed
  <2>2. QED
    BY <1>2, <2>1 DEF Reach
<1>5. QED
  BY <1>3, <1>4

-----------------------------------------------------------------------------
(* A chip astray. *)

LEMMA AstrayLost ==
  ASSUME TypeOK, Clocked, AstrayInTime, nextUpdate = 0, NoteControlLost,
         NEW a \in Nat, astrayFor' = a, a <= astrayFor
  PROVE  AstrayInTime'
<1>1. /\ lossAge \in Int /\ lossAge >= -1 /\ kick \in Int /\ astrayFor \in Int
  BY DEF TypeOK, Clocked, Timer
<1> DEFINE lost == IF lossAge = Never THEN 0 ELSE lossAge
<1>2. lost < CriticalAfter => a <= lost + UpdateEvery + KickFor
  <2>1. CASE lossAge = Never
    <3>1. astrayFor <= UpdateEvery + KickFor
      <4>1. CASE ~Astray
        <5>1. astrayFor = 0
          BY <4>1 DEF Clocked
        <5>2. QED
          BY <5>1, TimesFact
      <4>2. CASE Astray /\ kick <= 0
        BY <1>1, <2>1, <4>2, TimesFact DEF AstrayInTime
      <4>3. CASE Astray /\ kick > 0
        BY <1>1, <2>1, <4>3, TimesFact DEF AstrayInTime
      <4>4. QED
        BY <1>1, <4>1, <4>2, <4>3
    <3>2. QED
      BY <1>1, <2>1, <3>1, TimesFact
  <2>2. CASE lossAge # Never
    BY <1>1, <2>2, TimesFact DEF AstrayInTime
  <2>3. QED
    BY <2>1, <2>2
<1>3. lossAge' = lost /\ lost # Never
  BY <1>1 DEF NoteControlLost
<1> HIDE DEF lost
<1>4. QED
  BY <1>2, <1>3 DEF AstrayInTime

LEMMA AstrayApply ==
  ASSUME TypeOK, Clocked, AstrayInTime, nextUpdate = 0, NEW cmd, Apply(cmd),
         NEW a \in Nat, astrayFor' = a, a <= astrayFor
  PROVE  AstrayInTime'
<1>1. CASE Wrote(cmd.pwm)
  BY <1>1 DEF AstrayInTime, Astray, Wrote
<1>2. CASE WriteFailed
  BY <1>2, AstrayLost DEF WriteFailed
<1>3. QED
  BY <1>1, <1>2 DEF Apply

LEMMA AstrayStays ==
  ASSUME TypeOK, InRange, Clocked, AstrayInTime, UNCHANGED <<lossAge, kick>>,
         nextUpdate' = nextUpdate \/ kick > 0 \/ lossAge # Never,
         NEW a \in Nat, astrayFor' = a, a <= astrayFor
  PROVE  AstrayInTime'
<1>1. /\ lossAge \in Int /\ kick \in Int /\ kick <= KickFor
      /\ astrayFor \in Int /\ nextUpdate \in Int /\ nextUpdate <= UpdateEvery
  BY DEF TypeOK, Clocked, Timer, InRange
<1>2. lossAge' = lossAge /\ kick' = kick
  OBVIOUS
<1>3. CASE lossAge # Never
  <2>1. lossAge < CriticalAfter => a <= lossAge + UpdateEvery + KickFor
    BY <1>1, <1>3, TimesFact DEF AstrayInTime
  <2>2. QED
    BY <1>2, <1>3, <2>1 DEF AstrayInTime
<1>4. CASE lossAge = Never
  <2>1. /\ kick <= 0 => a + nextUpdate <= UpdateEvery + KickFor
        /\ kick > 0 => a + kick <= KickFor
    <3>1. CASE Astray
      BY <1>1, <1>4, <3>1, TimesFact DEF AstrayInTime
    <3>2. CASE ~Astray
      <4>1. a = 0
        BY <1>1, <3>2 DEF Clocked
      <4>2. QED
        BY <1>1, <4>1, TimesFact
    <3>3. QED
      BY <3>1, <3>2
  <2>2. nextUpdate' = nextUpdate \/ ~(kick <= 0)
    BY <1>1, <1>4
  <2>3. QED
    BY <1>2, <1>4, <2>1, <2>2 DEF AstrayInTime
<1>5. QED
  BY <1>3, <1>4

LEMMA AstrayElapse ==
  ASSUME TypeOK, InRange, Clocked, AstrayInTime, Elapse,
         NEW a \in Nat, astrayFor' = a, a <= astrayFor + 1
  PROVE  AstrayInTime'
<1>1. /\ lossAge \in Int /\ lossAge >= -1 /\ kick \in Timer /\ kick \in Int
      /\ kick <= KickFor /\ astrayFor \in Int
      /\ nextUpdate \in Int /\ nextUpdate <= UpdateEvery
  BY DEF TypeOK, Clocked, Timer, InRange
<1> DEFINE k == Less(kick)
           old == Older(lossAge)
<1>2. /\ kick' = k /\ lossAge' = old /\ nextUpdate' = nextUpdate - 1
      /\ nextUpdate > 0 /\ lastPwm' = lastPwm /\ manual' = manual /\ pwm' = pwm
  BY DEF Elapse
<1>3. /\ k \in Int /\ (k > 0 => kick > 0)
      /\ kick > 0 => k = kick - 1
      /\ ~(kick > 0) => k = kick
  BY <1>1, LessFact
<1>4. Astray' = Astray
  BY <1>2 DEF Astray
<1>5. /\ lossAge = Never => old = Never
      /\ lossAge # Never => /\ old # Never
                            /\ old < CriticalAfter => /\ lossAge < CriticalAfter
                                                      /\ old = lossAge + 1
  BY <1>1, TimesFact DEF Older
<1>6. old \in Int
  BY <1>1 DEF Older
<1> HIDE DEF k, old
<1>7. CASE lossAge # Never
  <2>1. old < CriticalAfter => a <= old + UpdateEvery + KickFor
    BY <1>1, <1>5, <1>7, TimesFact DEF AstrayInTime
  <2>2. QED
    BY <1>2, <1>5, <1>7, <2>1 DEF AstrayInTime
<1>8. CASE lossAge = Never
  <2>1. ASSUME Astray
        PROVE  /\ k <= 0 => a + (nextUpdate - 1) <= UpdateEvery + KickFor
               /\ k > 0 => a + k <= KickFor
    <3>1. /\ kick <= 0 => astrayFor + nextUpdate <= UpdateEvery + KickFor
          /\ kick > 0 => astrayFor + kick <= KickFor
      BY <1>8, <2>1 DEF AstrayInTime
    <3>2. QED
      BY <1>1, <1>2, <1>3, <3>1, TimesFact
  <2>2. QED
    BY <1>2, <1>4, <1>5, <1>8, <2>1 DEF AstrayInTime
<1>9. QED
  BY <1>7, <1>8

-----------------------------------------------------------------------------
(* A recovery. *)

LEMMA SteadyTracked ==
  ASSUME TypeOK, InRange, SteadySoFar, Clocked, TrackSensors,
         NEW y \in Nat, steadyFor' = y,
         Watched \in Readable => y = steadyFor + 0 \/ y > RecoveryHold
  PROVE  /\ SteadySoFar'
         /\ feeds[Watched].held /\ ~feeds'[Watched].held
              => steadyFor >= RecoveryHold
<1> DEFINE f == feeds[Watched]
           back == IF f.held /\ f.back = Never THEN RecoveryHold ELSE f.back
<1>1. /\ f \in Feed /\ f.back \in Int /\ f.back >= -1
      /\ f.held \in BOOLEAN /\ f.ever \in BOOLEAN
      /\ Watched \in Sensors /\ (f.held => f.ever)
  BY WatchedAssumption DEF TypeOK, Feed, Timer, InRange, FeedInRange
<1>2. steadyFor \in Nat
  BY DEF Clocked
<1>3. f.held /\ f.back # Never => steadyFor + f.back >= RecoveryHold
  BY DEF SteadySoFar, SteadyFact
<1>4. feeds'[Watched] = Tracked(Watched)
  BY <1>1 DEF TrackSensors
<1>5. CASE Watched \notin Readable
  <2>1. CASE ~f.ever
    <3>1. Tracked(Watched) = f /\ ~f.held
      BY <1>1, <1>5, <2>1 DEF Tracked
    <3>2. QED
      BY <1>4, <3>1 DEF SteadySoFar, SteadyFact
  <2>2. CASE f.ever
    <3>1. Tracked(Watched).back = Never /\ (f.held => Tracked(Watched).held)
      BY <1>5, <2>2 DEF Tracked
    <3>2. QED
      BY <1>4, <3>1 DEF SteadySoFar, SteadyFact
  <2>3. QED
    BY <2>1, <2>2
<1>6. CASE Watched \in Readable
  <2>1. /\ Tracked(Watched).held = (f.held /\ back # 0)
        /\ f.held /\ back # 0 => Tracked(Watched).back = back
    BY <1>6 DEF Tracked
  <2>2. back \in Int /\ (f.held => steadyFor + back >= RecoveryHold /\ back >= 0)
    BY <1>1, <1>2, <1>3, TimesFact
  <2> HIDE DEF f, back
  <2>3. f.held /\ back = 0 => steadyFor >= RecoveryHold
    BY <1>2, <2>2, TimesFact
  <2>4. f.held => y + back >= RecoveryHold
    BY <1>2, <1>6, <2>2, TimesFact
  <2>5. SteadySoFar'
    BY <1>4, <2>1, <2>4 DEF SteadySoFar, SteadyFact
  <2>6. QED
    BY <1>4, <2>1, <2>3, <2>5 DEF f
<1>7. QED
  BY <1>5, <1>6

LEMMA SteadyStays ==
  ASSUME TypeOK, SteadySoFar, Clocked, feeds' = feeds,
         NEW y \in Nat, steadyFor' = y, y = steadyFor + 0 \/ y > RecoveryHold
  PROVE  SteadySoFar'
<1> DEFINE f == feeds[Watched]
<1>1. f.back \in Int /\ f.back >= -1 /\ steadyFor \in Nat
  BY WatchedAssumption DEF TypeOK, Feed, Timer, Clocked
<1>2. SteadyFact(f, steadyFor) /\ feeds'[Watched] = f
  BY DEF SteadySoFar
<1> HIDE DEF f
<1>3. SteadyFact(f, y)
  BY <1>1, <1>2, TimesFact DEF SteadyFact
<1>4. QED
  BY <1>2, <1>3 DEF SteadySoFar

LEMMA SteadyElapse ==
  ASSUME TypeOK, SteadySoFar, Clocked, Elapse,
         NEW y \in Nat, steadyFor' = y, y = steadyFor + 1 \/ y > RecoveryHold
  PROVE  SteadySoFar' /\ feeds'[Watched].held = feeds[Watched].held
<1> DEFINE f == feeds[Watched]
           g == [f EXCEPT !.lost = Less(@), !.back = Less(@)]
<1>1. f \in Feed /\ f.back \in Timer /\ f.back \in Int /\ f.back >= -1
      /\ steadyFor \in Nat
  BY WatchedAssumption DEF TypeOK, Feed, Timer, Clocked
<1>2. SteadyFact(f, steadyFor) /\ feeds'[Watched] = g
  BY WatchedAssumption DEF SteadySoFar, Elapse
<1>3. g.held = f.held /\ g.back = Less(f.back)
  BY <1>1 DEF Feed
<1> HIDE DEF f, g
<1>4. SteadyFact(g, y)
  <2>1. /\ f.back = Never => Less(f.back) = Never
        /\ Less(f.back) \in Int /\ Less(f.back) >= -1
        /\ Less(f.back) + 1 >= f.back
    BY <1>1 DEF Less
  <2> DEFINE b == Less(f.back)
  <2> HIDE DEF b
  <2>2. b \in Int /\ b >= -1 /\ b + 1 >= f.back /\ (f.back = Never => b = Never)
    BY <2>1 DEF b
  <2>3. b # Never => b >= 0
    BY <2>2
  <2>4. f.held /\ b # Never => y + b >= RecoveryHold
    <3>1. SUFFICES ASSUME f.held, b # Never PROVE y + b >= RecoveryHold
      OBVIOUS
    <3>2. steadyFor + f.back >= RecoveryHold
      BY <1>2, <2>2, <3>1 DEF SteadyFact
    <3>3. PICK i \in Int : i = f.back
      BY <1>1
    <3>4. steadyFor + i >= RecoveryHold /\ b + 1 >= i /\ b >= 0
      BY <2>2, <2>3, <3>1, <3>2, <3>3
    <3>5. QED
      BY <1>1, <2>2, <3>3, <3>4, TimesFact
  <2>5. QED
    BY <1>3, <2>4 DEF SteadyFact, b
<1>5. QED
  BY <1>2, <1>3, <1>4 DEF SteadySoFar, f

-----------------------------------------------------------------------------
(* Every step keeps them. *)

KeptTimes == InRange /\ Clocked /\ AstrayInTime /\ SteadySoFar

LEMMA WithChipFact ==
  ASSUME UpdateWithChip
  PROVE  nextUpdate = 0 /\ nextUpdate' = UpdateEvery /\ TrackSensors
         /\ reading' = reading
  BY DEF UpdateWithChip, UpdateTooEarly, HoldFullSpeedWithoutSensors,
         UpdateMidKick, UpdateDrives, UpdateReads, UpdateDue

LEMMA AstrayUpdated ==
  ASSUME IInv, InRange, Clocked, AstrayInTime, UpdateWithChip,
         NEW a \in Nat, astrayFor' = a, a <= astrayFor
  PROVE  AstrayInTime'
<1>1. TypeOK /\ UntouchedIsLost /\ nextUpdate = 0
  BY WithChipFact DEF IInv
<1>2. CASE UpdateTooEarly
  <2>1. lossAge # Never /\ UNCHANGED <<lossAge, kick>>
    BY <1>1, <1>2 DEF UntouchedIsLost, UpdateTooEarly
  <2>2. QED
    BY <1>1, <2>1, AstrayStays
<1>3. CASE UpdateMidKick
  <2>1. kick > 0 /\ UNCHANGED <<lossAge, kick>>
    BY <1>3 DEF UpdateMidKick
  <2>2. QED
    BY <1>1, <2>1, AstrayStays
<1>4. CASE HoldFullSpeedWithoutSensors
  <2>1. PICK cmd : Apply(cmd)
    BY <1>4 DEF HoldFullSpeedWithoutSensors
  <2>2. QED
    BY <1>1, <2>1, AstrayApply
<1>5. CASE \E t \in Targets, rpm \in Tachs : UpdateDrives(t, rpm)
  <2>1. PICK cmd : Apply(cmd)
    BY <1>5 DEF UpdateDrives
  <2>2. QED
    BY <1>1, <2>1, AstrayApply
<1>6. QED
  BY <1>2, <1>3, <1>4, <1>5 DEF UpdateWithChip

\* A hold that ends shows what HoldOutlastsFlapping asks for.
HoldEnds == feeds[Watched].held /\ ~feeds'[Watched].held

LEMMA KeptStep ==
  ASSUME IInv, KeptTimes, WatchedNext
  PROVE  KeptTimes' /\ (HoldEnds => steadyFor >= RecoveryHold)
<1>1. TypeOK /\ InRange /\ Clocked /\ AstrayInTime /\ SteadySoFar
  BY DEF IInv, KeptTimes
<1>2. Clocked'
  <2>1. \E d \in {0, 1}, blind \in BOOLEAN : Watch(d, blind)
    BY DEF WatchedNext
  <2>2. QED
    BY <1>1, <2>1, WatchFact
<1>3. CASE UpdateWithoutChip /\ Watch(0, FALSE)
  <2>1. PICK a \in Nat : astrayFor' = a /\ a <= astrayFor + 0
    BY <1>1, <1>3, WatchFact
  <2>2. PICK y \in Nat : steadyFor' = y /\ (y = steadyFor + 0 \/ y > RecoveryHold)
    BY <1>1, <1>3, WatchFact
  <2>3. a <= astrayFor
    BY <1>1, <2>1 DEF Clocked
  <2>4. nextUpdate = 0 /\ NoteControlLost /\ feeds' = feeds
    BY <1>3 DEF UpdateWithoutChip, UpdateDue
  <2>5. AstrayInTime'
    BY <1>1, <2>1, <2>3, <2>4, AstrayLost
  <2>6. SteadySoFar' /\ ~HoldEnds
    BY <1>1, <2>2, <2>4, SteadyStays DEF HoldEnds
  <2>7. InRange'
    BY <1>1, <1>3, UpdateInRange DEF Update
  <2>8. QED
    BY <1>2, <2>5, <2>6, <2>7 DEF KeptTimes
<1>4. CASE UpdateWithChip /\ Watch(0, Watched \notin Readable)
  <2>1. PICK a \in Nat : astrayFor' = a /\ a <= astrayFor + 0
    BY <1>1, <1>4, WatchFact
  <2>2. PICK y \in Nat :
          /\ steadyFor' = y
          /\ Watched \in Readable => y = steadyFor + 0 \/ y > RecoveryHold
    BY <1>1, <1>4, WatchFact
  <2>3. a <= astrayFor
    BY <1>1, <2>1 DEF Clocked
  <2>4. TrackSensors
    BY <1>4, WithChipFact
  <2>5. AstrayInTime'
    BY <1>1, <1>4, <2>1, <2>3, AstrayUpdated
  <2>6. SteadySoFar' /\ (HoldEnds => steadyFor >= RecoveryHold)
    BY <1>1, <2>2, <2>4, SteadyTracked DEF HoldEnds
  <2>7. InRange'
    BY <1>1, <1>4, UpdateInRange DEF Update
  <2>8. QED
    BY <1>2, <2>5, <2>6, <2>7 DEF KeptTimes
<1>5. CASE /\ \/ \E s \in Sensors, value \in Temps \cup {NoReading} :
                   Sample(s, value)
              \/ GoAutomatic
           /\ Watch(0, FALSE)
  <2>1. PICK a \in Nat : astrayFor' = a /\ a <= astrayFor + 0
    BY <1>1, <1>5, WatchFact
  <2>2. PICK y \in Nat : steadyFor' = y /\ (y = steadyFor + 0 \/ y > RecoveryHold)
    BY <1>1, <1>5, WatchFact
  <2>3. a <= astrayFor
    BY <1>1, <2>1 DEF Clocked
  <2>4. UNCHANGED <<feeds, hwmon, lastPwm, kick, lossAge, nextUpdate>>
    BY <1>5 DEF Sample, GoAutomatic, driving, sensing
  <2>5. AstrayInTime'
    BY <1>1, <2>1, <2>3, <2>4, AstrayStays
  <2>6. SteadySoFar' /\ ~HoldEnds
    BY <1>1, <2>2, <2>4, SteadyStays DEF HoldEnds
  <2>7. InRange'
    BY <1>1, <2>4 DEF InRange
  <2>8. QED
    BY <1>2, <2>5, <2>6, <2>7 DEF KeptTimes
<1>6. CASE Elapse /\ Watch(1, FALSE)
  <2>1. PICK a \in Nat : astrayFor' = a /\ a <= astrayFor + 1
    BY <1>1, <1>6, WatchFact
  <2>2. PICK y \in Nat : steadyFor' = y /\ (y = steadyFor + 1 \/ y > RecoveryHold)
    BY <1>1, <1>6, WatchFact
  <2>3. AstrayInTime'
    BY <1>1, <1>6, <2>1, AstrayElapse
  <2>4. SteadySoFar' /\ ~HoldEnds
    BY <1>1, <1>6, <2>2, SteadyElapse DEF HoldEnds
  <2>5. InRange'
    BY <1>1, <1>6, ElapseInRange
  <2>6. QED
    BY <1>2, <2>3, <2>4, <2>5 DEF KeptTimes
<1>7. QED
  BY <1>3, <1>4, <1>5, <1>6 DEF WatchedNext

LEMMA KeptStutters ==
  ASSUME KeptTimes, UNCHANGED <<vars, watch>>
  PROVE  KeptTimes' /\ ~HoldEnds
<1>1. /\ UNCHANGED <<fixedPwm, reading, feeds, critical, hwmon, lastPwm, kick,
                     lossAge, manual, pwm, stalls, lowRpm, sensorsLost, age,
                     nextUpdate, hotFor, darkFor, astrayFor, steadyFor>>
  BY DEF vars, watch, sensing, driving, health
<1>2. Hot' = Hot /\ Dark' = Dark /\ Astray' = Astray
  BY <1>1 DEF Hot, Dark, Astray, Drivable, Readable
<1>3. InRange' /\ Clocked' /\ AstrayInTime' /\ SteadySoFar'
  <2>1. InRange /\ Clocked /\ AstrayInTime /\ SteadySoFar
    BY DEF KeptTimes
  <2>2. InRange'
    BY <1>1, <2>1 DEF InRange
  <2>3. Clocked'
    BY <1>1, <1>2, <2>1 DEF Clocked
  <2>4. AstrayInTime'
    BY <1>1, <1>2, <2>1 DEF AstrayInTime
  <2>5. SteadySoFar'
    BY <1>1, <2>1 DEF SteadySoFar
  <2>6. QED
    BY <2>2, <2>3, <2>4, <2>5
<1>4. QED
  BY <1>1, <1>3 DEF KeptTimes, HoldEnds

LEMMA KeptInit == WatchedInit => IInv /\ KeptTimes
<1> SUFFICES ASSUME WatchedInit PROVE IInv /\ KeptTimes
  OBVIOUS
<1>1. Init /\ IInv
  BY InitFact DEF WatchedInit
<1>2. hotFor = 0 /\ darkFor = 0 /\ astrayFor = 0 /\ steadyFor = 0
  BY DEF WatchedInit
<1>3. /\ nextUpdate = 0 /\ kick = Never /\ lossAge = 0
      /\ \A s \in Sensors : feeds[s].lost = Never /\ ~feeds[s].held
  BY <1>1 DEF Init
<1>4. InRange
  <2>1. 0 <= UpdateEvery /\ -1 <= KickFor /\ ~(-1 > 0) /\ -1 <= LossGrace
    BY TimesFact
  <2>2. QED
    BY <1>3, <2>1 DEF InRange, FeedInRange
<1>5. Clocked
  BY <1>2 DEF Clocked
<1>6. AstrayInTime
  <2>1. 0 <= 0 + UpdateEvery + KickFor
    BY TimesFact
  <2>2. QED
    BY <1>2, <1>3, <2>1 DEF AstrayInTime
<1>7. SteadySoFar
  BY <1>3, WatchedAssumption DEF SteadySoFar, SteadyFact
<1>8. QED
  BY <1>1, <1>4, <1>5, <1>6, <1>7 DEF KeptTimes

LEMMA WatchedIsNext ==
  ASSUME [WatchedNext]_<<vars, watch>>
  PROVE  [Next]_vars
  BY DEF WatchedNext, Next, Update

LEMMA KeptAlways ==
  ASSUME IInv, KeptTimes, [WatchedNext]_<<vars, watch>>
  PROVE  /\ IInv' /\ KeptTimes'
         /\ HoldEnds => steadyFor >= RecoveryHold
<1>1. IInv'
  BY UpdateStep, ElapseStep, SurroundingsStep, WatchedIsNext DEF Next
<1>2. KeptTimes' /\ (HoldEnds => steadyFor >= RecoveryHold)
  BY KeptStep, KeptStutters
<1>3. QED
  BY <1>1, <1>2

\* The clocks and what they depend on stay within their bounds.
THEOREM TimesAreKept == WatchedSpec => [](IInv /\ KeptTimes)
<1>1. IInv /\ KeptTimes /\ [WatchedNext]_<<vars, watch>> => (IInv /\ KeptTimes)'
  BY KeptAlways
<1>2. QED
  BY KeptInit, <1>1, PTL DEF WatchedSpec

\* However long its kick, its grace and its updates are, a chip that does not
\* do what it was told is reported once the warning is due.
THEOREM AstrayIsReported == WatchedSpec => []NeverSilentlyAstray
<1>1. ASSUME IInv, KeptTimes PROVE NeverSilentlyAstray
  <2>1. SUFFICES ASSUME astrayFor > AstrayReaction PROVE Health # "Info"
    BY DEF NeverSilentlyAstray
  <2>2. /\ lossAge \in Int /\ astrayFor \in Int /\ kick \in Int
        /\ nextUpdate \in Int /\ nextUpdate >= 0
    BY <1>1 DEF IInv, TypeOK, Timer, KeptTimes, Clocked
  <2>3. astrayFor > WarnAfter + UpdateEvery + KickFor
    BY <2>1 DEF AstrayReaction
  <2>4. Astray
    BY <1>1, <2>2, <2>3, TimesFact DEF KeptTimes, Clocked
  <2>5. lossAge # Never
    <3>1. SUFFICES ASSUME lossAge = Never PROVE FALSE
      OBVIOUS
    <3>2. /\ kick <= 0 => astrayFor + nextUpdate <= UpdateEvery + KickFor
          /\ kick > 0 => astrayFor + kick <= KickFor
      BY <1>1, <2>4, <3>1 DEF KeptTimes, AstrayInTime
    <3>3. QED
      BY <2>2, <2>3, <3>2, TimesFact
  <2>6. lossAge >= WarnAfter
    <3>1. lossAge < CriticalAfter => astrayFor <= lossAge + UpdateEvery + KickFor
      BY <1>1, <2>5 DEF KeptTimes, AstrayInTime
    <3>2. QED
      BY <2>2, <2>3, <3>1, TimesFact
  <2>7. QED
    BY <2>6 DEF Health
<1>2. QED
  BY <1>1, TimesAreKept, PTL

\* However often the sensor comes and goes, the fan is held at max_pwm until
\* it has read for the whole recovery time.
THEOREM HoldIsKept == WatchedSpec => HoldOutlastsFlapping
<1>1. IInv /\ KeptTimes /\ [WatchedNext]_<<vars, watch>>
        => [feeds[Watched].held /\ ~feeds'[Watched].held
              => steadyFor >= RecoveryHold]_<<vars, watch>>
  BY KeptAlways DEF HoldEnds
<1>2. QED
  BY <1>1, TimesAreKept, PTL DEF WatchedSpec, HoldOutlastsFlapping

-----------------------------------------------------------------------------
(* A hot sensor, and a silent one. *)

\* Nothing has been asked for yet: there is all the time.
LEMMA ReachStart ==
  ASSUME TypeOK, InRange, NEW first \in Int, first >= UpdateEvery
  PROVE  Reach(0, first)
<1>1. /\ kick \in Int /\ kick <= KickFor /\ nextUpdate \in Int
      /\ nextUpdate <= UpdateEvery
  BY DEF TypeOK, Timer, InRange
<1>2. /\ kick > 0 => 0 + Noticed(kick) <= first + Noticed(KickFor)
      /\ 0 + nextUpdate <= first + Noticed(KickFor)
      /\ 0 + nextUpdate <= first
  BY <1>1, TimesFact DEF Noticed
<1>3. QED
  BY <1>2 DEF Reach

LEMMA ReachDefault ==
  ASSUME TypeOK, InRange, Clocked
  PROVE  /\ HotInTime => Reach(hotFor, UpdateEvery)
         /\ DarkInTime => /\ feeds[Watched].held => Reach(darkFor, DarkFirst)
                          /\ ~feeds[Watched].held => Unheld(feeds[Watched])
<1>1. /\ UpdateEvery \in Int /\ UpdateEvery >= UpdateEvery
      /\ DarkFirst \in Int /\ DarkFirst >= UpdateEvery
  BY TimesFact DEF DarkFirst, Noticed
<1>2. ~Hot => Reach(hotFor, UpdateEvery)
  BY <1>1, ReachStart DEF Clocked
<1>3. ~Dark => Reach(darkFor, DarkFirst)
  BY <1>1, ReachStart DEF Clocked
<1>4. ASSUME ~Dark PROVE Unheld(feeds[Watched])
  <2>1. /\ feeds[Watched].lost \in Int /\ feeds[Watched].lost <= LossGrace
        /\ nextUpdate \in Int /\ nextUpdate <= UpdateEvery
    BY WatchedAssumption DEF TypeOK, Feed, Timer, InRange, FeedInRange
  <2>2. darkFor = 0
    BY <1>4 DEF Clocked
  <2>3. PICK lost \in Int : lost = feeds[Watched].lost /\ lost <= LossGrace
    BY <2>1
  <2>4. /\ 0 + nextUpdate <= UpdateEvery
        /\ 0 + lost <= UpdateEvery + LossGrace
        /\ 0 + nextUpdate <= DarkFirst
    BY <1>1, <2>1, <2>3, TimesFact
  <2>5. QED
    BY <2>2, <2>3, <2>4 DEF Unheld
<1>5. QED
  BY <1>2, <1>3, <1>4 DEF HotInTime, DarkInTime

\* A fan that is past the time it had runs at max_pwm.
LEMMA ReachEnds ==
  ASSUME TypeOK, Clocked, NEW c \in Nat, NEW first \in Int,
         Reach(c, first), c > first + Noticed(KickFor)
  PROVE  FullSpeed
<1>1. /\ kick \in Int /\ nextUpdate \in Nat /\ lastPwm \in Int
      /\ astrayFor \in Nat
  BY DEF TypeOK, Timer, Clocked, Pwm
<1>2. AtFull
  <2>1. SUFFICES ASSUME ~AtFull PROVE FALSE
    OBVIOUS
  <2>2. CASE kick > 0
    <3>1. c + Noticed(kick) <= first + Noticed(KickFor)
      BY <2>1, <2>2 DEF Reach
    <3>2. QED
      BY <1>1, <2>2, <3>1, TimesFact DEF Noticed
  <2>3. CASE ~(kick > 0)
    <3>1. kick <= 0
      BY <1>1, <2>3
    <3>2. /\ lastPwm > 0 => c + nextUpdate <= first + Noticed(KickFor)
          /\ lastPwm <= 0 => c + nextUpdate <= first
      BY <2>1, <3>1 DEF Reach
    <3>3. QED
      BY <1>1, <3>2, TimesFact DEF Noticed
  <2>4. QED
    BY <2>2, <2>3
<1>3. Astray => astrayFor <= UpdateEvery
  BY <1>1, <1>2, TimesFact DEF AtFull
<1>4. QED
  BY <1>2, <1>3 DEF AtFull, Astray, FullSpeed

\* What an update that leaves the fan drivable, with something to hold it at
\* max_pwm for, did.
LEMMA ReachUpdated ==
  ASSUME IInv, InRange, MinStartPwm > 0, UpdateWithChip,
         NEW c \in Nat, NEW c2 \in Nat, c2 <= c,
         NEW first \in Int, first >= UpdateEvery, Reach(c, first) \/ c <= first,
         Drivable', Readable = {} \/ CriticalNow \/ FloorActive
  PROVE  Reach(c2, first)'
<1>1. TypeOK /\ UntouchedIsLost /\ nextUpdate = 0 /\ nextUpdate' = UpdateEvery
  BY WithChipFact DEF IInv
<1>2. lossAge' = Never /\ stalls' = 0
  BY DEF Drivable
<1>3. CASE UpdateTooEarly
  BY <1>1, <1>2, <1>3 DEF UpdateTooEarly, UntouchedIsLost
<1>4. CASE UpdateMidKick
  <2>1. kick > 0 /\ UNCHANGED <<kick, lastPwm, pwm>>
    BY <1>4 DEF UpdateMidKick
  <2>2. QED
    BY <1>1, <2>1, ReachMidKick
<1>5. CASE HoldFullSpeedWithoutSensors
  <2>1. Apply([kick |-> FALSE, pwm |-> MaxPwm])
    BY <1>5 DEF HoldFullSpeedWithoutSensors
  <2>2. ~WriteFailed
    <3>1. (IF lossAge = -1 THEN 0 ELSE lossAge) # -1
      OBVIOUS
    <3>2. QED
      BY <1>2, <3>1 DEF WriteFailed, NoteControlLost
  <2>3. Wrote(MaxPwm) /\ kick' = Never
    BY <2>1, <2>2 DEF Apply
  <2>4. AtFull'
    BY <2>3 DEF AtFull, Astray, Wrote
  <2>5. QED
    BY <2>4 DEF Reach
<1>6. CASE \E t \in Targets, rpm \in Tachs : UpdateDrives(t, rpm)
  <2>1. PICK t \in Targets, rpm \in Tachs : UpdateDrives(t, rpm)
    BY <1>6
  <2>2. Readable # {} /\ kick <= 0 /\ Apply(Plan(t, rpm))
        /\ stalls' = Plan(t, rpm).stalls
    BY <2>1 DEF UpdateDrives, UpdateReads
  <2>3. t = MaxPwm
    BY <2>2 DEF Targets
  <2>4. QED
    BY <1>1, <1>2, <2>2, <2>3, ReachDrive
<1>7. QED
  BY <1>3, <1>4, <1>5, <1>6 DEF UpdateWithChip

LEMMA HotStep ==
  ASSUME IInv, KeptTimes, HotInTime, MinStartPwm > 0, WatchedNext
  PROVE  HotInTime'
<1>1. /\ TypeOK /\ InRange /\ Clocked /\ UntouchedIsLost
      /\ Reach(hotFor, UpdateEvery) /\ hotFor \in Nat /\ astrayFor \in Nat
      /\ UpdateEvery \in Int /\ UpdateEvery >= UpdateEvery
  <2>1. TypeOK /\ InRange /\ Clocked /\ UntouchedIsLost
    BY DEF IInv, KeptTimes
  <2>2. QED
    BY <2>1, ReachDefault, TimesFact DEF Clocked
<1>2. SUFFICES ASSUME Hot' PROVE Reach(hotFor, UpdateEvery)'
  BY DEF HotInTime
<1>3. ASSUME NEW h, hotFor' = h, Reach(h, UpdateEvery)'
      PROVE  Reach(hotFor, UpdateEvery)'
  BY <1>3 DEF Reach
<1>4. CASE UpdateWithoutChip /\ Watch(0, FALSE)
  <2>1. lossAge' # Never
    BY <1>1, <1>4 DEF UpdateWithoutChip, NoteControlLost, TypeOK, Timer
  <2>2. QED
    BY <1>2, <2>1 DEF Hot, Drivable
<1>5. CASE UpdateWithChip /\ Watch(0, Watched \notin Readable)
  <2>1. PICK h \in Nat : hotFor' = h /\ h <= hotFor + 0
    BY <1>1, <1>5, WatchFact
  <2>2. h <= hotFor
    BY <1>1, <2>1
  <2>3. Drivable' /\ CriticalNow
    BY <1>2, <1>5, WithChipFact DEF Hot, Readable, CriticalNow
  <2>4. Reach(h, UpdateEvery)'
    BY <1>1, <1>5, <2>2, <2>3, ReachUpdated
  <2>5. QED
    BY <1>3, <2>1, <2>4
<1>6. CASE /\ \/ \E s \in Sensors, value \in Temps \cup {NoReading} :
                   Sample(s, value)
              \/ GoAutomatic
           /\ Watch(0, FALSE)
  <2>1. PICK h \in Nat : hotFor' = h /\ h <= hotFor + 0
    BY <1>1, <1>6, WatchFact
  <2>2. PICK a \in Nat : astrayFor' = a /\ a <= astrayFor + 0
    BY <1>1, <1>6, WatchFact
  <2>3. h <= hotFor /\ a <= astrayFor
    BY <1>1, <2>1, <2>2
  <2>4. UNCHANGED <<kick, lastPwm, pwm, nextUpdate>>
    BY <1>6 DEF Sample, GoAutomatic, driving
  <2>5. Reach(h, UpdateEvery)'
    BY <1>1, <2>2, <2>3, <2>4, ReachStays
  <2>6. QED
    BY <1>3, <2>1, <2>5
<1>7. CASE Elapse /\ Watch(1, FALSE)
  <2>1. PICK h \in Nat : hotFor' = h /\ h <= hotFor + 1
    BY <1>1, <1>7, WatchFact
  <2>2. PICK a \in Nat : astrayFor' = a /\ a <= astrayFor + 1
    BY <1>1, <1>7, WatchFact
  <2>3. Astray' = Astray
    BY <1>7 DEF Elapse, Astray
  <2>4. Reach(h, UpdateEvery)'
    BY <1>1, <1>7, <2>1, <2>2, <2>3, ReachElapse
  <2>5. QED
    BY <1>3, <2>1, <2>4
<1>8. QED
  BY <1>4, <1>5, <1>6, <1>7 DEF WatchedNext

\* An update that finds the sensor silent holds it, or there is time left.
LEMMA DarkTracked ==
  ASSUME TypeOK, InRange, Clocked, DarkInTime, UpdateWithChip, Dark',
         NEW d \in Nat, darkFor' = d, d <= darkFor
  PROVE  /\ feeds'[Watched].held => /\ FloorActive
                                    /\ \/ Reach(darkFor, DarkFirst)
                                       \/ darkFor <= DarkFirst
         /\ ~feeds'[Watched].held => Unheld(feeds[Watched])'
<1> DEFINE f == feeds[Watched]
           lost == IF f.lost = Never THEN LossGrace ELSE f.lost
<1>1. /\ f \in Feed /\ f.lost \in Int /\ f.lost >= -1 /\ f.held \in BOOLEAN
      /\ darkFor \in Nat /\ nextUpdate = 0 /\ nextUpdate' = UpdateEvery
  BY WatchedAssumption, WithChipFact DEF TypeOK, Feed, Timer, Clocked
<1>2. f.held => Reach(darkFor, DarkFirst)
  BY ReachDefault
<1>3. ~f.held => Unheld(f)
  BY ReachDefault
<1>4. feeds'[Watched] = Tracked(Watched) /\ Watched \notin Readable
  BY WatchedAssumption, WithChipFact DEF TrackSensors, Dark, Readable
<1>5. /\ Tracked(Watched).lost = lost
      /\ Tracked(Watched).held = (f.held \/ lost = 0)
  <2>1. f.ever
    BY <1>4 DEF Dark, Tracked
  <2>2. QED
    BY <1>4, <2>1 DEF Tracked
<1> HIDE DEF f
<1>6. PICK l \in Int : l = f.lost /\ l >= -1
  BY <1>1
<1>7. CASE f.held
  BY <1>2, <1>4, <1>5, <1>7, WatchedAssumption DEF FloorActive
<1>8. CASE ~f.held
  <2>1. /\ l = Never => darkFor + nextUpdate <= UpdateEvery
        /\ l > 0 => darkFor + l <= UpdateEvery + LossGrace
        /\ l = 0 => darkFor + nextUpdate <= DarkFirst
    BY <1>3, <1>6, <1>8 DEF Unheld
  <2>2. lost = IF l = Never THEN LossGrace ELSE l
    BY <1>6
  <2> HIDE DEF lost
  <2>3. CASE lost = 0
    <3>1. darkFor <= DarkFirst
      BY <1>1, <2>1, <2>2, <2>3, TimesFact DEF DarkFirst, Noticed
    <3>2. QED
      BY <1>4, <1>5, <2>3, <3>1, WatchedAssumption DEF FloorActive
  <2>4. CASE lost # 0
    <3>1. lost \in Int /\ lost > 0 /\ lost # Never /\ d + lost <= UpdateEvery + LossGrace
      BY <1>1, <1>6, <2>1, <2>2, <2>4, TimesFact
    <3>2. ~feeds'[Watched].held /\ feeds'[Watched].lost = lost
      BY <1>4, <1>5, <1>8, <2>4
    <3>3. QED
      BY <2>4, <3>1, <3>2 DEF Unheld
  <2>5. QED
    BY <2>3, <2>4
<1>9. QED
  BY <1>7, <1>8

LEMMA UnheldStays ==
  ASSUME TypeOK, Clocked, UNCHANGED <<feeds, nextUpdate>>, Unheld(feeds[Watched]),
         NEW d \in Nat, darkFor' = d, d <= darkFor
  PROVE  Unheld(feeds[Watched])'
<1>1. /\ feeds[Watched].lost \in Int /\ darkFor \in Nat /\ nextUpdate \in Nat
  BY WatchedAssumption DEF TypeOK, Feed, Timer, Clocked
<1>2. PICK l \in Int : l = feeds[Watched].lost
  BY <1>1
<1>3. /\ l = Never => darkFor + nextUpdate <= UpdateEvery
      /\ l > 0 => darkFor + l <= UpdateEvery + LossGrace
      /\ l = 0 => darkFor + nextUpdate <= DarkFirst
  BY <1>2 DEF Unheld
<1>4. DarkFirst \in Int
  BY TimesFact DEF DarkFirst, Noticed
<1>5. /\ l = Never => d + nextUpdate <= UpdateEvery
      /\ l > 0 => d + l <= UpdateEvery + LossGrace
      /\ l = 0 => d + nextUpdate <= DarkFirst
  BY <1>1, <1>3, <1>4, TimesFact
<1>6. nextUpdate' = nextUpdate /\ feeds'[Watched].lost = l
  BY <1>2
<1>7. QED
  BY <1>5, <1>6 DEF Unheld

LEMMA UnheldElapse ==
  ASSUME TypeOK, InRange, Clocked, Elapse, Unheld(feeds[Watched]),
         NEW d \in Nat, darkFor' = d, d <= darkFor + 1
  PROVE  Unheld(feeds[Watched])'
<1>1. /\ feeds[Watched] \in Feed /\ feeds[Watched].lost \in Timer
      /\ feeds[Watched].lost \in Int /\ feeds[Watched].lost >= -1
      /\ darkFor \in Nat
      /\ nextUpdate \in Nat /\ nextUpdate <= UpdateEvery
  BY WatchedAssumption DEF TypeOK, Feed, Timer, Clocked, InRange
<1>2. PICK l \in Int : l = feeds[Watched].lost /\ l \in Timer /\ l >= -1
  BY <1>1
<1>3. /\ l = Never => darkFor + nextUpdate <= UpdateEvery
      /\ l > 0 => darkFor + l <= UpdateEvery + LossGrace
      /\ l = 0 => darkFor + nextUpdate <= DarkFirst
  BY <1>2 DEF Unheld
<1> DEFINE m == Less(l)
<1>4. /\ nextUpdate' = nextUpdate - 1 /\ nextUpdate > 0
      /\ feeds'[Watched].lost = m
  BY <1>1, <1>2, WatchedAssumption DEF Elapse, Feed
<1>5. /\ m \in Int /\ (l > 0 => m = l - 1) /\ (~(l > 0) => m = l)
  BY <1>2, LessFact
<1> HIDE DEF m
<1>6. /\ m = Never => d + (nextUpdate - 1) <= UpdateEvery
      /\ m > 0 => d + m <= UpdateEvery + LossGrace
      /\ m = 0 => d + (nextUpdate - 1) <= DarkFirst
  BY <1>1, <1>2, <1>3, <1>5, TimesFact DEF DarkFirst, Noticed
<1>7. QED
  BY <1>4, <1>6 DEF Unheld

LEMMA DarkStep ==
  ASSUME IInv, KeptTimes, DarkInTime, MinStartPwm > 0, WatchedNext
  PROVE  DarkInTime'
<1>1. /\ TypeOK /\ InRange /\ Clocked /\ UntouchedIsLost
      /\ feeds[Watched].held => Reach(darkFor, DarkFirst)
      /\ ~feeds[Watched].held => Unheld(feeds[Watched])
      /\ darkFor \in Nat /\ astrayFor \in Nat
      /\ DarkFirst \in Int /\ DarkFirst >= UpdateEvery
  <2>1. TypeOK /\ InRange /\ Clocked /\ UntouchedIsLost
    BY DEF IInv, KeptTimes
  <2>2. DarkFirst \in Int /\ DarkFirst >= UpdateEvery
    BY TimesFact DEF DarkFirst, Noticed
  <2>3. QED
    BY <2>1, <2>2, ReachDefault DEF Clocked
<1>2. SUFFICES ASSUME Dark'
               PROVE  /\ feeds'[Watched].held => Reach(darkFor, DarkFirst)'
                      /\ ~feeds'[Watched].held => Unheld(feeds[Watched])'
  BY DEF DarkInTime
<1>3. ASSUME NEW h, darkFor' = h, Reach(h, DarkFirst)'
      PROVE  Reach(darkFor, DarkFirst)'
  BY <1>3 DEF Reach
<1>4. CASE UpdateWithoutChip /\ Watch(0, FALSE)
  <2>1. lossAge' # Never
    BY <1>1, <1>4 DEF UpdateWithoutChip, NoteControlLost, TypeOK, Timer
  <2>2. QED
    BY <1>2, <2>1 DEF Dark, Drivable
<1>5. CASE UpdateWithChip /\ Watch(0, Watched \notin Readable)
  <2>1. PICK h \in Nat : darkFor' = h /\ h <= darkFor + 0
    BY <1>1, <1>5, WatchFact
  <2>2. h <= darkFor
    BY <1>1, <2>1
  <2>3. /\ feeds'[Watched].held => /\ FloorActive
                                   /\ \/ Reach(darkFor, DarkFirst)
                                      \/ darkFor <= DarkFirst
        /\ ~feeds'[Watched].held => Unheld(feeds[Watched])'
    BY <1>1, <1>2, <1>5, <2>1, <2>2, DarkTracked
  <2>4. ASSUME feeds'[Watched].held PROVE Reach(h, DarkFirst)'
    <3>1. Drivable'
      BY <1>2 DEF Dark
    <3>2. QED
      BY <1>1, <1>5, <2>2, <2>3, <2>4, <3>1, ReachUpdated
  <2>5. QED
    BY <1>3, <2>1, <2>3, <2>4
<1>6. CASE /\ \/ \E s \in Sensors, value \in Temps \cup {NoReading} :
                   Sample(s, value)
              \/ GoAutomatic
           /\ Watch(0, FALSE)
  <2>1. PICK h \in Nat : darkFor' = h /\ h <= darkFor + 0
    BY <1>1, <1>6, WatchFact
  <2>2. PICK a \in Nat : astrayFor' = a /\ a <= astrayFor + 0
    BY <1>1, <1>6, WatchFact
  <2>3. h <= darkFor /\ a <= astrayFor
    BY <1>1, <2>1, <2>2
  <2>4. UNCHANGED <<kick, lastPwm, pwm, nextUpdate>> /\ feeds' = feeds
    BY <1>6 DEF Sample, GoAutomatic, driving, sensing
  <2>5. feeds[Watched].held => Reach(h, DarkFirst)'
    BY <1>1, <2>2, <2>3, <2>4, ReachStays
  <2>6. ~feeds[Watched].held => Unheld(feeds[Watched])'
    BY <1>1, <2>1, <2>3, <2>4, UnheldStays
  <2>7. QED
    BY <1>3, <2>1, <2>4, <2>5, <2>6
<1>7. CASE Elapse /\ Watch(1, FALSE)
  <2>1. PICK h \in Nat : darkFor' = h /\ h <= darkFor + 1
    BY <1>1, <1>7, WatchFact
  <2>2. PICK a \in Nat : astrayFor' = a /\ a <= astrayFor + 1
    BY <1>1, <1>7, WatchFact
  <2>3. Astray' = Astray
    BY <1>7 DEF Elapse, Astray
  <2>4. feeds'[Watched].held = feeds[Watched].held
    <3>1. feeds[Watched] \in Feed
      BY <1>1, WatchedAssumption DEF TypeOK
    <3>2. QED
      BY <1>7, <3>1, WatchedAssumption DEF Elapse, Feed
  <2>5. feeds[Watched].held => Reach(h, DarkFirst)'
    BY <1>1, <1>7, <2>1, <2>2, <2>3, ReachElapse
  <2>6. ~feeds[Watched].held => Unheld(feeds[Watched])'
    BY <1>1, <1>7, <2>1, UnheldElapse
  <2>7. QED
    BY <1>3, <2>1, <2>4, <2>5, <2>6
<1>8. QED
  BY <1>4, <1>5, <1>6, <1>7 DEF WatchedNext

LEMMA InTimeStutters ==
  ASSUME HotInTime, DarkInTime, UNCHANGED <<vars, watch>>
  PROVE  HotInTime' /\ DarkInTime'
<1>1. /\ UNCHANGED <<fixedPwm, reading, feeds, critical, hwmon, lastPwm, kick,
                     lossAge, manual, pwm, stalls, lowRpm, sensorsLost, age,
                     nextUpdate, hotFor, darkFor, astrayFor, steadyFor>>
  BY DEF vars, watch, sensing, driving, health
<1>2. Hot' = Hot /\ Dark' = Dark /\ Astray' = Astray
  BY <1>1 DEF Hot, Dark, Astray, Drivable, Readable
<1>3. AtFull' = AtFull
  BY <1>1, <1>2 DEF AtFull
<1>4. /\ Reach(hotFor, UpdateEvery)' = Reach(hotFor, UpdateEvery)
      /\ Reach(darkFor, DarkFirst)' = Reach(darkFor, DarkFirst)
  BY <1>1, <1>3 DEF Reach
<1>5. Unheld(feeds[Watched])' = Unheld(feeds[Watched])
  BY <1>1 DEF Unheld
<1>6. QED
  BY <1>1, <1>2, <1>4, <1>5 DEF HotInTime, DarkInTime

-----------------------------------------------------------------------------
(* The theorems about time. A fan whose kick is at 0 is never set going,   *)
(* and the configuration allows it: min_start_pwm > 0 is a hypothesis.     *)

IInvInTime == IInv /\ KeptTimes /\ HotInTime /\ DarkInTime

\* With them, a fan that is asked for max_pwm is there in time.
THEOREM FullSpeedInTime ==
  ASSUME MinStartPwm > 0
  PROVE  WatchedSpec => []IInvInTime
<1>1. WatchedInit => IInvInTime
  <2>1. ASSUME WatchedInit PROVE ~Hot /\ ~Dark
    BY <2>1 DEF WatchedInit, Init, Hot, Dark, Drivable
  <2>2. QED
    BY <2>1, KeptInit DEF IInvInTime, HotInTime, DarkInTime
<1>2. IInvInTime /\ [WatchedNext]_<<vars, watch>> => IInvInTime'
  <2>1. SUFFICES ASSUME IInvInTime, [WatchedNext]_<<vars, watch>>
                 PROVE  IInvInTime'
    OBVIOUS
  <2>2. IInv /\ KeptTimes /\ HotInTime /\ DarkInTime
    BY <2>1 DEF IInvInTime
  <2>3. HotInTime' /\ DarkInTime'
    BY <2>1, <2>2, HotStep, DarkStep, InTimeStutters
  <2>4. QED
    BY <2>1, <2>2, <2>3, KeptAlways DEF IInvInTime
<1>3. QED
  BY <1>1, <1>2, PTL DEF WatchedSpec

\* A sensor that stays critical has its fan at max_pwm within two updates and
\* a kick, whatever their lengths.
THEOREM HotAnswered ==
  ASSUME MinStartPwm > 0
  PROVE  WatchedSpec => []HotIsCooled
<1>1. ASSUME IInvInTime PROVE HotIsCooled
  <2>1. SUFFICES ASSUME hotFor > Reaction PROVE FullSpeed
    BY DEF HotIsCooled
  <2>2. TypeOK /\ InRange /\ Clocked /\ HotInTime
    BY <1>1 DEF IInvInTime, IInv, KeptTimes
  <2>3. hotFor \in Nat /\ UpdateEvery \in Int
    BY <2>2, TimesFact DEF Clocked
  <2>4. Reach(hotFor, UpdateEvery)
    BY <2>2, ReachDefault
  <2>5. hotFor > UpdateEvery + Noticed(KickFor)
    BY <2>1 DEF Reaction
  <2>6. QED
    BY <2>2, <2>3, <2>4, <2>5, ReachEnds
<1>2. QED
  BY <1>1, FullSpeedInTime, PTL

\* So has one that used to read and is silent, once its grace is over too.
THEOREM SilenceAnswered ==
  ASSUME MinStartPwm > 0
  PROVE  WatchedSpec => []SilenceIsCovered
<1>1. ASSUME IInvInTime PROVE SilenceIsCovered
  <2>1. SUFFICES ASSUME darkFor > DarkReaction PROVE FullSpeed
    BY DEF SilenceIsCovered
  <2>2. TypeOK /\ InRange /\ Clocked /\ DarkInTime
    BY <1>1 DEF IInvInTime, IInv, KeptTimes
  <2>3. /\ darkFor \in Nat /\ DarkFirst \in Int /\ nextUpdate \in Nat
        /\ darkFor > DarkFirst + Noticed(KickFor)
        /\ darkFor > UpdateEvery + LossGrace /\ darkFor > UpdateEvery
        /\ darkFor > DarkFirst
    <3>1. darkFor > UpdateEvery + Noticed(LossGrace) + Noticed(KickFor)
      BY <2>1 DEF DarkReaction
    <3>2. darkFor \in Nat /\ nextUpdate \in Nat
      BY <2>2 DEF Clocked, TypeOK
    <3>3. QED
      BY <3>1, <3>2, TimesFact DEF DarkFirst, Noticed
  <2>4. feeds[Watched].held
    <3>1. SUFFICES ASSUME Unheld(feeds[Watched]) PROVE FALSE
      BY <2>2, ReachDefault
    <3>2. PICK l \in Int : l = feeds[Watched].lost /\ l >= -1
      BY <2>2, WatchedAssumption DEF TypeOK, Feed, Timer
    <3>3. /\ l = Never => darkFor + nextUpdate <= UpdateEvery
          /\ l > 0 => darkFor + l <= UpdateEvery + LossGrace
          /\ l = 0 => darkFor + nextUpdate <= DarkFirst
      BY <3>1, <3>2 DEF Unheld
    <3>4. QED
      BY <2>3, <3>2, <3>3, TimesFact
  <2>5. Reach(darkFor, DarkFirst)
    BY <2>2, <2>4, ReachDefault
  <2>6. QED
    BY <2>2, <2>3, <2>5, ReachEnds
<1>2. QED
  BY <1>1, FullSpeedInTime, PTL
=============================================================================
