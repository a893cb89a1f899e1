------------------------------ MODULE FanTiming ------------------------------
(***************************************************************************)
(* How soon the control of one fan answers, and how steadily:              *)
(* FanController with clocks that only watch it, one for each thing that   *)
(* must not go on for long. A watched clock counts the units of time its   *)
(* condition has held without a break, up to one more than the property    *)
(* about it allows.                                                        *)
(***************************************************************************)
EXTENDS FanController

CONSTANT Watched \* the selector the clocks look at

ASSUME WatchedAssumption == Watched \in Sensors

VARIABLES
  hotFor,    \* some sensor reads critical, and the fan can be driven
  darkFor,   \* Watched, which used to read, does not; and as above
  astrayFor, \* the chip is not doing what it was last told
  steadyFor  \* every update has seen Watched read

watch == <<hotFor, darkFor, astrayFor, steadyFor>>

\* A failing write and a stalled fan are reported instead: Health.
Drivable == lossAge = Never /\ stalls = 0

Hot == Drivable /\ \E s \in Readable : reading[s] >= CritAt[s]
Dark == Drivable /\ feeds[Watched].ever /\ Watched \notin Readable
Astray == ~(manual /\ pwm = lastPwm)

\* What runs out between two updates is noticed by the later one.
Noticed(t) == t + UpdateEvery - 1

\* A new command waits for the next update and, after a kick, for the one
\* that finds it over; a silent sensor is first given its grace, from the
\* update that notices it.
Reaction == UpdateEvery + Noticed(KickFor)
DarkReaction == UpdateEvery + Noticed(LossGrace) + Noticed(KickFor)
AstrayReaction == WarnAfter + UpdateEvery + KickFor

Count(clock, condition, d, limit) ==
  IF ~condition THEN 0 ELSE IF clock > limit THEN clock ELSE clock + d

\* d: how long the step took; blind: an update saw Watched not read.
Watch(d, blind) ==
  /\ hotFor' = Count(hotFor, Hot', d, Reaction)
  /\ darkFor' = Count(darkFor, Dark', d, DarkReaction)
  /\ astrayFor' = Count(astrayFor, Astray', d, AstrayReaction)
  /\ steadyFor' = Count(steadyFor, ~blind, d, RecoveryHold)

WatchedInit == Init /\ hotFor = 0 /\ darkFor = 0 /\ astrayFor = 0 /\ steadyFor = 0

WatchedNext ==
  \/ UpdateWithoutChip /\ Watch(0, FALSE)
  \/ UpdateWithChip /\ Watch(0, Watched \notin Readable)
  \/ /\ \E s \in Sensors, value \in Temps \cup {NoReading} : Sample(s, value)
     /\ Watch(0, FALSE)
  \/ GoAutomatic /\ Watch(0, FALSE)
  \/ Elapse /\ Watch(1, FALSE)

WatchedSpec == WatchedInit /\ [][WatchedNext]_<<vars, watch>>

\* The control thread passes and time goes by.
WatchedFairSpec == WatchedSpec /\ WF_vars(Update) /\ WF_vars(Elapse)

-----------------------------------------------------------------------------
(* Properties. *)

\* Told to run at max_pwm, and doing it unless the firmware has just taken
\* the fan back: the next update asserts manual mode again.
FullSpeed == pwm = MaxPwm /\ (manual \/ astrayFor <= UpdateEvery)

\* A sensor that stays critical has its fan at max_pwm within two updates and
\* a kick, whatever mode the fan is in and whatever it was doing.
HotIsCooled == hotFor > Reaction => FullSpeed

\* So has a sensor that used to read and stays silent, once its grace is over.
SilenceIsCovered == darkFor > DarkReaction => FullSpeed

\* A chip that does not do what it was told (never taken over, reset by its
\* firmware, its writes failing) does not stay that way unreported.
NeverSilentlyAstray == astrayFor > AstrayReaction => Health # "Info"

\* The hold for a sensor that went silent ends only after every update has
\* seen it read for the whole recovery time.
HoldOutlastsFlapping ==
  [][feeds[Watched].held /\ ~feeds'[Watched].held
       => steadyFor >= RecoveryHold]_<<vars, watch>>
=============================================================================
