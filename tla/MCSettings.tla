------------------------------ MODULE MCSettings ------------------------------
(***************************************************************************)
(* What TLC evaluates of Settings and LocalTime: functions, so assumptions *)
(* over inputs around every bound take the place of a run.                 *)
(***************************************************************************)
EXTENDS Settings, LocalTime

SomeDegrees == {0, 45, 60, 90, 91, NaN}
SomeSelectors ==
  [chip : {TRUE}, min : {None, NaN, 0, 90}, max : {None, NaN, 45, 91}]
SomeFans ==
  [enabled : {TRUE}, chip : BOOLEAN, mode : {"curve", "fixed"}, fixed : {None, 0, 54, 55, 255},
   every : {0, 1, 61}, min : SomeDegrees, max : SomeDegrees,
   minPwm : {0, 55}, minStop : {54, 55}, maxPwm : {54, 255},
   sensors : {{}} \cup {{s} : s \in SomeSelectors}]

\* A profile that stays enabled is one FanController can work with: NaN, which
\* passes every comparison of problems(), is gone before they are made
\* (sanitize_fan_temps).
ASSUME FansAreSane == \A f \in SomeFans : ValidFan(f).enabled => FanSane(ValidFan(f))

\* And a good one is left as it is.
ASSUME GoodFansAreKept ==
  \A f \in SomeFans : f.every > 0 /\ f.every <= 60 /\ f.chip /\ NaN \notin {f.min, f.max}
    /\ (\A s \in f.sensors : NaN \notin {s.min, s.max}) /\ FanSane(f) => ValidFan(f) = f

\* The lint's arithmetic finds a power-on in the window after a shutdown, also
\* over the end of the week, and no other.
ASSUME LintIsExact ==
  \A m \in {0, 1, 1439, Week - 4, Week - 1}, window \in {5, 6, 65}, k \in -70 .. 70 :
    LET n == (m + k + Week) % Week IN
    TooSoon(m, n, window) <=> \E later \in {n, n + Week} : later \in m .. m + window - 1

\* The night goes from its start up to its end, over midnight if need be.
ASSUME NightIsAnInterval ==
  \A start, end, now \in {0, 1, 2, 720, 1438, 1439} :
    Contains(start, end, now) <=> (now - start) % 1440 < (end - start) % 1440

\* From 1860 to 2189.
ASSUME CalendarIsRight == FollowsTheCalendar(-40000, 80000)
=============================================================================
