---------------------------- MODULE PowerSchedule ----------------------------
(***************************************************************************)
(* The power schedule (Scheduler, src/src/power.rs): the event loop polls  *)
(* it with the wall clock, it returns the shutdown or restart that has     *)
(* come due, and it keeps the RTC's wake alarm set for the next power on.  *)
(*                                                                         *)
(* Time.  The clock runs in units of which Minute make a minute, and may   *)
(* be stepped either way between two polls.  Minutes are numbered from the *)
(* clock's 0; Offset(k) is how many minutes local time is ahead in minute  *)
(* k, so k + Offset(k) is what the clock on the wall shows.                *)
(*                                                                         *)
(* Data.  A rule is its action and the wall minutes its days and time of   *)
(* day name.                                                               *)
(*                                                                         *)
(* A definition whose name ends in _Slip is the next one with a mistake in *)
(* it; see AppState.                                                       *)
(***************************************************************************)
EXTENDS Integers, FiniteSets

CONSTANTS
  Rules,        \* the schedule
  Offset(_),    \* local time, in minutes ahead
  Minute,       \* units in a minute
  MaxGap,       \* MAX_GAP_SECS
  Recheck,      \* RTC_RECHECK_SECS
  Lookback,     \* how far is_repeated_wall_time looks back, in minutes
  Horizon,      \* the last time looked at
  ClockSteps    \* by how much the clock may have moved at the next poll

Never == -1     \* an Option that is None; an alarm that is not set
Minutes == 0 .. (Horizon \div Minute)
Times == 0 .. Horizon
Due == [at : Minutes, action : {"Shutdown", "Restart"}]

ASSUME RulesAssumption ==
  Rules \subseteq [action : {"Shutdown", "Restart", "PowerOn"},
                   at : SUBSET Int]
ASSUME ClockAssumption ==
  /\ Minute \in Nat \ {0} /\ Horizon \in Nat
  /\ MaxGap \in Nat /\ Recheck \in Nat /\ Lookback \in Nat
  /\ ClockSteps \subseteq Int
  /\ \A k \in -Lookback .. Horizon : Offset(k) \in Int

VARIABLES
  now,          \* the wall clock
  polled,       \* the loop has polled since the clock last moved
  checkedUntil, \* checked_until
  fired,        \* what the last poll returned: at most one
  alarm,        \* the RTC's wake alarm
  armed,        \* armed
  nextCheck,    \* next_rtc_check
  \* What the properties look back on:
  ran,          \* the minutes this daemon has fired
  spent,        \* the minutes fired that must not fire again
  since,        \* checkedUntil when it was last set without looking
  doubt         \* how long something has been wrong with the alarm

marks == <<checkedUntil, fired>>
rtc == <<alarm, armed, nextCheck>>
history == <<ran, spent, since, doubt>>
vars == <<now, polled, marks, rtc, history>>

-----------------------------------------------------------------------------
(* Local time. *)

Wall(k) == k + Offset(k)

\* What is_repeated_wall_time counts on: within the time it looks back local
\* time is put back or forward once at most, and no wall minute comes again
\* later than that.
ASSUME ShiftsAssumption ==
  \A l \in Minutes :
    /\ \E c \in (l - Lookback) .. (l + 1) : \A k \in (l - Lookback) .. l :
         Offset(k) = IF k < c THEN Offset(l - Lookback) ELSE Offset(l)
    /\ \A k \in Minutes : k < l /\ Wall(k) = Wall(l) => l - k <= Lookback

\* Nothing is ever taken to be repeated: OnceThatNight.
Repeated_Slip(k) == FALSE

\* is_repeated_wall_time: this wall minute has been before, under a larger
\* offset.
Repeated(k) ==
  LET shift == Offset(k - Lookback) - Offset(k)
  IN  shift > 0 /\ Wall(k - shift) = Wall(k)

Matching(k, actions) ==
  {r \in Rules : r.action \in actions /\ Wall(k) \in r.at /\ ~Repeated(k)}

PowerOff == {"Shutdown", "Restart"}

\* The minute that has just begun is left for the next poll: MissesNothing.
Boundaries_Slip(after, until) ==
  {k \in Minutes : after < k * Minute /\ k * Minute < until}

\* minute_boundaries: in (after, until].
Boundaries(after, until) ==
  {k \in Minutes : after < k * Minute /\ k * Minute <= until}

\* The last minute crossed at which a rule is due, and the rule that wins.
DueIn(after, until) ==
  LET due == {k \in Boundaries(after, until) : Matching(k, PowerOff) # {}}
      last == {k \in due : \A l \in due : l <= k}
  IN  {[at |-> k,
        action |-> IF Matching(k, {"Shutdown"}) # {} THEN "Shutdown"
                                                     ELSE "Restart"] : k \in last}

\* next_occurrence of a power on, as a time.
NextOn(t) ==
  LET on == {k \in Boundaries(t, Horizon) : Matching(k, {"PowerOn"}) # {}}
      First(k) == \A l \in on : k <= l
  IN  IF \E k \in on : First(k) THEN Minute * (CHOOSE k \in on : First(k))
                                ELSE Never

OwnsAlarm == \E r \in Rules : r.action = "PowerOn"

-----------------------------------------------------------------------------
(* The wake alarm. *)

\* Reading it, clearing it and setting it may each fail.  The kernel refuses
\* to replace an alarm that is set, so it is cleared first.
SyncSucceeds ==
  /\ alarm' = NextOn(now)
  /\ armed' = NextOn(now)
  /\ doubt' = Never

SyncFails ==
  /\ alarm' \in {alarm} \cup IF alarm # NextOn(now) THEN {Never} ELSE {}
  /\ armed' = Never
  /\ doubt' = 0

\* The next check is left to the alarm's going off: AlarmIsKept.
Sync_Slip == /\ SyncSucceeds \/ SyncFails
             /\ nextCheck' = Horizon + 1

Sync == /\ SyncSucceeds \/ SyncFails
        /\ nextCheck' = now + Recheck

\* sync_rtc: before the daemon runs a shutdown or restart, and when it exits.
SyncRtc ==
  /\ OwnsAlarm
  /\ Sync
  /\ fired' = {}
  /\ UNCHANGED <<now, polled, checkedUntil, ran, spent, since>>

\* An alarm that has gone off is not noticed: AlarmIsKept.
CheckDue_Slip(check) == now >= check

CheckDue(check) == now >= check \/ (armed # Never /\ now >= armed)

\* The end of a poll; check is next_rtc_check by then.
KeepAlarm(check) ==
  IF OwnsAlarm /\ CheckDue(check) THEN Sync
  ELSE nextCheck' = check /\ UNCHANGED <<alarm, armed, doubt>>

-----------------------------------------------------------------------------
(* poll. *)

Distance(a, b) == IF a < b THEN b - a ELSE a - b

\* A step of any size is taken for the loop running late: NothingSkipped.
Jumped_Slip == checkedUntil = Never

\* The first poll, or one after a clock jump.
Jumped == checkedUntil = Never \/ Distance(now, checkedUntil) > MaxGap

PollBlind ==
  /\ Jumped
  /\ checkedUntil' = now
  /\ fired' = {}
  /\ KeepAlarm(Never)
  /\ spent' = {k \in spent : k * Minute <= now}
  /\ since' = now
  /\ UNCHANGED ran

\* A clock stepped back a little takes the mark along: OnceUntilSetBack.
PollAgain_Slip ==
  /\ ~Jumped /\ now <= checkedUntil
  /\ checkedUntil' = now
  /\ fired' = {}
  /\ KeepAlarm(nextCheck)
  /\ UNCHANGED <<ran, spent, since>>

\* The clock was stepped back a little: the mark stays.
PollAgain ==
  /\ ~Jumped /\ now <= checkedUntil
  /\ fired' = {}
  /\ KeepAlarm(nextCheck)
  /\ UNCHANGED <<checkedUntil, ran, spent, since>>

PollForward ==
  /\ ~Jumped /\ now > checkedUntil
  /\ checkedUntil' = now
  /\ LET due == DueIn(checkedUntil, now) IN
     /\ fired' = due
     /\ ran' = ran \cup {d.at : d \in due}
     /\ spent' = spent \cup {d.at : d \in due}
  /\ KeepAlarm(nextCheck)
  /\ UNCHANGED since

Poll ==
  /\ PollBlind \/ PollAgain \/ PollForward
  /\ polled' = TRUE
  /\ UNCHANGED now

-----------------------------------------------------------------------------
(* What happens around it. *)

Aged(d) == IF doubt = Never \/ doubt > Recheck + MaxGap THEN doubt ELSE doubt + d

\* The clock runs or is stepped.  An alarm that comes due is spent, unless
\* the RTC's own clock is behind.
ClockMoves(t) ==
  /\ polled
  /\ t # now /\ t - now \in ClockSteps
  /\ now' = t
  /\ polled' = FALSE
  /\ alarm' \in {alarm} \cup IF alarm <= t THEN {Never} ELSE {}
  /\ doubt' = IF t > now THEN Aged(t - now) ELSE 0
  /\ fired' = {}
  /\ UNCHANGED <<checkedUntil, armed, nextCheck, ran, spent, since>>

\* Somebody else runs rtcwake.
OthersSetAlarm(t) ==
  /\ OwnsAlarm /\ t > now
  /\ alarm' = t
  /\ doubt' = 0
  /\ fired' = {}
  /\ UNCHANGED <<now, polled, checkedUntil, armed, nextCheck, ran, spent, since>>

\* The daemon stops or crashes, perhaps after clearing the alarm, and is
\* started again.
Restart ==
  /\ checkedUntil' = Never
  /\ armed' = Never /\ nextCheck' = Never
  /\ alarm' \in {alarm} \cup
       IF OwnsAlarm /\ alarm # NextOn(now) THEN {Never} ELSE {}
  /\ polled' = FALSE
  /\ fired' = {}
  /\ ran' = {}
  /\ UNCHANGED <<now, spent, since, doubt>>

Init ==
  /\ now \in Times /\ polled = FALSE
  /\ checkedUntil = Never /\ fired = {}
  /\ alarm \in {Never} \cup Times
  /\ armed = Never /\ nextCheck = Never
  /\ ran = {} /\ spent = {} /\ since = Never /\ doubt = Never

Next ==
  \/ Poll
  \/ SyncRtc
  \/ \E t \in Times : ClockMoves(t) \/ OthersSetAlarm(t)
  \/ Restart

Spec == Init /\ [][Next]_vars

-----------------------------------------------------------------------------
(* Properties. *)

TypeOK ==
  /\ now \in Times /\ polled \in BOOLEAN
  /\ checkedUntil \in Times \cup {Never}
  /\ fired \subseteq Due /\ Cardinality(fired) <= 1
  /\ alarm \in Times \cup {Never} /\ armed \in Times \cup {Never}
  /\ nextCheck \in Int
  /\ ran \subseteq Minutes /\ spent \subseteq Minutes
  /\ since \in Times \cup {Never} /\ doubt \in Int

\* Whatever the clock does, a minute that has fired does not fire again,
\* except one the clock was set back before and then jumped: neither a
\* restart of the daemon nor stepping the clock back a little fires it again.
OnceUntilSetBack ==
  [][\A d \in fired' : d.at \notin spent]_vars

\* What README.md says of the schedule and a clock jump: nothing fires that
\* was not reached by the clock running on, at most MaxGap at a time, while
\* the daemon was watching.
FiresWatched ==
  \A d \in fired' : d.at * Minute > since /\ d.at * Minute > now - MaxGap

NothingSkipped == [][FiresWatched]_vars

\* Nothing the clock ran over is missed either: it was fired, or one after it
\* was, in the same gap.
MissesNothing ==
  polled /\ checkedUntil # Never =>
    \A k \in Boundaries(since, checkedUntil) :
      Matching(k, PowerOff) # {} =>
        \E l \in spent : l \in k .. (k + MaxGap \div Minute)

\* In the hour that comes twice when summer time ends, a time of day fires
\* once.
OnceThatNight == \A k, l \in spent : Wall(k) = Wall(l) => k = l

\* As long as nothing has gone wrong (a failing write, somebody else's
\* alarm, a clock stepped back) the alarm is set for the next power on at
\* every poll, also after a jump, a restart, and an alarm that went off; and
\* when something has, it is looked at again within the recheck time and the
\* distance the clock may have been stepped back.
AlarmIsKept ==
  OwnsAlarm /\ polled =>
    /\ doubt = Never => alarm = NextOn(now)
    /\ doubt <= Recheck + MaxGap
=============================================================================
