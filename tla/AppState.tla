------------------------------ MODULE AppState ------------------------------
(***************************************************************************)
(* The front panel's state machine (src/src/state.rs): the status screens, *)
(* the action menu and its confirm screen, the scheduled-shutdown          *)
(* countdown, the messages pushed over the socket, the chassis locate and  *)
(* night mode.  One action per handler the event loop calls; a handler     *)
(* runs to its end before the next one starts (AppState has one owner).    *)
(*                                                                         *)
(* Time.  Every Instant the code compares with now() is kept as the time   *)
(* still left to it: Elapse takes one unit off all of them, 0 is "now >=   *)
(* t", and Never is an Option that is None.                                *)
(*                                                                         *)
(* Data.  A message is its level, the severity of the LED pattern its look *)
(* asks for, its beep and its TTL; its text, the screens' text, scrolling  *)
(* and which of the status screens is up are left out.  What the health    *)
(* checks find is any of HealthSeverities whenever the verdict is          *)
(* recomputed.                                                             *)
(*                                                                         *)
(* A definition whose name ends in _Slip is not part of the model: it is   *)
(* the next definition with a plausible mistake in it, which the property  *)
(* its comment names has to notice.                                        *)
(***************************************************************************)
EXTENDS Integers

CONSTANTS
  Shows,            \* the SHOW requests clients send
  HealthSeverities, \* what the health checks may find; NoPattern: all well
  LocateTtls,       \* the TTLs of chassis LOCATEs; 0: until LOCATE off
  Countdowns,       \* countdown_secs of the power schedule's rules
  ConfirmTimeout,   \* [menu] confirm_timeout_secs
  ResumeAfter,      \* [rotation] resume_after_secs
  RepeatBeep,       \* REPEAT_BEEP_SECS
  CancelledTtl,     \* how long "CANCELLED" shows
  NoMessage         \* an Option<Override> that is None

Never == -1     \* an Option<Instant> that is None
NotLocating == -2
NoPattern == -1 \* a message that leaves the LED alone; no alarm at all

Info == 0
Warn == 1
Error == 2
Critical == 3
Levels == Info .. Critical
Severities == NoPattern .. 4

Timer == {t \in Int : t >= Never}
Message == [level : Levels, severity : Severities,
            beep : {"none", "once", "repeat"}, ttl : Timer]
Actions == {"Shutdown", "Restart"}
NoAction == "NoAction"
Keys == {"Up", "Down", "Back", "Enter", "Wake"}

ASSUME ShowsAssumption ==
  /\ Shows \subseteq Message
  /\ \A s \in Shows : s.ttl >= 0
  /\ NoMessage \notin Message
ASSUME HealthAssumption ==
  HealthSeverities \subseteq Severities \ {0}
ASSUME TimesAssumption ==
  /\ LocateTtls \subseteq Nat
  /\ Countdowns \subseteq Nat
  /\ ConfirmTimeout \in Nat
  /\ ResumeAfter \in Nat
  /\ RepeatBeep \in Nat
  /\ CancelledTtl \in Nat

VARIABLES
  mode,        \* which Mode
  action,      \* the Mode's selected / confirmed / scheduled Action
  deadline,    \* Confirm and Countdown: time left
  over,        \* the message showing
  held,        \* pending_over: the message held while the panel is busy
  beepPending, \* beep_pending
  nextRepeat,  \* next_repeat_beep
  alarm,       \* the cached verdict: what the LED and the LCD show
  locate,      \* locate_chassis
  sleeping,
  wantsSleep,  \* schedule_wants_sleep
  grace,       \* awake_override_until
  resumeAt,    \* paging by hand until then (auto_rotate is resumeAt = Never)
  ordered      \* the Action the last handler returned as Effect::RunAction

menu == <<mode, action, deadline>>
messages == <<over, held, beepPending, nextRepeat, alarm>>
night == <<sleeping, wantsSleep, grace>>
vars == <<menu, messages, night, locate, resumeAt, ordered>>

-----------------------------------------------------------------------------
(* Alarms. *)

AlwaysVisible(m) == m.level >= Error

HealthLevel(s) == CASE s \in {1, 2} -> Warn
                    [] s = 3 -> Error
                    [] s = 4 -> Critical
                    [] OTHER -> Info

NoAlarm == [level |-> Info, severity |-> NoPattern]
Alarms == [level : Levels, severity : Severities]

Pushed(m) == IF m = NoMessage THEN NoAlarm
             ELSE [level |-> IF m.severity = NoPattern THEN Info ELSE m.level,
                   severity |-> m.severity]

\* The pushed message first, so that it wins a tie.
MostCritical(m, h) ==
  IF Pushed(m).severity >= h THEN Pushed(m)
  ELSE [level |-> HealthLevel(h), severity |-> h]

\* recompute_status_led, for whatever the health checks find now.
Recompute(m) == \E h \in HealthSeverities : alarm' = MostCritical(m, h)

\* The message changes, the LED and the LCD are not told: AlarmCoversMessage.
RecomputeIf_Slip(changed, m) == UNCHANGED alarm

\* The end of a handler that recomputes always, or only if it changed over.
RecomputeIf(changed, m) ==
  IF changed THEN Recompute(m) ELSE UNCHANGED alarm

\* refresh_stale: a category may be due, its verdict then recomputed.
Refresh(m) == Recompute(m) \/ UNCHANGED alarm

-----------------------------------------------------------------------------
(* Messages.  A Notice is the part of the state show_override works on. *)

Notice == [over |-> over, sleeping |-> sleeping, beep |-> beepPending,
           repeat |-> nextRepeat, changed |-> FALSE]

Accepts(n, m) ==
  /\ n.over = NoMessage \/ m.level >= n.over.level
  /\ n.sleeping => AlwaysVisible(m)

ShowOverride(n, m) ==
  IF ~Accepts(n, m) THEN n
  ELSE [over |-> m,
        sleeping |-> FALSE,
        beep |-> IF m.beep # "none" /\ (n.sleeping => m.level = Critical)
                 THEN "Arrival" ELSE n.beep,
        repeat |-> IF m.beep = "repeat" THEN RepeatBeep ELSE Never,
        changed |-> TRUE]

\* apply_pending_override, which also empties held.
ApplyHeld(n) == IF held = NoMessage THEN n ELSE ShowOverride(n, held)

SetNotice(n) ==
  /\ over' = n.over
  /\ sleeping' = n.sleeping
  /\ beepPending' = n.beep
  /\ nextRepeat' = n.repeat

\* Back to the status screens, showing what was held.
Leave(n) ==
  /\ mode' = "Status"
  /\ action' = NoAction
  /\ deadline' = Never
  /\ held' = NoMessage
  /\ SetNotice(n)

\* The sender's TTL is honoured whatever the level: UrgentStays.
Arrived_Slip(s) == [s EXCEPT !.ttl = IF s.ttl = 0 THEN Never ELSE s.ttl]

Arrived(s) ==
  [s EXCEPT !.ttl = IF AlwaysVisible(s) \/ s.ttl = 0 THEN Never ELSE s.ttl]

Cancelled == [level |-> Info, severity |-> NoPattern, beep |-> "none",
              ttl |-> CancelledTtl]

-----------------------------------------------------------------------------
(* Socket commands. *)

ShowNow(s) ==
  LET n == ShowOverride(Notice, Arrived(s)) IN
  /\ mode = "Status"
  /\ SetNotice(n)
  /\ RecomputeIf(n.changed, n.over)
  /\ ordered' = NoAction
  /\ UNCHANGED <<menu, held, wantsSleep, grace, locate, resumeAt>>

\* The latest message is held, not the most severe: HeldSurvives.
ShowLater_Slip(s) ==
  /\ mode # "Status"
  /\ held' = Arrived(s)
  /\ ordered' = NoAction
  /\ UNCHANGED <<menu, over, beepPending, nextRepeat, alarm, night, locate,
                 resumeAt>>

ShowLater(s) ==
  /\ mode # "Status"
  /\ held' = IF held = NoMessage \/ s.level >= held.level
             THEN Arrived(s) ELSE held
  /\ ordered' = NoAction
  /\ UNCHANGED <<menu, over, beepPending, nextRepeat, alarm, night, locate,
                 resumeAt>>

Show(s) == ShowNow(s) \/ ShowLater(s)

\* CLEAR, or a CLEAR bay=N that names the showing message's bay.
Clear ==
  /\ over' = NoMessage
  /\ Recompute(NoMessage)
  /\ ordered' = NoAction
  /\ UNCHANGED <<menu, held, beepPending, nextRepeat, night, locate, resumeAt>>

StartLocate(ttl) ==
  /\ locate' = IF ttl = 0 THEN Never ELSE ttl
  /\ Recompute(over)
  /\ ordered' = NoAction
  /\ UNCHANGED <<menu, over, held, beepPending, nextRepeat, night, resumeAt>>

StopLocate ==
  /\ locate # NotLocating
  /\ locate' = NotLocating
  /\ Recompute(over)
  /\ ordered' = NoAction
  /\ UNCHANGED <<menu, over, held, beepPending, nextRepeat, night, resumeAt>>

-----------------------------------------------------------------------------
(* Keys. *)

\* The key that wakes the panel is never also acted on.
WakeByKey(k) ==
  /\ sleeping
  /\ grace' = ResumeAfter
  /\ sleeping' = FALSE
  /\ Recompute(over)
  /\ ordered' = NoAction
  /\ UNCHANGED <<menu, over, held, beepPending, nextRepeat, wantsSleep,
                 locate, resumeAt>>

PageKey(k) ==
  /\ mode = "Status" /\ k \in {"Up", "Down"}
  /\ resumeAt' = ResumeAfter
  /\ ordered' = NoAction
  /\ UNCHANGED <<menu, messages, night, locate>>

OpenMenu(k) ==
  /\ mode = "Status" /\ k = "Enter"
  /\ mode' = "ActionMenu"
  /\ action' = "Shutdown"
  /\ ordered' = NoAction
  /\ UNCHANGED <<deadline, messages, night, locate, resumeAt>>

\* Up and Down wrap around the two options.
SelectKey(k) ==
  /\ mode = "ActionMenu" /\ k \in {"Up", "Down"}
  /\ action' = IF action = "Shutdown" THEN "Restart" ELSE "Shutdown"
  /\ ordered' = NoAction
  /\ UNCHANGED <<mode, deadline, messages, night, locate, resumeAt>>

ChooseKey(k) ==
  /\ mode = "ActionMenu" /\ k = "Enter"
  /\ mode' = "Confirm"
  /\ deadline' = ConfirmTimeout
  /\ ordered' = NoAction
  /\ UNCHANGED <<action, messages, night, locate, resumeAt>>

BackKey(k) ==
  LET n == ApplyHeld(Notice) IN
  /\ mode \in {"ActionMenu", "Confirm"} /\ k = "Back"
  /\ Leave(n)
  /\ RecomputeIf(n.changed, n.over)
  /\ ordered' = NoAction
  /\ UNCHANGED <<wantsSleep, grace, locate, resumeAt>>

ConfirmKey(k) ==
  LET n == ApplyHeld(Notice) IN
  /\ mode = "Confirm" /\ k = "Enter"
  /\ Leave(n)
  /\ RecomputeIf(n.changed, n.over)
  /\ ordered' = action
  /\ UNCHANGED <<wantsSleep, grace, locate, resumeAt>>

\* Any key at all.
CancelKey(k) ==
  LET n == ShowOverride(ApplyHeld(Notice), Cancelled) IN
  /\ mode = "Countdown"
  /\ Leave(n)
  /\ RecomputeIf(n.changed, n.over)
  /\ ordered' = NoAction
  /\ UNCHANGED <<wantsSleep, grace, locate, resumeAt>>

AwakeKey(k) ==
  \/ PageKey(k) \/ OpenMenu(k) \/ SelectKey(k) \/ ChooseKey(k)
  \/ BackKey(k) \/ ConfirmKey(k) \/ CancelKey(k)

HandleKey(k) == WakeByKey(k) \/ (~sleeping /\ AwakeKey(k))

-----------------------------------------------------------------------------
(* The schedules. *)

\* The rule that came due last wins: KeepsPowerGate.
KeepCountdown_Slip(a) ==
  /\ mode = "Countdown"
  /\ action' = a
  /\ ordered' = NoAction
  /\ UNCHANGED <<mode, deadline, messages, night, locate, resumeAt>>

\* start_countdown: a running countdown is kept, except that a shutdown
\* replaces a restart; anything else gives way, and the panel wakes.
KeepCountdown(a) ==
  /\ mode = "Countdown"
  /\ action' = IF a = "Shutdown" THEN a ELSE action
  /\ ordered' = NoAction
  /\ UNCHANGED <<mode, deadline, messages, night, locate, resumeAt>>

StartCountdown(a, secs) ==
  /\ mode # "Countdown"
  /\ mode' = "Countdown"
  /\ action' = a
  /\ deadline' = secs
  /\ sleeping' = FALSE
  /\ RecomputeIf(sleeping, over)
  /\ ordered' = NoAction
  /\ UNCHANGED <<over, held, beepPending, nextRepeat, wantsSleep, grace,
                 locate, resumeAt>>

SetScheduleSleepWanted(wanted) ==
  /\ wantsSleep' = wanted
  /\ ordered' = NoAction
  /\ UNCHANGED <<menu, messages, sleeping, grace, locate, resumeAt>>

-----------------------------------------------------------------------------
(* tick.  Every tick first ends a locate whose time is up and a grace      *)
(* period that is over; then one of four outcomes.                         *)

TickBegins ==
  /\ locate' = IF locate = 0 THEN NotLocating ELSE locate
  /\ grace' = IF grace = 0 THEN Never ELSE grace
  /\ UNCHANGED wantsSleep

\* Asleep in the middle of the menu: AsleepIsIdle.
FallsAsleepMidMenu_Slip == /\ wantsSleep /\ ~sleeping
                           /\ grace <= 0
                           /\ over = NoMessage

\* Not while a repeat is armed, which a CLEAR leaves it: NightTurns.
FallsAsleepUnarmed_Slip == /\ wantsSleep /\ ~sleeping
                           /\ grace <= 0
                           /\ over = NoMessage
                           /\ mode = "Status"
                           /\ nextRepeat = Never

FallsAsleep == /\ wantsSleep /\ ~sleeping
               /\ grace <= 0
               /\ over = NoMessage
               /\ mode = "Status"

\* A locate under way keeps the panel asleep: NightTurns.
TickWakes_Slip ==
  /\ TickBegins
  /\ sleeping /\ ~wantsSleep /\ locate = NotLocating
  /\ sleeping' = FALSE
  /\ Recompute(over)
  /\ ordered' = NoAction
  /\ UNCHANGED <<menu, over, held, beepPending, nextRepeat, resumeAt>>

TickWakes ==
  /\ TickBegins
  /\ sleeping /\ ~wantsSleep
  /\ sleeping' = FALSE
  /\ Recompute(over)
  /\ ordered' = NoAction
  /\ UNCHANGED <<menu, over, held, beepPending, nextRepeat, resumeAt>>

TickAsleep ==
  /\ TickBegins
  /\ FallsAsleep \/ (sleeping /\ wantsSleep)
  /\ sleeping' = TRUE
  /\ IF locate = 0 THEN Recompute(over) ELSE Refresh(over)
  /\ ordered' = NoAction
  /\ UNCHANGED <<menu, over, held, beepPending, nextRepeat, resumeAt>>

\* The countdown is over: checked before anything that can block.
TickRuns ==
  LET n == ApplyHeld(Notice) IN
  /\ TickBegins
  /\ ~sleeping
  /\ mode = "Countdown" /\ deadline = 0
  /\ Leave(n)
  /\ RecomputeIf(n.changed \/ locate = 0, n.over)
  /\ ordered' = action
  /\ UNCHANGED resumeAt

Expired == over # NoMessage /\ over.ttl = 0

\* Notice once a message whose time is up has gone, and a repeat is due.
Refreshed ==
  LET shown == IF Expired THEN NoMessage ELSE over
      due == nextRepeat = 0 /\ shown # NoMessage /\ shown.beep = "repeat"
  IN  [over |-> shown,
       sleeping |-> FALSE,
       beep |-> IF due /\ beepPending = "None" THEN "Repeat" ELSE beepPending,
       repeat |-> IF due THEN RepeatBeep ELSE nextRepeat,
       changed |-> Expired]

\* Not while a message is waiting behind the screen: BusyEnds.
ConfirmTimedOut_Slip == mode = "Confirm" /\ deadline = 0 /\ held = NoMessage

ConfirmTimedOut == mode = "Confirm" /\ deadline = 0

TickAwake ==
  LET n == IF ConfirmTimedOut THEN ApplyHeld(Refreshed) ELSE Refreshed IN
  /\ TickBegins
  /\ ~sleeping /\ ~FallsAsleep
  /\ ~(mode = "Countdown" /\ deadline = 0)
  /\ IF ConfirmTimedOut THEN Leave(n)
                        ELSE SetNotice(n) /\ UNCHANGED <<menu, held>>
  /\ IF n.changed \/ locate = 0 THEN Recompute(n.over) ELSE Refresh(n.over)
  /\ resumeAt' = IF resumeAt = 0 THEN Never ELSE resumeAt
  /\ ordered' = NoAction

Tick == TickWakes \/ TickAsleep \/ TickRuns \/ TickAwake

\* The loop takes the beep right after the tick (take_beep).
TakeBeep ==
  /\ beepPending # "None"
  /\ beepPending' = "None"
  /\ ordered' = NoAction
  /\ UNCHANGED <<menu, over, held, nextRepeat, alarm, night, locate, resumeAt>>

-----------------------------------------------------------------------------
(* render: what the LCD shows.  Paging by hand hides any alarm that is not  *)
(* critical.                                                               *)

\* A peek hides a critical alarm as well: CriticalIsShown.
Shown_Slip ==
  IF mode # "Status" THEN mode
  ELSE IF locate # NotLocating THEN "locate"
  ELSE IF sleeping THEN "blank"
  ELSE IF alarm.severity # NoPattern /\ resumeAt = Never THEN "alarm"
  ELSE IF alarm.severity = NoPattern /\ over # NoMessage THEN "message"
  ELSE "screen"

Shown ==
  IF mode # "Status" THEN mode
  ELSE IF locate # NotLocating THEN "locate"
  ELSE IF sleeping THEN "blank"
  ELSE IF alarm.severity # NoPattern
          /\ (resumeAt = Never \/ alarm.level = Critical) THEN "alarm"
  ELSE IF alarm.severity = NoPattern /\ over # NoMessage THEN "message"
  ELSE "screen"

-----------------------------------------------------------------------------
(* Time. *)

Less(t) == IF t > 0 THEN t - 1 ELSE t
Older(m) == IF m = NoMessage THEN m ELSE [m EXCEPT !.ttl = Less(@)]

Elapse ==
  /\ deadline' = Less(deadline)
  /\ over' = Older(over)
  /\ held' = Older(held)
  /\ nextRepeat' = Less(nextRepeat)
  /\ locate' = Less(locate)
  /\ grace' = Less(grace)
  /\ resumeAt' = Less(resumeAt)
  /\ ordered' = NoAction
  /\ UNCHANGED <<mode, action, beepPending, alarm, sleeping, wantsSleep>>

-----------------------------------------------------------------------------

\* AppState::new, then the first refresh_all.
Init ==
  /\ mode = "Status" /\ action = NoAction /\ deadline = Never
  /\ over = NoMessage /\ held = NoMessage
  /\ beepPending = "None" /\ nextRepeat = Never
  /\ \E h \in HealthSeverities : alarm = MostCritical(NoMessage, h)
  /\ locate = NotLocating
  /\ sleeping = FALSE /\ wantsSleep = FALSE /\ grace = Never
  /\ resumeAt = Never
  /\ ordered = NoAction

Next ==
  \/ \E s \in Shows : Show(s)
  \/ Clear
  \/ \E ttl \in LocateTtls : StartLocate(ttl)
  \/ StopLocate
  \/ \E k \in Keys : HandleKey(k)
  \/ \E a \in Actions : KeepCountdown(a)
  \/ \E a \in Actions, secs \in Countdowns : StartCountdown(a, secs)
  \/ \E wanted \in BOOLEAN : SetScheduleSleepWanted(wanted)
  \/ Tick
  \/ TakeBeep
  \/ Elapse

Spec == Init /\ [][Next]_vars

\* The event loop passes at least every POLL_INTERVAL_MS, and clocks run.
FairSpec == Spec /\ WF_vars(Tick) /\ WF_vars(TakeBeep) /\ WF_vars(Elapse)
-----------------------------------------------------------------------------
(* Properties. *)

TypeOK ==
  /\ mode \in {"Status", "ActionMenu", "Confirm", "Countdown"}
  /\ action \in Actions \cup {NoAction}
  /\ deadline \in Timer
  /\ over \in Message \cup {NoMessage}
  /\ held \in Message \cup {NoMessage}
  /\ beepPending \in {"None", "Arrival", "Repeat"}
  /\ nextRepeat \in Timer
  /\ alarm \in Alarms
  /\ locate \in Timer \cup {NotLocating}
  /\ sleeping \in BOOLEAN /\ wantsSleep \in BOOLEAN
  /\ grace \in Timer
  /\ resumeAt \in Timer
  /\ ordered \in Actions \cup {NoAction}

\* An asleep panel has nothing to show and nobody at it: night mode never
\* hides a message, a menu, a running countdown or a message held behind one.
AsleepIsIdle ==
  sleeping => mode = "Status" /\ over = NoMessage /\ held = NoMessage

\* A message is held only while the panel is busy, so none is left behind
\* when it gets back to the status screens, whichever way it does.
HeldOnlyWhileBusy == mode = "Status" => held = NoMessage

\* A beep=repeat message that is showing always has its next beep coming,
\* however it came to be showing.
RepeatArmed ==
  over # NoMessage /\ over.beep = "repeat" => nextRepeat # Never

\* error and critical messages have no end of their own, held or showing.
UrgentHasNoEnd ==
  \A m \in {over, held} \ {NoMessage} : AlwaysVisible(m) => m.ttl = Never

\* The cached verdict (LED and LCD) is never less severe than the message
\* showing, and is the message itself when nothing outranks it.
AlarmCoversMessage ==
  over # NoMessage =>
    /\ alarm.severity >= over.severity
    /\ alarm.severity = over.severity => alarm = Pushed(over)

\* A critical message in the look of its level is on the LCD whenever the
\* panel is at its status screens, paged by hand or not, except behind a
\* chassis locate.
CriticalIsShown ==
  over # NoMessage /\ over.level = Critical /\ over.severity = 4
    => Shown \in {"alarm", "locate", "ActionMenu", "Confirm", "Countdown"}
       /\ (Shown = "alarm" => alarm = Pushed(over))

\* An error or critical message that is showing goes only by a CLEAR or for
\* one at least as severe.
UrgentStays ==
  [][over # NoMessage /\ AlwaysVisible(over) /\ over' # over
       => \/ over' # NoMessage /\ over'.level >= over.level
          \/ Clear]_vars

\* The held message is only ever replaced by one at least as severe, and
\* when the panel is free again it, or something at least as severe, shows.
HeldSurvives ==
  [][held # NoMessage =>
       \/ held' # NoMessage /\ held'.level >= held.level
       \/ over' # NoMessage /\ over'.level >= held.level]_vars

\* Powering off and restarting: the mode seen as PowerGate's stages.
Stage == CASE mode = "Confirm" -> "asking"
           [] mode = "Countdown" -> "announced"
           [] OTHER -> "idle"
Target == IF mode \in {"Confirm", "Countdown"} THEN action ELSE NoAction

Gate == INSTANCE PowerGate WITH
  stage <- Stage, target <- Target, left <- deadline, ordered <- ordered

\* The panel orders a power action only as PowerGate allows it.
KeepsPowerGate == Gate!GateSpec

\* A confirm screen or a countdown always comes to an end.
BusyEnds == mode \in {"Confirm", "Countdown"} ~> mode = "Status"

\* Whatever arrived in the night, the panel is awake once the schedule says
\* so, and however often a key wakes it, it goes back to sleep while the
\* schedule wants that and nothing is showing.
NightTurns ==
  /\ <>[]~wantsSleep => <>[]~sleeping
  /\ <>[](wantsSleep /\ mode = "Status" /\ over = NoMessage) => []<>sleeping
=============================================================================
