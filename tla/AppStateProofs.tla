--------------------------- MODULE AppStateProofs ---------------------------
(***************************************************************************)
(* Proofs about AppState and, for the beeps its messages are owed, about   *)
(* AlertBeeps, for every set of requests, every timing constant and every  *)
(* result of the health checks.                                            *)
(***************************************************************************)
EXTENDS AlertBeeps, SequenceTheorems, TLAPS

-----------------------------------------------------------------------------
(* The inductive invariant. *)

\* What action and deadline are worth in each mode.
ModeShape ==
  /\ mode = "Status" => action = NoAction /\ deadline = Never
  /\ mode = "ActionMenu" => action \in Actions /\ deadline = Never
  /\ mode \in {"Confirm", "Countdown"} => action \in Actions /\ deadline \in Nat

Covers(m, a) ==
  m # NoMessage => /\ a.severity >= m.severity
                   /\ a.severity = m.severity => a = Pushed(m)

Endless(m) == m # NoMessage /\ AlwaysVisible(m) => m.ttl = Never

IInv ==
  /\ TypeOK
  /\ ModeShape
  /\ AsleepIsIdle
  /\ HeldOnlyWhileBusy
  /\ RepeatArmed
  /\ Endless(over) /\ Endless(held)
  /\ Covers(over, alarm)

-----------------------------------------------------------------------------
(* Facts about the operators. *)

MaybeMessage == Message \cup {NoMessage}

\* A notice is well formed when it satisfies the invariant's parts about the
\* message showing.
NoticeOK(n) ==
  /\ n \in [over : MaybeMessage, sleeping : BOOLEAN,
            beep : {"None", "Arrival", "Repeat"}, repeat : Timer,
            changed : BOOLEAN]
  /\ n.sleeping => n.over = NoMessage
  /\ n.over # NoMessage /\ n.over.beep = "repeat" => n.repeat # Never
  /\ Endless(n.over)

USE DEF Never, NotLocating, NoPattern, NoAction

LEMMA NoMessageFact == NoMessage \notin Message
  BY ShowsAssumption

\* show_override keeps a notice well formed, never puts the panel to sleep,
\* and says so whenever it changes the message.
LEMMA ShowOverrideFact ==
  ASSUME NEW n, NoticeOK(n), NEW m \in Message, Endless(m)
  PROVE  /\ NoticeOK(ShowOverride(n, m))
         /\ ShowOverride(n, m).sleeping => n.sleeping
         /\ ShowOverride(n, m).changed \/ ShowOverride(n, m) = n
<1>1. CASE ~Accepts(n, m)
  BY <1>1 DEF ShowOverride
<1>2. CASE Accepts(n, m)
  <2> DEFINE beep == IF m.beep # "none" /\ (n.sleeping => m.level = Critical)
                     THEN "Arrival" ELSE n.beep
             repeat == IF m.beep = "repeat" THEN RepeatBeep ELSE Never
  <2>1. ShowOverride(n, m) = [over |-> m, sleeping |-> FALSE, beep |-> beep,
                              repeat |-> repeat, changed |-> TRUE]
    BY <1>2 DEF ShowOverride
  <2>2. beep \in {"None", "Arrival", "Repeat"}
    BY DEF NoticeOK
  <2>3. repeat \in Timer /\ (m.beep = "repeat" => repeat # Never)
    BY TimesAssumption DEF Timer
  <2> HIDE DEF beep, repeat
  <2>4. QED
    BY <2>1, <2>2, <2>3 DEF NoticeOK, MaybeMessage
<1>3. QED
  BY <1>1, <1>2

\* Recomputing the verdict makes it cover the message.
LEMMA RecomputeFact ==
  ASSUME NEW m \in MaybeMessage, Recompute(m)
  PROVE  alarm' \in Alarms /\ Covers(m, alarm')
<1>1. PICK h \in HealthSeverities : alarm' = MostCritical(m, h)
  BY DEF Recompute
<1>2. h \in Severities /\ HealthLevel(h) \in Levels
  BY HealthAssumption
     DEF Severities, HealthLevel, Levels, Info, Warn, Error, Critical
<1>3. Pushed(m) \in Alarms /\ (m # NoMessage => Pushed(m).severity = m.severity)
  BY DEF Pushed, Alarms, NoAlarm, MaybeMessage, Message, Levels, Severities,
         Info, Critical
<1>4. CASE Pushed(m).severity >= h
  <2>1. alarm' = Pushed(m)
    BY <1>1, <1>4 DEF MostCritical
  <2>2. QED
    BY <2>1, <1>3 DEF Covers, MaybeMessage, Message, Severities
<1>5. CASE ~(Pushed(m).severity >= h)
  <2>1. alarm' = [level |-> HealthLevel(h), severity |-> h]
    BY <1>1, <1>5 DEF MostCritical
  <2>2. QED
    BY <2>1, <1>2, <1>3, <1>5 DEF Covers, Alarms, MaybeMessage, Message, Severities
<1>6. QED
  BY <1>4, <1>5

\* The current state as a notice, before and after a tick's expiry and beep.
LEMMA NoticeFact ==
  ASSUME IInv
  PROVE  NoticeOK(Notice) /\ (~sleeping => NoticeOK(Refreshed))
<1>1. NoticeOK(Notice)
  BY DEF IInv, TypeOK, AsleepIsIdle, RepeatArmed, NoticeOK, Notice, MaybeMessage
<1>2. ASSUME ~sleeping PROVE NoticeOK(Refreshed)
  <2> DEFINE shown == IF Expired THEN NoMessage ELSE over
             due == nextRepeat = 0 /\ shown # NoMessage /\ shown.beep = "repeat"
             beep == IF due /\ beepPending = "None" THEN "Repeat"
                                                   ELSE beepPending
             repeat == IF due THEN RepeatBeep ELSE nextRepeat
  <2>1. shown \in MaybeMessage /\ Endless(shown)
    BY DEF IInv, TypeOK, MaybeMessage, Endless
  <2>2. beep \in {"None", "Arrival", "Repeat"}
    BY DEF IInv, TypeOK
  <2>3. repeat \in Timer
    BY TimesAssumption DEF IInv, TypeOK, Timer
  <2>4. shown # NoMessage /\ shown.beep = "repeat" => repeat # Never
    BY TimesAssumption DEF IInv, RepeatArmed
  <2>5. Expired \in BOOLEAN
    BY DEF Expired
  <2>6. Refreshed = [over |-> shown, sleeping |-> FALSE, beep |-> beep,
                     repeat |-> repeat, changed |-> Expired]
    BY DEF Refreshed
  <2> HIDE DEF shown, beep, repeat
  <2>7. QED
    BY <2>1, <2>2, <2>3, <2>4, <2>5, <2>6 DEF NoticeOK
<1>3. QED
  BY <1>1, <1>2

\* What was held, once shown, leaves the notice well formed.
LEMMA ApplyHeldFact ==
  ASSUME IInv, NEW n, NoticeOK(n)
  PROVE  /\ NoticeOK(ApplyHeld(n))
         /\ ApplyHeld(n).sleeping => n.sleeping
         /\ ApplyHeld(n).changed \/ ApplyHeld(n) = n
<1>1. CASE held = NoMessage
  BY <1>1 DEF ApplyHeld
<1>2. CASE held # NoMessage
  <2>1. held \in Message /\ Endless(held)
    BY <1>2 DEF IInv, TypeOK
  <2>2. QED
    BY <1>2, <2>1, ShowOverrideFact DEF ApplyHeld
<1>3. QED
  BY <1>1, <1>2

LEMMA CancelledFact == Cancelled \in Message /\ Endless(Cancelled)
  BY TimesAssumption
     DEF Cancelled, Message, Levels, Severities, Info, Error, Critical, Timer,
         Endless, AlwaysVisible

LEMMA ArrivedFact ==
  ASSUME NEW s \in Shows
  PROVE  Arrived(s) \in Message /\ Endless(Arrived(s))
         /\ Arrived(s).level = s.level
<1>1. s \in Message
  BY ShowsAssumption
<1> DEFINE t == IF AlwaysVisible(s) \/ s.ttl = 0 THEN Never ELSE s.ttl
<1>2. t \in Timer
  BY <1>1 DEF Message, Timer
<1>3. Arrived(s) = [s EXCEPT !.ttl = t]
  BY DEF Arrived
<1>4. AlwaysVisible(s) => t = Never
  OBVIOUS
<1> HIDE DEF t
<1>5. QED
  BY <1>1, <1>2, <1>3, <1>4 DEF Message, Endless, AlwaysVisible

\* Taking over a well-formed notice, and recomputing the verdict if it
\* changed the message, keeps the invariant's parts about messages.
LEMMA SetNoticeFact ==
  ASSUME IInv, NEW n, NoticeOK(n), SetNotice(n),
         n.over = over \/ n.changed,
         RecomputeIf(n.changed, n.over) \/ Recompute(n.over)
           \/ (n.over = over /\ UNCHANGED alarm)
  PROVE  /\ over' \in MaybeMessage /\ sleeping' \in BOOLEAN
         /\ beepPending' \in {"None", "Arrival", "Repeat"}
         /\ nextRepeat' \in Timer /\ alarm' \in Alarms
         /\ sleeping' => over' = NoMessage
         /\ RepeatArmed' /\ Endless(over') /\ Covers(over', alarm')
<1>1. over' = n.over /\ sleeping' = n.sleeping /\ beepPending' = n.beep
      /\ nextRepeat' = n.repeat
  BY DEF SetNotice
<1>2. alarm' \in Alarms /\ Covers(n.over, alarm')
  <2>1. n.over \in MaybeMessage
    BY DEF NoticeOK
  <2>2. CASE Recompute(n.over)
    BY <2>1, <2>2, RecomputeFact
  <2>3. CASE n.over = over /\ UNCHANGED alarm
    BY <2>3 DEF IInv, TypeOK, Covers, Pushed
  <2>4. QED
    BY <2>2, <2>3 DEF RecomputeIf
<1>3. QED
  BY <1>1, <1>2 DEF NoticeOK, RepeatArmed, Endless

-----------------------------------------------------------------------------
(* The invariant holds initially, and every handler keeps it. *)

LEMMA InitIInv == Init => IInv
<1> SUFFICES ASSUME Init PROVE IInv
  OBVIOUS
<1>1. PICK h \in HealthSeverities : alarm = MostCritical(NoMessage, h)
  BY DEF Init
<1>2. alarm \in Alarms
  <2>1. h \in Severities /\ HealthLevel(h) \in Levels
    BY HealthAssumption
       DEF Severities, HealthLevel, Levels, Info, Warn, Error, Critical
  <2>2. QED
    BY <1>1, <2>1 DEF MostCritical, Pushed, NoAlarm, Alarms, Levels, Severities,
                      Info, Critical
<1>3. TypeOK
  <2>1. /\ deadline = Never /\ nextRepeat = Never /\ grace = Never
        /\ resumeAt = Never /\ locate = NotLocating
        /\ ordered = NoAction /\ action = NoAction /\ mode = "Status"
        /\ over = NoMessage /\ held = NoMessage /\ beepPending = "None"
        /\ sleeping \in BOOLEAN /\ wantsSleep \in BOOLEAN
    BY DEF Init
  <2>2. Never \in Timer
    BY DEF Timer
  <2>3. QED
    BY <1>2, <2>1, <2>2 DEF TypeOK
<1>4. over = NoMessage /\ held = NoMessage
  BY DEF Init
<1>5. AsleepIsIdle /\ HeldOnlyWhileBusy /\ ModeShape
  BY DEF Init, AsleepIsIdle, HeldOnlyWhileBusy, ModeShape
<1>6. QED
  BY <1>3, <1>4, <1>5 DEF IInv, RepeatArmed, Endless, Covers

\* Socket commands.
LEMMA ShowStep ==
  ASSUME IInv, NEW s \in Shows, Show(s)
  PROVE  IInv'
<1>1. CASE ShowNow(s)
  <2> DEFINE n == ShowOverride(Notice, Arrived(s))
  <2>1. NoticeOK(n) /\ (n.changed \/ n = Notice) /\ (n.sleeping => sleeping)
    BY NoticeFact, ArrivedFact, ShowOverrideFact DEF Notice
  <2>2. n.over = over \/ n.changed
    BY <2>1 DEF Notice
  <2>3. SetNotice(n) /\ RecomputeIf(n.changed, n.over)
    BY <1>1 DEF ShowNow
  <2> HIDE DEF n
  <2>4. /\ over' \in MaybeMessage /\ sleeping' \in BOOLEAN
        /\ beepPending' \in {"None", "Arrival", "Repeat"}
        /\ nextRepeat' \in Timer /\ alarm' \in Alarms
        /\ sleeping' => over' = NoMessage
        /\ RepeatArmed' /\ Endless(over') /\ Covers(over', alarm')
    BY <2>1, <2>2, <2>3, SetNoticeFact
  <2>5. QED
    BY <1>1, <2>4
       DEF ShowNow, IInv, TypeOK, ModeShape, AsleepIsIdle, HeldOnlyWhileBusy,
           MaybeMessage, menu
<1>2. CASE ShowLater(s)
  <2>1. held' \in MaybeMessage /\ Endless(held')
    BY <1>2, ArrivedFact DEF ShowLater, IInv, TypeOK, MaybeMessage
  <2>2. QED
    BY <1>2, <2>1
       DEF ShowLater, IInv, TypeOK, ModeShape, AsleepIsIdle, HeldOnlyWhileBusy,
           RepeatArmed, MaybeMessage, menu, night
<1>3. QED
  BY <1>1, <1>2 DEF Show

LEMMA ClearStep == ASSUME IInv, Clear PROVE IInv'
<1>1. alarm' \in Alarms
  BY RecomputeFact DEF Clear, MaybeMessage
<1>2. QED
  BY <1>1 DEF Clear, IInv, TypeOK, ModeShape, AsleepIsIdle, HeldOnlyWhileBusy,
              RepeatArmed, Endless, Covers, menu, night

LEMMA LocateStep ==
  ASSUME IInv, StopLocate \/ \E ttl \in LocateTtls : StartLocate(ttl)
  PROVE  IInv'
<1>1. Recompute(over)
  BY DEF StopLocate, StartLocate
<1>2. alarm' \in Alarms /\ Covers(over, alarm')
  BY <1>1, RecomputeFact DEF IInv, TypeOK, MaybeMessage
<1>3. locate' \in Timer \cup {NotLocating}
  BY TimesAssumption DEF StopLocate, StartLocate, Timer
<1>4. UNCHANGED <<menu, over, held, beepPending, nextRepeat, night, resumeAt>>
      /\ ordered' = NoAction
  BY DEF StopLocate, StartLocate
<1>5. QED
  BY <1>2, <1>3, <1>4
     DEF IInv, TypeOK, ModeShape, AsleepIsIdle, HeldOnlyWhileBusy, RepeatArmed,
         menu, night


\* Keys.  Back, a confirming Enter and any key of a countdown leave for the
\* status screens, as a countdown that is over and a confirm screen that
\* timed out do.
LEMMA LeaveStep ==
  ASSUME IInv, NEW n, NoticeOK(n), n.changed \/ n.over = over, ~n.sleeping,
         Leave(n),
         Recompute(n.over) \/ (n.over = over /\ UNCHANGED alarm),
         ordered' \in Actions \cup {NoAction},
         wantsSleep' \in BOOLEAN, grace' \in Timer, resumeAt' \in Timer,
         locate' \in Timer \cup {NotLocating}
  PROVE  IInv'
<1>1. /\ over' \in MaybeMessage /\ sleeping' \in BOOLEAN
      /\ beepPending' \in {"None", "Arrival", "Repeat"}
      /\ nextRepeat' \in Timer /\ alarm' \in Alarms
      /\ RepeatArmed' /\ Endless(over') /\ Covers(over', alarm')
  BY SetNoticeFact DEF Leave
<1>2. mode' = "Status" /\ action' = NoAction /\ deadline' = Never
      /\ held' = NoMessage /\ ~sleeping'
  BY DEF Leave, SetNotice
<1>3. QED
  BY <1>1, <1>2
     DEF IInv, TypeOK, ModeShape, AsleepIsIdle, HeldOnlyWhileBusy, MaybeMessage,
         Endless, Timer

LEMMA KeyStep ==
  ASSUME IInv, NEW k \in Keys, HandleKey(k)
  PROVE  IInv'
<1> DEFINE n == ApplyHeld(Notice)
           c == ShowOverride(n, Cancelled)
<1>1. NoticeOK(n) /\ (n.sleeping => sleeping) /\ (n.changed \/ n.over = over)
  BY NoticeFact, ApplyHeldFact DEF Notice
<1>2. NoticeOK(c) /\ (c.sleeping => sleeping) /\ (c.changed \/ c.over = over)
  <2>1. NoticeOK(c) /\ (c.sleeping => n.sleeping) /\ (c.changed \/ c = n)
    BY <1>1, CancelledFact, ShowOverrideFact
  <2>2. QED
    BY <1>1, <2>1
<1> HIDE DEF n, c
<1>3. /\ locate \in Timer \cup {NotLocating} /\ wantsSleep \in BOOLEAN
      /\ grace \in Timer /\ resumeAt \in Timer
  BY DEF IInv, TypeOK
<1>4. CASE WakeByKey(k)
  <2>1. alarm' \in Alarms /\ Covers(over, alarm')
    BY <1>4, RecomputeFact DEF WakeByKey, IInv, TypeOK, MaybeMessage
  <2>2. grace' \in Timer
    BY <1>4, TimesAssumption DEF WakeByKey, Timer
  <2>3. QED
    BY <1>4, <2>1, <2>2
       DEF WakeByKey, IInv, TypeOK, ModeShape, AsleepIsIdle, HeldOnlyWhileBusy,
           RepeatArmed, menu
<1>5. CASE ~sleeping /\ PageKey(k)
  <2>1. resumeAt' \in Timer
    BY <1>5, TimesAssumption DEF PageKey, Timer
  <2>2. QED
    BY <1>5, <2>1
       DEF PageKey, IInv, TypeOK, ModeShape, AsleepIsIdle, HeldOnlyWhileBusy,
           RepeatArmed, menu, messages, night
<1>6. CASE ~sleeping /\ (OpenMenu(k) \/ SelectKey(k) \/ ChooseKey(k))
  <2>1. /\ mode' \in {"ActionMenu", "Confirm"} /\ action' \in Actions
        /\ mode' = "ActionMenu" => deadline' = Never
        /\ mode' = "Confirm" => deadline' \in Nat
        /\ deadline' \in Timer
    BY <1>6, TimesAssumption
       DEF OpenMenu, SelectKey, ChooseKey, IInv, ModeShape, Actions, Timer
  <2>2. UNCHANGED <<messages, night, locate, resumeAt>> /\ ordered' = NoAction
    BY <1>6 DEF OpenMenu, SelectKey, ChooseKey
  <2>3. QED
    BY <1>6, <2>1, <2>2
       DEF IInv, TypeOK, ModeShape, AsleepIsIdle, HeldOnlyWhileBusy, RepeatArmed,
           messages, night
<1>7. CASE ~sleeping /\ BackKey(k)
  <2>1. Leave(n) /\ RecomputeIf(n.changed, n.over) /\ ordered' = NoAction
        /\ UNCHANGED <<wantsSleep, grace, locate, resumeAt>>
    BY <1>7 DEF BackKey, n
  <2>2. QED
    BY <1>1, <1>3, <1>7, <2>1, LeaveStep DEF RecomputeIf
<1>8. CASE ~sleeping /\ ConfirmKey(k)
  <2>1. Leave(n) /\ RecomputeIf(n.changed, n.over) /\ ordered' = action
        /\ UNCHANGED <<wantsSleep, grace, locate, resumeAt>>
    BY <1>8 DEF ConfirmKey, n
  <2>2. action \in Actions \cup {NoAction}
    BY DEF IInv, TypeOK
  <2>3. QED
    BY <1>1, <1>3, <1>8, <2>1, <2>2, LeaveStep DEF RecomputeIf
<1>9. CASE ~sleeping /\ CancelKey(k)
  <2>1. Leave(c) /\ RecomputeIf(c.changed, c.over) /\ ordered' = NoAction
        /\ UNCHANGED <<wantsSleep, grace, locate, resumeAt>>
    BY <1>9 DEF CancelKey, c, n
  <2>2. QED
    BY <1>2, <1>3, <1>9, <2>1, LeaveStep DEF RecomputeIf
<1>10. QED
  BY <1>4, <1>5, <1>6, <1>7, <1>8, <1>9 DEF HandleKey, AwakeKey


\* The schedules, and the beep being taken.
LEMMA ScheduleStep ==
  ASSUME IInv,
         \/ \E a \in Actions : KeepCountdown(a)
         \/ \E a \in Actions, secs \in Countdowns : StartCountdown(a, secs)
         \/ \E wanted \in BOOLEAN : SetScheduleSleepWanted(wanted)
         \/ TakeBeep
  PROVE  IInv'
<1>1. ASSUME NEW a \in Actions, KeepCountdown(a) PROVE IInv'
  BY <1>1 DEF KeepCountdown, IInv, TypeOK, ModeShape, AsleepIsIdle,
              HeldOnlyWhileBusy, RepeatArmed, messages, night, Actions
<1>2. ASSUME NEW a \in Actions, NEW secs \in Countdowns, StartCountdown(a, secs)
      PROVE  IInv'
  <2>1. secs \in Nat /\ secs \in Timer
    BY TimesAssumption DEF Timer
  <2>2. alarm' \in Alarms /\ Covers(over, alarm')
    BY <1>2, RecomputeFact
       DEF StartCountdown, RecomputeIf, IInv, TypeOK, MaybeMessage
  <2>3. QED
    BY <1>2, <2>1, <2>2
       DEF StartCountdown, IInv, TypeOK, ModeShape, AsleepIsIdle,
           HeldOnlyWhileBusy, RepeatArmed
<1>3. ASSUME NEW wanted \in BOOLEAN, SetScheduleSleepWanted(wanted) PROVE IInv'
  BY <1>3 DEF SetScheduleSleepWanted, IInv, TypeOK, ModeShape, AsleepIsIdle,
              HeldOnlyWhileBusy, RepeatArmed, messages, menu
<1>4. CASE TakeBeep
  BY <1>4 DEF TakeBeep, IInv, TypeOK, ModeShape, AsleepIsIdle,
              HeldOnlyWhileBusy, RepeatArmed, menu, night
<1>5. QED
  BY <1>1, <1>2, <1>3, <1>4

LEMMA TickStep == ASSUME IInv, Tick PROVE IInv'
<1>1. /\ locate' \in Timer \cup {NotLocating} /\ grace' \in Timer
      /\ wantsSleep' \in BOOLEAN
  BY DEF Tick, TickWakes, TickAsleep, TickRuns, TickAwake, TickBegins, IInv,
         TypeOK, Timer
<1>2. over \in MaybeMessage /\ resumeAt \in Timer
  BY DEF IInv, TypeOK, MaybeMessage
<1>3. CASE TickWakes \/ TickAsleep
  <2>1. alarm' \in Alarms /\ Covers(over, alarm')
    BY <1>2, <1>3, RecomputeFact DEF TickWakes, TickAsleep, Refresh, IInv, TypeOK
  <2>2. sleeping' => mode = "Status" /\ over = NoMessage
    BY <1>3 DEF TickWakes, TickAsleep, FallsAsleep, IInv, AsleepIsIdle
  <2>3. UNCHANGED <<menu, over, held, beepPending, nextRepeat, resumeAt>>
        /\ ordered' = NoAction /\ sleeping' \in BOOLEAN
    BY <1>3 DEF TickWakes, TickAsleep
  <2>4. QED
    BY <1>1, <2>1, <2>2, <2>3
       DEF IInv, TypeOK, ModeShape, AsleepIsIdle, HeldOnlyWhileBusy, RepeatArmed,
           menu
<1>4. CASE TickRuns
  <2> DEFINE n == ApplyHeld(Notice)
  <2>1. NoticeOK(n) /\ (n.changed \/ n.over = over) /\ (n.sleeping => sleeping)
    BY NoticeFact, ApplyHeldFact DEF Notice
  <2>2. Leave(n) /\ RecomputeIf(n.changed \/ locate = 0, n.over)
        /\ ordered' = action /\ UNCHANGED resumeAt /\ ~sleeping
    BY <1>4 DEF TickRuns
  <2>3. action \in Actions \cup {NoAction}
    BY DEF IInv, TypeOK
  <2> HIDE DEF n
  <2>4. QED
    BY <1>1, <1>2, <2>1, <2>2, <2>3, LeaveStep DEF RecomputeIf
<1>5. CASE TickAwake
  <2> DEFINE n == IF ConfirmTimedOut THEN ApplyHeld(Refreshed) ELSE Refreshed
  <2>1. ~sleeping /\ NoticeOK(Refreshed)
    BY <1>5, NoticeFact DEF TickAwake
  <2>2. Refreshed.over = over \/ Refreshed.changed
    BY DEF Refreshed
  <2>3. ~Refreshed.sleeping
    BY DEF Refreshed
  <2>4. NoticeOK(n) /\ ~n.sleeping /\ (n.changed \/ n.over = over)
    BY <2>1, <2>2, <2>3, ApplyHeldFact
  <2>5. /\ IF ConfirmTimedOut THEN Leave(n)
                              ELSE SetNotice(n) /\ UNCHANGED <<menu, held>>
        /\ IF n.changed \/ locate = 0 THEN Recompute(n.over) ELSE Refresh(n.over)
        /\ resumeAt' = IF resumeAt = 0 THEN Never ELSE resumeAt
        /\ ordered' = NoAction
    BY <1>5 DEF TickAwake
  <2>6. resumeAt' \in Timer
    BY <1>2, <2>5 DEF Timer
  <2> HIDE DEF n
  <2>7. Recompute(n.over) \/ (n.over = over /\ UNCHANGED alarm)
    BY <2>4, <2>5 DEF Refresh
  <2>8. CASE ConfirmTimedOut
    BY <1>1, <2>4, <2>5, <2>6, <2>7, <2>8, LeaveStep
  <2>9. CASE ~ConfirmTimedOut
    <3>1. /\ over' \in MaybeMessage /\ sleeping' \in BOOLEAN
          /\ beepPending' \in {"None", "Arrival", "Repeat"}
          /\ nextRepeat' \in Timer /\ alarm' \in Alarms
          /\ RepeatArmed' /\ Endless(over') /\ Covers(over', alarm')
      BY <2>4, <2>5, <2>7, <2>9, SetNoticeFact
    <3>2. ~sleeping' /\ UNCHANGED <<menu, held>>
      BY <2>4, <2>5, <2>9 DEF SetNotice
    <3>3. QED
      BY <1>1, <2>5, <2>6, <3>1, <3>2
         DEF IInv, TypeOK, ModeShape, AsleepIsIdle, HeldOnlyWhileBusy,
             MaybeMessage, menu
  <2>10. QED
    BY <2>8, <2>9
<1>6. QED
  BY <1>3, <1>4, <1>5 DEF Tick

LEMMA LessFact ==
  ASSUME NEW t \in Timer
  PROVE  /\ Less(t) \in Timer /\ (Less(t) = Never <=> t = Never)
         /\ (t \in Nat => Less(t) \in Nat)
  BY DEF Less, Timer

LEMMA OlderFact ==
  ASSUME NEW m \in MaybeMessage, Endless(m)
  PROVE  /\ Older(m) \in MaybeMessage /\ Endless(Older(m))
         /\ Older(m) = NoMessage <=> m = NoMessage
         /\ m # NoMessage => Older(m).beep = m.beep /\ Older(m).level = m.level
         /\ \A a : Covers(m, a) => Covers(Older(m), a)
<1>1. CASE m = NoMessage
  BY <1>1 DEF Older
<1>2. CASE m # NoMessage
  <2> DEFINE t == Less(m.ttl)
  <2>1. m \in Message /\ m.ttl \in Timer
    BY <1>2 DEF MaybeMessage, Message
  <2>2. t \in Timer /\ (m.ttl = Never => t = Never)
    BY <2>1, LessFact
  <2>3. Older(m) = [m EXCEPT !.ttl = t]
    BY <1>2 DEF Older
  <2> HIDE DEF t
  <2>4. Older(m) \in Message /\ Older(m).ttl = t /\ Older(m).beep = m.beep
        /\ Older(m).level = m.level /\ Older(m).severity = m.severity
    BY <2>1, <2>2, <2>3 DEF Message
  <2>5. Older(m) # NoMessage
    BY <2>4, NoMessageFact
  <2>6. Pushed(Older(m)) = Pushed(m)
    BY <1>2, <2>4, <2>5 DEF Pushed
  <2>7. Endless(Older(m))
    BY <1>2, <2>2, <2>4 DEF Endless, AlwaysVisible
  <2>8. QED
    BY <1>2, <2>4, <2>5, <2>6, <2>7 DEF Covers, MaybeMessage
<1>3. QED
  BY <1>1, <1>2

LEMMA ElapseStep == ASSUME IInv, Elapse PROVE IInv'
<1>1. over \in MaybeMessage /\ held \in MaybeMessage
  BY DEF IInv, TypeOK, MaybeMessage
<1>2. /\ over' \in MaybeMessage /\ Endless(over')
      /\ over' = NoMessage <=> over = NoMessage
      /\ over # NoMessage => over'.beep = over.beep
      /\ Covers(over', alarm)
  BY <1>1, OlderFact DEF Elapse, IInv
<1>3. /\ held' \in MaybeMessage /\ Endless(held')
      /\ held' = NoMessage <=> held = NoMessage
  BY <1>1, OlderFact DEF Elapse, IInv
<1>4. /\ deadline' \in Timer /\ (deadline = Never => deadline' = Never)
      /\ (deadline \in Nat => deadline' \in Nat)
      /\ nextRepeat' \in Timer /\ (nextRepeat # Never => nextRepeat' # Never)
      /\ grace' \in Timer /\ resumeAt' \in Timer
  BY LessFact DEF Elapse, IInv, TypeOK
<1>5. locate' \in Timer \cup {NotLocating}
  BY DEF Elapse, IInv, TypeOK, Timer, Less
<1>6. UNCHANGED <<mode, action, beepPending, alarm, sleeping, wantsSleep>>
      /\ ordered' = NoAction
  BY DEF Elapse
<1>7. QED
  BY <1>2, <1>3, <1>4, <1>5, <1>6
     DEF IInv, TypeOK, ModeShape, AsleepIsIdle, HeldOnlyWhileBusy, RepeatArmed,
         MaybeMessage


LEMMA NextIInv == IInv /\ [Next]_vars => IInv'
<1> SUFFICES ASSUME IInv, [Next]_vars PROVE IInv'
  OBVIOUS
<1>1. CASE UNCHANGED vars
  BY <1>1 DEF vars, menu, messages, night, IInv, TypeOK, ModeShape, AsleepIsIdle,
              HeldOnlyWhileBusy, RepeatArmed
<1>2. CASE Next
  <2>1. ASSUME NEW s \in Shows, Show(s) PROVE IInv'
    BY <2>1, ShowStep
  <2>2. CASE Clear
    BY <2>2, ClearStep
  <2>3. CASE StopLocate \/ \E ttl \in LocateTtls : StartLocate(ttl)
    BY <2>3, LocateStep
  <2>4. ASSUME NEW k \in Keys, HandleKey(k) PROVE IInv'
    BY <2>4, KeyStep
  <2>5. CASE \/ \E a \in Actions : KeepCountdown(a)
             \/ \E a \in Actions, secs \in Countdowns : StartCountdown(a, secs)
             \/ \E wanted \in BOOLEAN : SetScheduleSleepWanted(wanted)
             \/ TakeBeep
    BY <2>5, ScheduleStep
  <2>6. CASE Tick
    BY <2>6, TickStep
  <2>7. CASE Elapse
    BY <2>7, ElapseStep
  <2>8. QED
    BY <1>2, <2>1, <2>2, <2>3, <2>4, <2>5, <2>6, <2>7 DEF Next
<1>3. QED
  BY <1>1, <1>2

-----------------------------------------------------------------------------
(* The theorems. *)

\* The invariant every other theorem rests on.
THEOREM InductiveInvariant == Spec => []IInv
<1>1. Init => IInv
  BY InitIInv
<1>2. IInv /\ [Next]_vars => IInv'
  BY NextIInv
<1>3. QED
  BY <1>1, <1>2, PTL DEF Spec

\* Every handler of the panel's state machine keeps its variables typed.
THEOREM TypeCorrect == Spec => []TypeOK
<1>1. IInv => TypeOK
  BY DEF IInv
<1>2. QED
  BY <1>1, InductiveInvariant, PTL

\* Night mode never hides a message, a menu, a countdown or a held message.
THEOREM NightIsIdle == Spec => []AsleepIsIdle
<1>1. IInv => AsleepIsIdle
  BY DEF IInv
<1>2. QED
  BY <1>1, InductiveInvariant, PTL

\* A repeating message that shows always has its next beep coming.
THEOREM RepeatIsArmed == Spec => []RepeatArmed
<1>1. IInv => RepeatArmed
  BY DEF IInv
<1>2. QED
  BY <1>1, InductiveInvariant, PTL

\* The cached verdict is never less severe than the message showing.
THEOREM VerdictCoversMessage == Spec => []AlarmCoversMessage
<1>1. IInv => AlarmCoversMessage
  BY DEF IInv, Covers, AlarmCoversMessage
<1>2. QED
  BY <1>1, InductiveInvariant, PTL

\* A critical message in its level's look is what the LCD shows, unless the
\* panel is in its menu, counting down or being located.
THEOREM CriticalMessageShows == Spec => []CriticalIsShown
<1>1. IInv => CriticalIsShown
  <2> SUFFICES ASSUME IInv, over # NoMessage, over.level = Critical,
                      over.severity = 4
               PROVE  Shown \in {"alarm", "locate", "ActionMenu", "Confirm",
                                 "Countdown"}
                      /\ (Shown = "alarm" => alarm = Pushed(over))
    BY DEF CriticalIsShown
  <2>1. ~sleeping
    BY DEF IInv, AsleepIsIdle
  <2>2. alarm = Pushed(over)
    <3>1. alarm.severity \in Severities /\ alarm.severity >= 4
      BY DEF IInv, TypeOK, Alarms, Covers
    <3>2. QED
      BY <3>1 DEF IInv, Covers, Severities
  <2>3. alarm.severity = 4 /\ alarm.level = Critical
    BY <2>2 DEF Pushed
  <2>4. mode \in {"Status", "ActionMenu", "Confirm", "Countdown"}
    BY DEF IInv, TypeOK
  <2>5. QED
    BY <2>1, <2>2, <2>3, <2>4 DEF Shown
<1>2. QED
  BY <1>1, InductiveInvariant, PTL

-----------------------------------------------------------------------------
(* What becomes of a message. *)

\* q is there, and as severe as m.
AsSevere(m, q) == m # NoMessage => q # NoMessage /\ q.level >= m.level

\* The message showing gives way only to one as severe, and on a panel that is
\* awake a new one only to that.
LEMMA ShowOverrideSevere ==
  ASSUME NEW n, NoticeOK(n), NEW m \in Message
  PROVE  /\ AsSevere(n.over, ShowOverride(n, m).over)
         /\ ~n.sleeping => AsSevere(m, ShowOverride(n, m).over)
<1>1. n.over \in MaybeMessage /\ (n.over # NoMessage => n.over.level \in Int) /\ m.level \in Int
  BY DEF NoticeOK, MaybeMessage, Message, Levels, Info, Critical
<1>2. m # NoMessage
  BY NoMessageFact
<1>3. CASE Accepts(n, m)
  <2>1. ShowOverride(n, m).over = m
    BY <1>3 DEF ShowOverride
  <2> QED
    BY <1>1, <1>2, <1>3, <2>1 DEF Accepts, AsSevere
<1>4. CASE ~Accepts(n, m)
  <2>1. ShowOverride(n, m) = n
    BY <1>4 DEF ShowOverride
  <2> QED
    BY <1>1, <1>4, <2>1 DEF Accepts, AsSevere
<1> QED
  BY <1>3, <1>4

\* The same for what was held.
LEMMA ApplyHeldSevere ==
  ASSUME IInv, NEW n, NoticeOK(n), ~n.sleeping
  PROVE  AsSevere(n.over, ApplyHeld(n).over) /\ AsSevere(held, ApplyHeld(n).over)
<1>1. held \in MaybeMessage /\ n.over \in MaybeMessage
  BY DEF IInv, TypeOK, MaybeMessage, NoticeOK
<1>2. CASE held = NoMessage
  <2>1. n.over # NoMessage => n.over.level \in Int
    BY <1>1 DEF MaybeMessage, Message, Levels, Info, Critical
  <2> QED
    BY <1>2, <2>1 DEF ApplyHeld, AsSevere
<1>3. CASE held # NoMessage
  <2>1. held \in Message
    BY <1>1, <1>3 DEF MaybeMessage
  <2> QED
    BY <1>3, <2>1, ShowOverrideSevere DEF ApplyHeld
<1> QED
  BY <1>2, <1>3

\* A message, and what is as severe as what is as severe as it.
LEMMA AsSevereFacts ==
  ASSUME NEW m \in MaybeMessage, NEW q \in MaybeMessage, NEW r \in MaybeMessage
  PROVE  /\ AsSevere(m, m) /\ AsSevere(NoMessage, q)
         /\ AsSevere(m, q) /\ AsSevere(q, r) => AsSevere(m, r)
BY DEF AsSevere, MaybeMessage, Message, Levels, Info, Critical

\* No handler but CLEAR takes an urgent message away; none a held one.
Stays ==
  /\ over # NoMessage /\ AlwaysVisible(over) => AsSevere(over, over')
  /\ AsSevere(held, held') \/ AsSevere(held, over')

\* A handler that shows a notice and leaves the rest as it was.
LEMMA NoticeStays ==
  ASSUME IInv, NEW n, SetNotice(n),
         over # NoMessage /\ AlwaysVisible(over) => AsSevere(over, n.over),
         UNCHANGED held \/ AsSevere(held, n.over)
  PROVE  Stays
<1>1. AsSevere(held, held)
  BY AsSevereFacts DEF IInv, TypeOK, MaybeMessage
<1> QED
  BY <1>1 DEF Stays, SetNotice

LEMMA UnchangedStays ==
  ASSUME IInv, UNCHANGED over, UNCHANGED held
  PROVE  Stays
BY AsSevereFacts DEF Stays, IInv, TypeOK, MaybeMessage

\* Applying what is held, to the notice of an awake panel as it is or, if it
\* was not urgent, without the message that was showing.
LEMMA HeldStays ==
  ASSUME IInv, NEW n, NoticeOK(n), ~n.sleeping, NEW c,
         c = ApplyHeld(n) \/ c = ShowOverride(ApplyHeld(n), Cancelled),
         over # NoMessage /\ AlwaysVisible(over) => n.over = over, SetNotice(c)
  PROVE  Stays
<1> DEFINE h == ApplyHeld(n)
<1>1. NoticeOK(h) /\ AsSevere(n.over, h.over) /\ AsSevere(held, h.over)
  BY ApplyHeldFact, ApplyHeldSevere
<1>2. NoticeOK(c) /\ AsSevere(h.over, c.over)
  <2>1. NoticeOK(ShowOverride(h, Cancelled)) /\ AsSevere(h.over, ShowOverride(h, Cancelled).over)
    BY <1>1, CancelledFact, ShowOverrideFact, ShowOverrideSevere
  <2>2. AsSevere(h.over, h.over)
    BY <1>1, AsSevereFacts DEF NoticeOK
  <2> QED
    BY <1>1, <2>1, <2>2
<1> HIDE DEF h
<1>3. AsSevere(n.over, c.over) /\ AsSevere(held, c.over)
  <2>1. {n.over, h.over, c.over, held} \subseteq MaybeMessage
    BY <1>1, <1>2 DEF NoticeOK, IInv, TypeOK, MaybeMessage
  <2> QED
    BY <1>1, <1>2, <2>1, AsSevereFacts
<1> QED
  BY <1>3, NoticeStays

LEMMA TickStays ==
  ASSUME IInv, Tick
  PROVE  Stays
<1>1. CASE TickWakes \/ TickAsleep
  BY <1>1, UnchangedStays DEF TickWakes, TickAsleep
<1>2. CASE TickRuns
  <2>1. ~Notice.sleeping /\ NoticeOK(Notice) /\ Notice.over = over
    BY <1>2, NoticeFact DEF TickRuns, Notice
  <2>2. SetNotice(ApplyHeld(Notice))
    BY <1>2 DEF TickRuns, Leave
  <2> QED
    BY <2>1, <2>2, HeldStays
<1>3. CASE TickAwake
  <2>1. NoticeOK(Refreshed) /\ ~Refreshed.sleeping
    BY <1>3, NoticeFact DEF TickAwake, Refreshed
  <2>2. over # NoMessage /\ AlwaysVisible(over) => Refreshed.over = over
    BY DEF Refreshed, Expired, IInv, Endless
  <2>3. CASE ConfirmTimedOut
    <3>1. SetNotice(ApplyHeld(Refreshed))
      BY <1>3, <2>3 DEF TickAwake, Leave
    <3> QED
      BY <2>1, <2>2, <3>1, HeldStays
  <2>4. CASE ~ConfirmTimedOut
    <3>1. SetNotice(Refreshed) /\ UNCHANGED held
      BY <1>3, <2>4 DEF TickAwake
    <3>2. AsSevere(over, over)
      BY AsSevereFacts DEF IInv, TypeOK, MaybeMessage
    <3> QED
      BY <2>2, <3>1, <3>2, NoticeStays
  <2> QED
    BY <2>3, <2>4
<1> QED
  BY <1>1, <1>2, <1>3 DEF Tick

LEMMA ShowStays ==
  ASSUME IInv, NEW s \in Shows, Show(s)
  PROVE  Stays
<1>1. Arrived(s) \in Message /\ Arrived(s).level = s.level /\ s.level \in Int
  BY ArrivedFact DEF Message, Levels, Info, Critical
<1>2. CASE ShowNow(s)
  <2> DEFINE n == ShowOverride(Notice, Arrived(s))
  <2>1. AsSevere(over, n.over)
    BY <1>1, NoticeFact, ShowOverrideSevere DEF Notice
  <2>2. SetNotice(n) /\ UNCHANGED held
    BY <1>2 DEF ShowNow
  <2> HIDE DEF n
  <2> QED
    BY <2>1, <2>2, NoticeStays
<1>3. CASE ShowLater(s)
  <2>1. UNCHANGED over
    BY <1>3 DEF ShowLater
  <2>2. AsSevere(over, over) /\ AsSevere(held, held)
    BY AsSevereFacts DEF IInv, TypeOK, MaybeMessage
  <2>3. AsSevere(held, held')
    <3>1. CASE held' = held
      BY <2>2, <3>1
    <3>2. CASE held' = Arrived(s) /\ (held = NoMessage \/ s.level >= held.level)
      BY <1>1, <3>2, NoMessageFact DEF AsSevere
    <3> QED
      BY <1>3, <3>1, <3>2 DEF ShowLater
  <2> QED
    BY <2>1, <2>2, <2>3 DEF Stays
<1> QED
  BY <1>2, <1>3 DEF Show

LEMMA KeyStays ==
  ASSUME IInv, NEW k \in Keys, HandleKey(k)
  PROVE  Stays
<1>1. NoticeOK(Notice) /\ (~sleeping => ~Notice.sleeping) /\ Notice.over = over
  BY NoticeFact DEF Notice
<1>2. CASE WakeByKey(k) \/ PageKey(k) \/ OpenMenu(k) \/ SelectKey(k) \/ ChooseKey(k)
  BY <1>2, UnchangedStays DEF WakeByKey, PageKey, OpenMenu, SelectKey, ChooseKey, messages
<1>3. CASE ~sleeping /\ (BackKey(k) \/ ConfirmKey(k))
  <2>1. SetNotice(ApplyHeld(Notice))
    BY <1>3 DEF BackKey, ConfirmKey, Leave
  <2> QED
    BY <1>1, <1>3, <2>1, HeldStays
<1>4. CASE ~sleeping /\ CancelKey(k)
  <2>1. SetNotice(ShowOverride(ApplyHeld(Notice), Cancelled))
    BY <1>4 DEF CancelKey, Leave
  <2> QED
    BY <1>1, <1>4, <2>1, HeldStays
<1> QED
  BY <1>2, <1>3, <1>4 DEF HandleKey, AwakeKey

LEMMA NextStays ==
  ASSUME IInv, [Next]_vars, ~Clear
  PROVE  Stays
<1>1. ASSUME NEW s \in Shows, Show(s) PROVE Stays
  BY <1>1, ShowStays
<1>2. CASE StopLocate \/ \E ttl \in LocateTtls : StartLocate(ttl)
  BY <1>2, UnchangedStays DEF StopLocate, StartLocate
<1>3. ASSUME NEW k \in Keys, HandleKey(k) PROVE Stays
  BY <1>3, KeyStays
<1>4. CASE \/ \E a \in Actions : KeepCountdown(a)
           \/ \E a \in Actions, secs \in Countdowns : StartCountdown(a, secs)
           \/ \E wanted \in BOOLEAN : SetScheduleSleepWanted(wanted)
           \/ TakeBeep
  BY <1>4, UnchangedStays
     DEF KeepCountdown, StartCountdown, SetScheduleSleepWanted, TakeBeep, messages
<1>5. CASE Tick
  BY <1>5, TickStays
<1>6. CASE Elapse
  <2>1. over \in MaybeMessage /\ held \in MaybeMessage /\ Endless(over) /\ Endless(held)
    BY DEF IInv, TypeOK, MaybeMessage
  <2>2. ASSUME NEW m \in MaybeMessage, Endless(m) PROVE AsSevere(m, Older(m))
    <3>1. /\ Older(m) = NoMessage <=> m = NoMessage
          /\ m # NoMessage => Older(m).level = m.level
      BY <2>2, OlderFact
    <3>2. m # NoMessage => m.level \in Int
      BY DEF MaybeMessage, Message, Levels, Info, Critical
    <3> QED
      BY <3>1, <3>2 DEF AsSevere
  <2> QED
    BY <1>6, <2>1, <2>2 DEF Elapse, Stays
<1>7. CASE UNCHANGED vars
  BY <1>7, UnchangedStays DEF vars, messages
<1> QED
  BY <1>1, <1>2, <1>3, <1>4, <1>5, <1>6, <1>7 DEF Next

\* An error or critical message that is showing goes only by a CLEAR or for
\* one as severe (show_override, tick's expiry).
THEOREM UrgentMessageStays == Spec => UrgentStays
<1>1. IInv /\ [Next]_vars =>
        [over # NoMessage /\ AlwaysVisible(over) /\ over' # over
           => \/ over' # NoMessage /\ over'.level >= over.level
              \/ Clear]_vars
  BY NextStays DEF Stays, AsSevere
<1> QED
  BY <1>1, InductiveInvariant, PTL DEF Spec, UrgentStays

\* What is held behind the menu or a countdown is replaced only by something as
\* severe, and shows, or something as severe does, when that is over
\* (apply_pending_override).
THEOREM HeldMessageSurvives == Spec => HeldSurvives
<1>1. IInv /\ [Next]_vars =>
        [held # NoMessage =>
           \/ held' # NoMessage /\ held'.level >= held.level
           \/ over' # NoMessage /\ over'.level >= held.level]_vars
  <2> SUFFICES ASSUME IInv, [Next]_vars, held # NoMessage
               PROVE  AsSevere(held, held') \/ AsSevere(held, over')
    BY DEF AsSevere
  <2>1. CASE Clear
    BY <2>1, AsSevereFacts DEF Clear, IInv, TypeOK, MaybeMessage
  <2>2. CASE ~Clear
    BY <2>2, NextStays DEF Stays
  <2> QED
    BY <2>1, <2>2
<1> QED
  BY <1>1, InductiveInvariant, PTL DEF Spec, HeldSurvives

-----------------------------------------------------------------------------
(* AppState implements PowerGate. *)

\* A step that leaves the menu's variables alone, or moves between the
\* status screens and the action menu, is nothing to the gate.
LEMMA SettleStep ==
  ASSUME IInv, IInv',
         UNCHANGED menu \/ {mode, mode'} \subseteq {"Status", "ActionMenu"},
         ordered' = NoAction
  PROVE  Gate!Settle
<1>1. Stage' = Stage /\ Target' = Target /\ deadline' = deadline
  BY DEF menu, Stage, Target, IInv, ModeShape
<1>2. QED
  BY <1>1 DEF Gate!Settle, Gate!Nothing

\* Leaving a confirm screen or a countdown takes the gate to idle.
LEMMA GoIdleStep ==
  ASSUME IInv, mode \in {"Confirm", "Countdown"}, NEW n, Leave(n)
  PROVE  Gate!GoIdle /\ Stage # "idle"
  BY DEF Leave, Stage, Target, Gate!GoIdle, Gate!Nothing

LEMMA GateKeyStep ==
  ASSUME IInv, IInv', NEW k \in Keys, HandleKey(k)
  PROVE  Gate!GateNext
<1> USE DEF Gate!GateNext
<1>1. CASE WakeByKey(k)
  BY <1>1, SettleStep DEF WakeByKey
<1>2. CASE ~sleeping /\ (PageKey(k) \/ OpenMenu(k) \/ SelectKey(k))
  BY <1>2, SettleStep DEF PageKey, OpenMenu, SelectKey
<1>3. CASE ~sleeping /\ ChooseKey(k)
  <2>1. mode = "ActionMenu" /\ mode' = "Confirm" /\ action' = action
        /\ deadline' \in Nat /\ ordered' = NoAction /\ action \in Actions
    BY <1>3, TimesAssumption DEF ChooseKey, IInv, ModeShape
  <2>2. Gate!Ask(action)
    BY <2>1 DEF Gate!Ask, Gate!Nothing, Stage, Target
  <2>3. QED
    BY <2>1, <2>2 DEF Gate!Power, Actions
<1>4. CASE ~sleeping /\ BackKey(k)
  <2> DEFINE n == ApplyHeld(Notice)
  <2>1. Leave(n) /\ ordered' = NoAction
    BY <1>4 DEF BackKey
  <2> HIDE DEF n
  <2>2. CASE mode = "Confirm"
    <3>1. Gate!Withdraw
      BY <2>1, <2>2, GoIdleStep DEF Gate!Withdraw, Gate!Nothing
    <3>2. QED
      BY <3>1
  <2>3. CASE mode = "ActionMenu"
    <3>1. mode' = "Status"
      BY <2>1 DEF Leave
    <3>2. QED
      BY <2>1, <2>3, <3>1, SettleStep
  <2>4. QED
    BY <1>4, <2>2, <2>3 DEF BackKey
<1>5. CASE ~sleeping /\ ConfirmKey(k)
  <2>1. mode = "Confirm" /\ Leave(ApplyHeld(Notice)) /\ ordered' = action
    BY <1>5 DEF ConfirmKey
  <2>2. Gate!GoIdle
    BY <2>1, GoIdleStep
  <2>3. Gate!Confirm
    BY <2>1, <2>2 DEF Gate!Confirm, Stage, Target
  <2>4. QED
    BY <2>3
<1>6. CASE ~sleeping /\ CancelKey(k)
  <2> DEFINE n == ShowOverride(ApplyHeld(Notice), Cancelled)
  <2>1. mode = "Countdown" /\ Leave(n) /\ ordered' = NoAction
    BY <1>6 DEF CancelKey
  <2> HIDE DEF n
  <2>2. Gate!Withdraw
    BY <2>1, GoIdleStep DEF Gate!Withdraw, Gate!Nothing
  <2>3. QED
    BY <2>2
<1>7. QED
  BY <1>1, <1>2, <1>3, <1>4, <1>5, <1>6 DEF HandleKey, AwakeKey

LEMMA GateTickStep == ASSUME IInv, IInv', Tick PROVE Gate!GateNext
<1> USE DEF Gate!GateNext
<1>1. CASE TickWakes \/ TickAsleep
  BY <1>1, SettleStep DEF TickWakes, TickAsleep
<1>2. CASE TickRuns
  <2>1. mode = "Countdown" /\ deadline = 0 /\ Leave(ApplyHeld(Notice))
        /\ ordered' = action
    BY <1>2 DEF TickRuns
  <2>2. Gate!GoIdle
    BY <2>1, GoIdleStep
  <2>3. Gate!TimeUp
    BY <2>1, <2>2 DEF Gate!TimeUp, Stage, Target
  <2>4. QED
    BY <2>3
<1>3. CASE TickAwake
  <2>1. CASE ConfirmTimedOut
    <3>1. mode = "Confirm" /\ Leave(ApplyHeld(Refreshed)) /\ ordered' = NoAction
      BY <1>3, <2>1 DEF TickAwake, ConfirmTimedOut
    <3>2. Gate!Withdraw
      BY <3>1, GoIdleStep DEF Gate!Withdraw, Gate!Nothing
    <3>3. QED
      BY <3>2
  <2>2. CASE ~ConfirmTimedOut
    BY <1>3, <2>2, SettleStep DEF TickAwake
  <2>3. QED
    BY <2>1, <2>2
<1>4. QED
  BY <1>1, <1>2, <1>3 DEF Tick

LEMMA GateStep == IInv /\ IInv' /\ [Next]_vars => [Gate!GateNext]_Gate!gate
<1> SUFFICES ASSUME IInv, IInv', [Next]_vars PROVE [Gate!GateNext]_Gate!gate
  OBVIOUS
<1>1. CASE UNCHANGED vars
  BY <1>1 DEF vars, menu, Gate!gate, Stage, Target
<1>2. ASSUME NEW s \in Shows, Show(s) PROVE Gate!GateNext
  BY <1>2, SettleStep DEF Show, ShowNow, ShowLater, Gate!GateNext
<1>3. CASE Clear \/ StopLocate \/ (\E ttl \in LocateTtls : StartLocate(ttl))
           \/ (\E w \in BOOLEAN : SetScheduleSleepWanted(w)) \/ TakeBeep
  BY <1>3, SettleStep
     DEF Clear, StopLocate, StartLocate, SetScheduleSleepWanted, TakeBeep,
         Gate!GateNext
<1>4. ASSUME NEW k \in Keys, HandleKey(k) PROVE Gate!GateNext
  BY <1>4, GateKeyStep
<1>5. ASSUME NEW a \in Actions, KeepCountdown(a) PROVE Gate!GateNext
  <2>1. CASE a = "Shutdown"
    <3>1. Gate!Strengthen
      BY <1>5, <2>1 DEF KeepCountdown, Gate!Strengthen, Gate!Nothing, Stage, Target
    <3>2. QED
      BY <3>1 DEF Gate!GateNext
  <2>2. CASE a # "Shutdown"
    BY <1>5, <2>2, SettleStep DEF KeepCountdown, menu, Gate!GateNext
  <2>3. QED
    BY <2>1, <2>2
<1>6. ASSUME NEW a \in Actions, NEW secs \in Countdowns, StartCountdown(a, secs)
      PROVE  Gate!GateNext
  <2>1. secs \in Nat /\ mode \in {"Status", "ActionMenu", "Confirm"}
    BY <1>6, TimesAssumption DEF StartCountdown, IInv, TypeOK
  <2>2. Gate!Announce(a)
    BY <1>6, <2>1
       DEF StartCountdown, Gate!Announce, Gate!Nothing, Stage, Target
  <2>3. QED
    BY <2>2 DEF Gate!GateNext, Gate!Power, Actions
<1>7. CASE Tick
  BY <1>7, GateTickStep
<1>8. CASE Elapse
  <2>1. UNCHANGED <<mode, action>> /\ deadline' = Less(deadline)
        /\ ordered' = NoAction
    BY <1>8 DEF Elapse
  <2>2. Stage' = Stage /\ Target' = Target
    BY <2>1 DEF Stage, Target
  <2>3. CASE deadline > 0
    <3>1. Gate!Wait
      BY <2>1, <2>2, <2>3 DEF Gate!Wait, Gate!Nothing, Less
    <3>2. QED
      BY <3>1 DEF Gate!GateNext
  <2>4. CASE ~(deadline > 0)
    BY <2>1, <2>2, <2>4 DEF Gate!GateNext, Gate!Settle, Gate!Nothing, Less
  <2>5. QED
    BY <2>3, <2>4
<1>9. QED
  BY <1>1, <1>2, <1>3, <1>4, <1>5, <1>6, <1>7, <1>8 DEF Next

\* Whatever keys, messages and schedules do, a power action is ordered only
\* after a confirmation or after an announcement's whole countdown.
THEOREM ImplementsPowerGate == Spec => KeepsPowerGate
<1>1. Init => Gate!GateInit
  BY DEF Init, Gate!GateInit, Gate!Nothing, Stage, Target
<1>2. IInv /\ IInv' /\ [Next]_vars => [Gate!GateNext]_Gate!gate
  BY GateStep
<1>3. QED
  BY <1>1, <1>2, InductiveInvariant, PTL DEF Spec, KeepsPowerGate, Gate!GateSpec

-----------------------------------------------------------------------------
(* The beeps of the event loop (AlertBeeps). *)

Repeats(m) == m # NoMessage /\ m.beep = "repeat"

\* The longest a repeating message may go without a tone.
Bound == 2 * RepeatBeep - 1

\* In phase lp of the loop, r before the next repeat: q does not pass Bound.
\* Once the tick has been, a repeat that is due waits for the next unit.
Soon(lp, q, r) == q + r <= Bound /\ (lp # "due" /\ r = 0 => q + 1 <= Bound)

Passing == loop \in {"due", "ticked", "passed"}

LoopTypes ==
  /\ loop \in LoopPhases
  /\ worker \in Workers /\ speaker \in {"fine", "broken"} /\ flush \in Flushes

Counted ==
  /\ quiet \in 0 .. Bound
  /\ lastAlert \in 0 .. AlertBeepInterval
  /\ nextRepeat <= RepeatBeep
  /\ ~Repeating \/ speaker = "broken" => quiet = 0

\* The marker is the last item of the queue, and the only one of its kind.
EndsInMarker == \E q \in Seq({"beep"}) : queue = Append(q, "marker")

Flushed ==
  /\ Passing <=> flush = "no"
  /\ flush \in {"no", "entering"} => queue \in Seq({"beep"})
  /\ flush = "waiting" => EndsInMarker
  /\ flush = "gave up" => EndsInMarker \/ queue \in Seq({"beep"})
  /\ flush = "answered" => queue = <<>> /\ worker = "idle"
  /\ loop = "ended" => flush \in {"answered", "gave up"}

\* A pass of the loop takes the beep of its tick before anything else can ask
\* for one.
Pending ==
  /\ loop # "ticked" => beepPending # "Repeat"
  /\ loop = "passed" => beepPending = "None"

\* While nothing is waiting to be played: what an arrival that is held back
\* still has to wait, and what a repeating message has to wait, is covered.
Heard ==
  Passing /\ queue = <<>> =>
    /\ lastAlert # 0 => quiet + lastAlert <= AlertBeepInterval
    /\ Repeating => \/ loop # "passed" /\ Allowed
                    \/ loop = "ticked" /\ ordered # NoAction
                    \/ Soon(loop, quiet, nextRepeat)

BeepsInv == IInv /\ LoopTypes /\ Counted /\ Flushed /\ Pending /\ Heard

-----------------------------------------------------------------------------
(* What a handler does to a repeating message. *)

\* From notice n0 to notice n: a message that repeats was there with its beep
\* armed, or has just come and is announced.
Hears(n0, n) ==
  /\ n.repeat \in {n0.repeat, RepeatBeep, Never}
  /\ n.beep \in {n0.beep, "Arrival"}
  /\ Repeats(n.over) =>
       \/ Repeats(n0.over) /\ n.repeat = n0.repeat /\ n.beep = n0.beep
       \/ n.repeat = RepeatBeep /\ (n.beep = "Arrival" \/ n0.sleeping)

LEMMA ShowOverrideHears ==
  ASSUME NEW n, NoticeOK(n), NEW m \in Message
  PROVE  Hears(n, ShowOverride(n, m))
<1>1. CASE ~Accepts(n, m)
  BY <1>1 DEF ShowOverride, Hears, Repeats
<1>2. CASE Accepts(n, m)
  <2> DEFINE beep == IF m.beep # "none" /\ (n.sleeping => m.level = Critical)
                     THEN "Arrival" ELSE n.beep
             repeat == IF m.beep = "repeat" THEN RepeatBeep ELSE Never
  <2>1. ShowOverride(n, m) = [over |-> m, sleeping |-> FALSE, beep |-> beep,
                              repeat |-> repeat, changed |-> TRUE]
    BY <1>2 DEF ShowOverride
  <2>2. beep \in {n.beep, "Arrival"} /\ repeat \in {RepeatBeep, Never}
    OBVIOUS
  <2>3. m.beep = "repeat" =>
          repeat = RepeatBeep /\ (beep = "Arrival" \/ n.sleeping)
    BY DEF NoticeOK
  <2> HIDE DEF beep, repeat
  <2>4. QED
    BY <2>1, <2>2, <2>3 DEF Hears, Repeats
<1> QED
  BY <1>1, <1>2

LEMMA HearsTwice ==
  ASSUME NEW n0, NEW n1, NEW n2, Hears(n0, n1), Hears(n1, n2),
         n1.sleeping => n0.sleeping
  PROVE  Hears(n0, n2)
BY DEF Hears

LEMMA ApplyHeldHears ==
  ASSUME IInv, NEW n, NoticeOK(n)
  PROVE  Hears(n, ApplyHeld(n))
<1>1. CASE held = NoMessage
  BY <1>1 DEF ApplyHeld, Hears
<1>2. CASE held # NoMessage
  <2>1. held \in Message
    BY <1>2 DEF IInv, TypeOK
  <2> QED
    BY <1>2, <2>1, ShowOverrideHears DEF ApplyHeld
<1> QED
  BY <1>1, <1>2

\* The same of a step of the panel.
Turns ==
  /\ nextRepeat' \in {nextRepeat, RepeatBeep, Never}
  /\ beepPending' \in {beepPending, "Arrival"}
  /\ Repeating' =>
       \/ Repeating /\ UNCHANGED <<nextRepeat, beepPending>>
       \/ nextRepeat' = RepeatBeep /\ (beepPending' = "Arrival" \/ ~Repeating)

LEMMA NoticeTurns ==
  ASSUME IInv, NEW n, Hears(Notice, n), SetNotice(n)
  PROVE  Turns
<1>1. /\ Notice.over = over /\ Notice.repeat = nextRepeat
      /\ Notice.beep = beepPending /\ Notice.sleeping = sleeping
  BY DEF Notice
<1>2. sleeping => ~Repeating
  BY DEF IInv, AsleepIsIdle, Repeating
<1> QED
  BY <1>1, <1>2 DEF Hears, SetNotice, Turns, Repeats, Repeating

LEMMA StillTurns ==
  ASSUME UNCHANGED <<nextRepeat, beepPending>>,
         UNCHANGED over \/ over' = NoMessage
  PROVE  Turns
BY DEF Turns, Repeating

LEMMA CommandTurns ==
  ASSUME IInv, Command \/ \E ttl \in LocateTtls : StartLocate(ttl)
  PROVE  Turns
<1>1. NoticeOK(Notice)
  BY NoticeFact
<1>2. ASSUME NEW s \in Shows, Show(s) PROVE Turns
  <2>1. CASE ShowNow(s)
    <3>1. Hears(Notice, ShowOverride(Notice, Arrived(s)))
      BY <1>1, ArrivedFact, ShowOverrideHears
    <3> QED
      BY <2>1, <3>1, NoticeTurns DEF ShowNow
  <2>2. CASE ShowLater(s)
    BY <2>2, StillTurns DEF ShowLater
  <2> QED
    BY <1>2, <2>1, <2>2 DEF Show
<1>3. CASE Clear \/ StopLocate \/ \E ttl \in LocateTtls : StartLocate(ttl)
  BY <1>3, StillTurns DEF Clear, StopLocate, StartLocate
<1>4. ASSUME NEW k \in Keys, HandleKey(k) PROVE Turns
  <2> DEFINE h == ApplyHeld(Notice)
             c == ShowOverride(h, Cancelled)
  <2>1. Hears(Notice, h) /\ NoticeOK(h) /\ (h.sleeping => Notice.sleeping)
    BY <1>1, ApplyHeldHears, ApplyHeldFact
  <2>2. Hears(h, c)
    BY <2>1, CancelledFact, ShowOverrideHears
  <2>3. Hears(Notice, c)
    BY <2>1, <2>2, HearsTwice
  <2>4. CASE WakeByKey(k) \/ PageKey(k) \/ OpenMenu(k) \/ SelectKey(k)
             \/ ChooseKey(k)
    BY <2>4, StillTurns
       DEF WakeByKey, PageKey, OpenMenu, SelectKey, ChooseKey, messages
  <2>5. CASE BackKey(k) \/ ConfirmKey(k)
    <3>1. SetNotice(h)
      BY <2>5 DEF BackKey, ConfirmKey, Leave
    <3> QED
      BY <2>1, <3>1, NoticeTurns
  <2>6. CASE CancelKey(k)
    <3>1. SetNotice(c)
      BY <2>6 DEF CancelKey, Leave
    <3> QED
      BY <2>3, <3>1, NoticeTurns
  <2> QED
    BY <1>4, <2>4, <2>5, <2>6 DEF HandleKey, AwakeKey
<1>5. CASE \/ \E a \in Actions : KeepCountdown(a)
           \/ \E a \in Actions, secs \in Countdowns : StartCountdown(a, secs)
           \/ \E wanted \in BOOLEAN : SetScheduleSleepWanted(wanted)
  BY <1>5, StillTurns
     DEF KeepCountdown, StartCountdown, SetScheduleSleepWanted, messages
<1> QED
  BY <1>2, <1>3, <1>4, <1>5 DEF Command

\* The tick: a countdown that is over orders its action; otherwise a repeat
\* that is due is armed anew and asked for.
LEMMA TickTurns ==
  ASSUME IInv, Tick
  PROVE  /\ nextRepeat' \in {nextRepeat, RepeatBeep, Never}
         /\ Repeating' =>
              \/ ordered' # NoAction
              \/ /\ Repeating /\ nextRepeat # 0
                 /\ UNCHANGED <<nextRepeat, beepPending>>
              \/ nextRepeat' = RepeatBeep /\ beepPending' \in {"Arrival", "Repeat"}
<1>1. NoticeOK(Notice)
  BY NoticeFact
<1>2. CASE TickWakes \/ TickAsleep
  <2>1. over = NoMessage
    BY <1>2 DEF TickWakes, TickAsleep, FallsAsleep, IInv, AsleepIsIdle
  <2> QED
    BY <1>2, <2>1 DEF TickWakes, TickAsleep, Repeating
<1>3. CASE TickRuns
  <2>1. ordered' # NoAction
    BY <1>3 DEF TickRuns, IInv, ModeShape, Actions
  <2>2. Hears(Notice, ApplyHeld(Notice)) /\ SetNotice(ApplyHeld(Notice))
    BY <1>1, <1>3, ApplyHeldHears DEF TickRuns, Leave
  <2>3. nextRepeat' \in {nextRepeat, RepeatBeep, Never}
    BY <2>2 DEF Hears, SetNotice, Notice
  <2> QED
    BY <2>1, <2>3
<1>4. CASE TickAwake
  <2> DEFINE r == Refreshed
             n == IF ConfirmTimedOut THEN ApplyHeld(r) ELSE r
  <2>1. ~sleeping /\ NoticeOK(r) /\ SetNotice(n)
    BY <1>4, NoticeFact DEF TickAwake, Leave
  <2>2. Hears(r, n)
    <3>1. Hears(r, r)
      BY DEF Hears
    <3> QED
      BY <2>1, <3>1, ApplyHeldHears
  <2>3. /\ ~r.sleeping /\ r.repeat \in {nextRepeat, RepeatBeep}
        /\ Repeats(r.over) =>
             \/ Repeating /\ nextRepeat # 0
                  /\ r.repeat = nextRepeat /\ r.beep = beepPending
             \/ r.repeat = RepeatBeep /\ r.beep \in {"Arrival", "Repeat"}
    <3>1. beepPending \in {"None", "Arrival", "Repeat"}
      BY DEF IInv, TypeOK
    <3> QED
      BY <3>1 DEF Refreshed, Repeats, Repeating
  <2> HIDE DEF r, n
  <2>4. /\ n.repeat \in {nextRepeat, RepeatBeep, Never}
        /\ Repeats(n.over) =>
             \/ Repeating /\ nextRepeat # 0
                  /\ n.repeat = nextRepeat /\ n.beep = beepPending
             \/ n.repeat = RepeatBeep /\ n.beep \in {"Arrival", "Repeat"}
    BY <2>2, <2>3 DEF Hears
  <2> QED
    BY <2>1, <2>4 DEF SetNotice, Repeats, Repeating
<1> QED
  BY <1>2, <1>3, <1>4 DEF Tick

-----------------------------------------------------------------------------
(* The times, and the queue. *)

LEMMA BoundFact ==
  /\ RepeatBeep \in Nat \ {0} /\ Bound \in Nat \ {0} /\ RepeatBeep <= Bound
  /\ AlertBeepInterval \in 0 .. RepeatBeep
BY IntervalsAssumption, TimesAssumption DEF Bound

\* Right after a tone there is time for a whole repeat.
LEMMA SoonAfterTone ==
  ASSUME NEW lp, NEW r \in Int, r <= RepeatBeep
  PROVE  Soon(lp, 0, r)
BY BoundFact DEF Soon

\* So there is after an arrival that was held back for l.
LEMMA SoonAfterArrival ==
  ASSUME NEW lp, NEW q \in Nat, NEW l \in Nat, l # 0,
         q + l <= AlertBeepInterval
  PROVE  Soon(lp, q, RepeatBeep)
BY BoundFact DEF Soon, Bound

LEMMA WithBeepFact ==
  ASSUME NEW q \in Seq({"beep"})
  PROVE  WithBeep(q) \in Seq({"beep"}) /\ WithBeep(q) # <<>>
<1>1. CASE Len(q) < BeepQueueDepth
  BY <1>1, AppendProperties DEF WithBeep
<1>2. CASE ~(Len(q) < BeepQueueDepth)
  <2>1. Len(<<>>) < BeepQueueDepth
    BY QueueAssumption
  <2> QED
    BY <1>2, <2>1 DEF WithBeep
<1> QED
  BY <1>1, <1>2

\* What Listens makes of the count.
LEMMA ListensFact ==
  ASSUME NEW d \in Nat, NEW tone \in BOOLEAN, quiet \in Nat, Listens(d, tone)
  PROVE  /\ quiet' = 0 \/ quiet' = quiet + d
         /\ tone \/ ~Repeating' \/ speaker' = "broken" => quiet' = 0
         /\ quiet' # 0 => quiet' = quiet + d /\ Repeating' /\ speaker' # "broken"
BY DEF Listens

\* A step of the loop in which no time passes keeps the counts.
LEMMA SameTime ==
  ASSUME Counted, NEW tone \in BOOLEAN, Listens(0, tone),
         nextRepeat' \in {nextRepeat, RepeatBeep, Never},
         lastAlert' \in {lastAlert, AlertBeepInterval}
  PROVE  Counted' /\ quiet' \in {0, quiet} /\ (tone => quiet' = 0)
<1> DEFINE q == quiet
<1>1. q \in Nat /\ q \in 0 .. Bound
  BY BoundFact DEF Counted
<1>2. quiet' = 0 \/ quiet' = q + 0
  BY <1>1, ListensFact
<1>3. tone \/ ~Repeating' \/ speaker' = "broken" => quiet' = 0
  BY <1>1, ListensFact
<1>4. 0 \in 0 .. Bound /\ q + 0 = q
  BY <1>1, BoundFact
<1>5. quiet' \in {0, q} /\ quiet' \in 0 .. Bound
  BY <1>1, <1>2, <1>4
<1>6. nextRepeat <= RepeatBeep /\ RepeatBeep <= RepeatBeep /\ Never <= RepeatBeep
  BY BoundFact DEF Counted
<1>7. nextRepeat' <= RepeatBeep
  BY <1>6
<1>8. AlertBeepInterval \in 0 .. AlertBeepInterval
  BY BoundFact
<1>9. lastAlert' \in 0 .. AlertBeepInterval
  BY <1>8 DEF Counted
<1> QED
  BY <1>3, <1>5, <1>7, <1>9 DEF Counted

\* A step of the loop is one of the panel, or leaves it alone.
LEMMA LoopIsPanel ==
  ASSUME [LoopNext]_allVars
  PROVE  [Next]_vars
<1>1. CASE Handles
  BY <1>1 DEF Handles, Locates, Command, Next
<1>2. CASE Ticks \/ TimePasses
  BY <1>2 DEF Ticks, TimePasses, Next
<1>3. CASE TakesBeep
  BY <1>3 DEF TakesBeep, Next
<1>4. CASE Works \/ Leaves \/ Ends \/ UNCHANGED allVars
  BY <1>4 DEF Works, Leaves, Ends, allVars
<1> QED
  BY <1>1, <1>2, <1>3, <1>4 DEF LoopNext

LEMMA TypesStay ==
  ASSUME LoopTypes, [LoopNext]_allVars
  PROVE  LoopTypes'
<1> USE DEF LoopTypes, LoopPhases, Workers, Flushes
<1>1. CASE Handles
  BY <1>1 DEF Handles, Locates, Beeps
<1>2. CASE Ticks \/ TakesBeep \/ Leaves \/ Ends \/ TimePasses
  BY <1>2 DEF Ticks, TakesBeep, Leaves, Ends, TimePasses, buzzer
<1>3. CASE Works
  <2>1. CASE Work
    BY <1>3, <2>1 DEF Works, Work, StartsBeep, AnswersFlush, GoesOn
  <2>2. CASE Flushing
    BY <1>3, <2>2 DEF Works, Flushing, EntersMarker, GivesUpFlush
  <2>3. CASE SpeakerChanges
    BY <1>3, <2>3 DEF Works, SpeakerChanges
  <2> QED
    BY <1>3, <2>1, <2>2, <2>3 DEF Works
<1>4. CASE UNCHANGED allVars
  BY <1>4 DEF allVars, buzzer, loopVars
<1> QED
  BY <1>1, <1>2, <1>3, <1>4 DEF LoopNext

-----------------------------------------------------------------------------
(* The loop's steps, one by one. *)

\* Heard, after a step that asks for no tone and passes no time: the message
\* still waits as it did, or its wait starts.
LEMMA HeardAgain ==
  ASSUME BeepsInv, Passing, queue' = <<>> => queue = <<>>,
         quiet' \in {0, quiet}, lastAlert' = lastAlert, nextRepeat' \in Int,
         Counted',
         queue = <<>> /\ Repeating' /\ quiet' = quiet =>
           \/ loop' # "passed" /\ Allowed'
           \/ loop' = "ticked" /\ ordered' # NoAction
           \/ Soon(loop', quiet, nextRepeat')
           \/ nextRepeat' = RepeatBeep /\ (lastAlert # 0 \/ quiet = 0)
  PROVE  Heard'
<1> SUFFICES ASSUME queue' = <<>>
             PROVE  /\ lastAlert' # 0 => quiet' + lastAlert' <= AlertBeepInterval
                    /\ Repeating' =>
                         \/ loop' # "passed" /\ Allowed'
                         \/ loop' = "ticked" /\ ordered' # NoAction
                         \/ Soon(loop', quiet', nextRepeat')
  BY DEF Heard
<1>1. queue = <<>> /\ quiet \in Nat /\ lastAlert \in 0 .. AlertBeepInterval
      /\ quiet \in 0 .. Bound
  BY BoundFact DEF BeepsInv, Counted
<1>2. lastAlert # 0 => quiet + lastAlert <= AlertBeepInterval
  BY <1>1 DEF BeepsInv, Heard
<1>3. lastAlert' # 0 => quiet' + lastAlert' <= AlertBeepInterval
  <2>1. 0 + lastAlert <= AlertBeepInterval
    BY <1>1, BoundFact
  <2> QED
    BY <1>2, <2>1
<1>4. CASE quiet' = 0
  <2>1. nextRepeat' \in Int /\ nextRepeat' <= RepeatBeep
    BY DEF Counted
  <2>2. Soon(loop', 0, nextRepeat')
    BY <2>1, SoonAfterTone
  <2> QED
    BY <1>3, <1>4, <2>2
<1>5. CASE quiet' = quiet /\ quiet # 0
  <2>1. ASSUME nextRepeat' = RepeatBeep, lastAlert # 0
        PROVE  Soon(loop', quiet, nextRepeat')
    <3>1. lastAlert \in Nat
      BY <1>1, BoundFact
    <3> QED
      BY <1>1, <1>2, <2>1, <3>1, SoonAfterArrival
  <2> QED
    BY <1>1, <1>3, <1>5, <2>1
<1> QED
  BY <1>4, <1>5

Beeping == Counted /\ Flushed /\ Pending /\ Heard

LEMMA HandlesKeeps ==
  ASSUME BeepsInv, IInv', Handles
  PROVE  Beeping'
<1>1. Passing /\ loop \in {"due", "passed"} /\ flush = "no"
      /\ queue \in Seq({"beep"}) /\ beepPending # "Repeat"
  BY DEF Handles, Loops, Passing, BeepsInv, Flushed, Pending
<1>2. Turns
  BY CommandTurns DEF Handles, Locates, BeepsInv
<1>3. \E wanted \in BOOLEAN : Beeps(wanted)
  BY DEF Handles, Locates
<1>4. /\ queue' \in Seq({"beep"}) /\ (queue' = <<>> => queue = <<>>)
      /\ speaker' = speaker /\ flush' = "no"
  BY <1>1, <1>3, WithBeepFact DEF Beeps
<1>5. loop' = "due" /\ lastAlert' = lastAlert /\ Listens(0, FALSE)
  BY DEF Handles
<1>6. Counted' /\ quiet' \in {0, quiet}
  BY <1>2, <1>5, SameTime DEF BeepsInv, Turns
<1>7. Flushed'
  BY <1>4, <1>5 DEF Flushed, Passing
<1>8. Pending'
  BY <1>1, <1>2, <1>5 DEF Pending, Turns
<1>9. Heard'
  <2>1. nextRepeat' \in Int
    BY DEF IInv, TypeOK, Timer
  <2>2. ASSUME queue = <<>>, Repeating', quiet' = quiet
        PROVE  \/ loop' # "passed" /\ Allowed'
               \/ Soon(loop', quiet, nextRepeat')
               \/ nextRepeat' = RepeatBeep /\ (lastAlert # 0 \/ quiet = 0)
    <3>1. CASE Repeating /\ UNCHANGED <<nextRepeat, beepPending>>
      <4>1. (loop # "passed" /\ Allowed) \/ Soon(loop, quiet, nextRepeat)
        BY <1>1, <2>2, <3>1 DEF BeepsInv, Heard
      <4> QED
        BY <1>5, <3>1, <4>1 DEF Allowed, Soon
    <3>2. CASE nextRepeat' = RepeatBeep /\ beepPending' = "Arrival"
      BY <1>5, <3>2 DEF Allowed
    <3>3. CASE nextRepeat' = RepeatBeep /\ ~Repeating
      BY <3>3 DEF BeepsInv, Counted
    <3> QED
      BY <1>2, <2>2, <3>1, <3>2, <3>3 DEF Turns
  <2> QED
    BY <1>1, <1>4, <1>5, <1>6, <2>1, <2>2, HeardAgain
<1> QED
  BY <1>6, <1>7, <1>8, <1>9 DEF Beeping

LEMMA TicksKeeps ==
  ASSUME BeepsInv, IInv', Ticks
  PROVE  Beeping'
<1>1. Passing /\ loop = "due" /\ flush = "no" /\ queue \in Seq({"beep"})
  BY DEF Ticks, Passing, BeepsInv, Flushed
<1>2. /\ nextRepeat' \in {nextRepeat, RepeatBeep, Never}
      /\ Repeating' =>
           \/ ordered' # NoAction
           \/ Repeating /\ nextRepeat # 0 /\ UNCHANGED <<nextRepeat, beepPending>>
           \/ nextRepeat' = RepeatBeep /\ beepPending' \in {"Arrival", "Repeat"}
  BY TickTurns DEF Ticks, BeepsInv
<1>3. /\ loop' = "ticked" /\ lastAlert' = lastAlert /\ Listens(0, FALSE)
      /\ UNCHANGED <<queue, worker, speaker, flush>>
  BY DEF Ticks, buzzer
<1>4. Counted' /\ quiet' \in {0, quiet}
  BY <1>2, <1>3, SameTime DEF BeepsInv
<1>5. Flushed'
  BY <1>1, <1>3 DEF Flushed, Passing
<1>6. Pending'
  BY <1>3 DEF Pending
<1>7. Heard'
  <2>1. nextRepeat' \in Int
    BY DEF IInv, TypeOK, Timer
  <2>2. ASSUME queue = <<>>, Repeating', quiet' = quiet
        PROVE  \/ loop' # "passed" /\ Allowed'
               \/ loop' = "ticked" /\ ordered' # NoAction
               \/ Soon(loop', quiet, nextRepeat')
               \/ nextRepeat' = RepeatBeep /\ (lastAlert # 0 \/ quiet = 0)
    <3>1. CASE ordered' # NoAction
      BY <1>3, <3>1
    <3>2. CASE Repeating /\ nextRepeat # 0 /\ UNCHANGED <<nextRepeat, beepPending>>
      <4>1. Allowed \/ Soon(loop, quiet, nextRepeat)
        BY <1>1, <2>2, <3>2 DEF BeepsInv, Heard
      <4> QED
        BY <1>3, <3>2, <4>1 DEF Allowed, Soon
    <3>3. CASE nextRepeat' = RepeatBeep /\ beepPending' \in {"Arrival", "Repeat"}
      BY <1>3, <3>3 DEF Allowed
    <3> QED
      BY <1>2, <2>2, <3>1, <3>2, <3>3
  <2> QED
    BY <1>1, <1>3, <1>4, <2>1, <2>2, HeardAgain
<1> QED
  BY <1>4, <1>5, <1>6, <1>7 DEF Beeping

\* The pass that finds nothing to beep for leaves the wait as it was.
LEMMA TakesBeepKeeps ==
  ASSUME BeepsInv, IInv', TakesBeep
  PROVE  Beeping'
<1>1. Passing /\ loop = "ticked" /\ flush = "no" /\ queue \in Seq({"beep"})
  BY DEF TakesBeep, Passing, BeepsInv, Flushed
<1>2. /\ loop' = "passed" /\ Listens(0, FALSE)
      /\ UNCHANGED <<worker, speaker, flush>> /\ lastAlert' = Limited
  BY DEF TakesBeep
<1>3. /\ UNCHANGED <<over, nextRepeat>> /\ beepPending' = "None"
  BY DEF TakesBeep, TakeBeep, vars, menu, messages
<1>4. /\ queue' \in Seq({"beep"})
      /\ queue' = <<>> => queue = <<>> /\ ~Allowed /\ ordered = NoAction
  <2> DEFINE q == IF Allowed THEN WithBeep(queue) ELSE queue
  <2>1. q \in Seq({"beep"}) /\ (q = <<>> => queue = <<>> /\ ~Allowed)
    BY <1>1, WithBeepFact
  <2>2. queue' = IF ordered # NoAction THEN WithBeep(q) ELSE q
    BY DEF TakesBeep
  <2> HIDE DEF q
  <2> QED
    BY <2>1, <2>2, WithBeepFact
<1>5. Counted' /\ quiet' \in {0, quiet}
  <2>1. lastAlert' \in {lastAlert, AlertBeepInterval}
    BY <1>2 DEF Limited
  <2> QED
    BY <1>2, <1>3, <2>1, SameTime DEF BeepsInv
<1>6. Flushed'
  BY <1>1, <1>2, <1>4 DEF Flushed, Passing
<1>7. Pending'
  BY <1>3 DEF Pending
<1>8. Heard'
  <2>1. nextRepeat' \in Int
    BY DEF IInv, TypeOK, Timer
  <2>2. CASE queue' = <<>>
    <3>1. queue = <<>> /\ ~Allowed /\ ordered = NoAction /\ lastAlert' = lastAlert
      BY <1>2, <1>4, <2>2 DEF Limited
    <3>2. ASSUME Repeating', quiet' = quiet
          PROVE  Soon(loop', quiet, nextRepeat')
      <4>1. Repeating
        BY <1>3, <3>2 DEF Repeating
      <4>2. Soon(loop, quiet, nextRepeat)
        BY <1>1, <3>1, <4>1 DEF BeepsInv, Heard
      <4> QED
        BY <1>1, <1>2, <1>3, <4>2 DEF Soon
    <3> QED
      BY <1>1, <1>5, <2>1, <3>1, <3>2, HeardAgain
  <2>3. CASE queue' # <<>>
    BY <2>3 DEF Heard
  <2> QED
    BY <2>2, <2>3
<1> QED
  BY <1>5, <1>6, <1>7, <1>8 DEF Beeping

\* The worker on a queue that holds beeps only, and with the marker behind them.
LEMMA WorkOnBeeps ==
  ASSUME queue \in Seq({"beep"}), Work
  PROVE  /\ queue' \in Seq({"beep"}) /\ UNCHANGED <<speaker, flush>>
         /\ queue' = queue \/ worker' = "sounding" \/ speaker' = "broken"
<1>1. CASE StartsBeep
  <2>1. queue' \in Seq({"beep"})
    BY <1>1, HeadTailProperties DEF StartsBeep
  <2> QED
    BY <1>1, <2>1 DEF StartsBeep
<1>2. CASE AnswersFlush
  <2>1. queue # <<>> /\ Head(queue) = "marker"
    BY <1>2 DEF AnswersFlush
  <2>2. Head(queue) \in {"beep"}
    BY <2>1, HeadTailProperties
  <2> QED
    BY <2>1, <2>2
<1>3. CASE GoesOn
  BY <1>3 DEF GoesOn
<1> QED
  BY <1>1, <1>2, <1>3 DEF Work

LEMMA WorkOnMarker ==
  ASSUME EndsInMarker, Work
  PROVE  \/ flush' = flush /\ EndsInMarker'
         \/ flush' = "answered" /\ queue' = <<>> /\ worker' = "idle"
<1>1. PICK q \in Seq({"beep"}) : queue = Append(q, "marker")
  BY DEF EndsInMarker
<1>2. /\ Head(queue) = IF q = <<>> THEN "marker" ELSE Head(q)
      /\ Tail(queue) = IF q = <<>> THEN <<>> ELSE Append(Tail(q), "marker")
  BY <1>1, HeadTailAppend
<1>3. q # <<>> => Head(q) = "beep" /\ Tail(q) \in Seq({"beep"})
  BY HeadTailProperties
<1>4. CASE StartsBeep
  BY <1>2, <1>3, <1>4 DEF StartsBeep, EndsInMarker
<1>5. CASE AnswersFlush
  BY <1>2, <1>3, <1>5 DEF AnswersFlush
<1>6. CASE GoesOn
  BY <1>1, <1>6 DEF GoesOn, EndsInMarker
<1> QED
  BY <1>4, <1>5, <1>6 DEF Work

LEMMA WorksKeeps ==
  ASSUME BeepsInv, IInv', Works
  PROVE  Beeping'
<1>1. /\ UNCHANGED <<vars, loop, lastAlert>> /\ loop # "ended"
      /\ Work \/ Flushing \/ SpeakerChanges
      /\ Listens(0, worker' = "sounding")
  BY DEF Works
<1>2. UNCHANGED <<over, nextRepeat, beepPending, ordered>>
  BY <1>1 DEF vars, messages
<1>3. Counted' /\ quiet' \in {0, quiet}
      /\ (worker' = "sounding" \/ speaker' = "broken" => quiet' = 0)
  <2> DEFINE tone == worker' = "sounding"
  <2>1. tone \in BOOLEAN /\ Listens(0, tone)
    BY <1>1
  <2>2. Counted
    BY DEF BeepsInv
  <2> HIDE DEF tone
  <2>3. Counted' /\ quiet' \in {0, quiet} /\ (tone => quiet' = 0)
    BY <1>1, <1>2, <2>1, <2>2, SameTime
  <2> QED
    BY <2>3 DEF Counted, tone
<1>4. Flushed
  BY DEF BeepsInv
<1>5. Flushed' /\ (Passing => (queue' = queue \/ quiet' = 0))
  <2>1. Passing' <=> Passing
    BY <1>1 DEF Passing
  <2>2. CASE Work
    <3>1. CASE flush \in {"no", "entering"}
      <4>1. queue \in Seq({"beep"})
        BY <1>4, <3>1 DEF Flushed
      <4>2. /\ queue' \in Seq({"beep"}) /\ UNCHANGED <<speaker, flush>>
            /\ queue' = queue \/ worker' = "sounding" \/ speaker' = "broken"
        BY <2>2, <4>1, WorkOnBeeps
      <4> QED
        BY <1>1, <1>3, <1>4, <2>1, <3>1, <4>2 DEF Flushed
    <3>2. CASE flush \in {"waiting", "gave up"} /\ EndsInMarker
      <4>1. \/ flush' = flush /\ EndsInMarker'
            \/ flush' = "answered" /\ queue' = <<>> /\ worker' = "idle"
        BY <2>2, <3>2, WorkOnMarker
      <4> QED
        BY <1>1, <1>4, <2>1, <3>2, <4>1 DEF Flushed
    <3>3. CASE flush = "answered"
      BY <1>4, <2>2, <3>3 DEF Flushed, Work, StartsBeep, AnswersFlush, GoesOn
    <3>4. CASE flush = "gave up" /\ queue \in Seq({"beep"})
      <4>1. queue' \in Seq({"beep"}) /\ flush' = flush
        BY <2>2, <3>4, WorkOnBeeps
      <4> QED
        BY <1>1, <1>4, <2>1, <3>4, <4>1 DEF Flushed
    <3> QED
      BY <1>4, <3>1, <3>2, <3>3, <3>4 DEF BeepsInv, LoopTypes, Flushes, Flushed
  <2>3. CASE Flushing
    <3>1. flush # "no" /\ ~Passing
      BY <1>4, <2>3 DEF Flushing, EntersMarker, GivesUpFlush, Flushed
    <3>2. CASE EntersMarker
      <4>1. queue \in Seq({"beep"}) /\ queue' = Append(queue, "marker")
            /\ flush' = "waiting"
        BY <1>4, <3>2 DEF EntersMarker, Flushed
      <4> QED
        BY <1>1, <1>4, <2>1, <3>1, <4>1 DEF Flushed, EndsInMarker
    <3>3. CASE GivesUpFlush
      <4>1. flush \in {"entering", "waiting"} /\ flush' = "gave up" /\ queue' = queue
        BY <3>3 DEF GivesUpFlush
      <4>2. queue \in Seq({"beep"}) \/ EndsInMarker
        BY <1>4, <4>1 DEF Flushed
      <4>3. queue' \in Seq({"beep"}) \/ EndsInMarker'
        BY <4>1, <4>2 DEF EndsInMarker
      <4> QED
        BY <1>1, <1>4, <2>1, <3>1, <4>1, <4>3 DEF Flushed
    <3> QED
      BY <2>3, <3>2, <3>3 DEF Flushing
  <2>4. CASE SpeakerChanges
    BY <1>1, <1>4, <2>1, <2>4 DEF SpeakerChanges, Flushed, EndsInMarker
  <2> QED
    BY <1>1, <2>2, <2>3, <2>4
<1>6. Pending'
  BY <1>1, <1>2 DEF BeepsInv, Pending
<1>7. Heard'
  <2>1. CASE ~Passing
    BY <1>1, <2>1 DEF Heard, Passing
  <2>2. CASE Passing /\ quiet' = 0
    <3>1. nextRepeat' \in Int /\ nextRepeat' <= RepeatBeep
      BY <1>3 DEF IInv, TypeOK, Timer, Counted
    <3>2. Soon(loop', quiet', nextRepeat')
      BY <2>2, <3>1, SoonAfterTone
    <3>3. lastAlert \in 0 .. AlertBeepInterval
      BY DEF BeepsInv, Counted
    <3>4. 0 + lastAlert <= AlertBeepInterval
      BY <3>3, BoundFact
    <3>5. quiet' + lastAlert' <= AlertBeepInterval
      BY <1>1, <2>2, <3>4
    <3> QED
      BY <3>2, <3>5, Zenon DEF Heard
  <2>3. CASE Passing /\ queue' = queue /\ quiet' = quiet
    BY <1>1, <1>2, <2>3 DEF BeepsInv, Heard, Passing, Repeating, Allowed, Soon
  <2> QED
    BY <1>3, <1>5, <2>1, <2>2, <2>3
<1> QED
  BY <1>3, <1>5, <1>6, <1>7 DEF Beeping

LEMMA EndingKeeps ==
  ASSUME BeepsInv, IInv', Leaves \/ Ends
  PROVE  Beeping'
<1>1. UNCHANGED <<vars, worker, speaker, lastAlert>> /\ Listens(0, FALSE)
      /\ loop' \in {"leaving", "ended"}
  BY DEF Leaves, Ends, buzzer
<1>2. UNCHANGED <<over, nextRepeat, beepPending, ordered>>
  BY <1>1 DEF vars, messages
<1>3. Counted'
  BY <1>1, <1>2, SameTime DEF BeepsInv
<1>4. ~Passing' /\ Flushed
  BY <1>1 DEF Passing, BeepsInv
<1>5. Flushed'
  <2>1. CASE Leaves
    <3>1. queue \in Seq({"beep"})
      BY <2>1 DEF Leaves, BeepsInv, Flushed, Passing
    <3>2. queue' \in Seq({"beep"})
      BY <2>1, <3>1, WithBeepFact DEF Leaves
    <3> QED
      BY <1>4, <2>1, <3>2 DEF Leaves, Flushed
  <2>2. CASE Ends
    BY <1>4, <2>2 DEF Ends, Flushed, EndsInMarker, buzzer
  <2> QED
    BY <2>1, <2>2
<1>6. Pending' /\ Heard'
  <2>1. loop \in {"passed", "leaving"}
    BY DEF Leaves, Ends
  <2> QED
    BY <1>1, <1>2, <1>4, <2>1 DEF Pending, Heard, BeepsInv
<1> QED
  BY <1>3, <1>5, <1>6 DEF Beeping

\* A unit of time, taken from what is left and added to the wait.
LEMMA TimePassesKeeps ==
  ASSUME BeepsInv, IInv', TimePasses
  PROVE  Beeping'
<1>1. /\ Passing /\ loop = "passed" /\ flush = "no" /\ queue \in Seq({"beep"})
      /\ queue = <<>> \/ speaker = "broken"
  BY DEF TimePasses, Passing, BeepsInv, Flushed, Rests
<1>2. /\ loop' = "due" /\ UNCHANGED <<queue, worker, speaker, flush>>
      /\ Elapse /\ lastAlert' = Less(lastAlert) /\ Listens(1, FALSE)
  BY DEF TimePasses, buzzer
<1> DEFINE q == quiet
           l == lastAlert
           r == nextRepeat
<1>3. /\ q \in Nat /\ q <= Bound /\ l \in Nat /\ l <= AlertBeepInterval
      /\ r \in Int /\ r >= -1 /\ r <= RepeatBeep
  BY BoundFact DEF BeepsInv, Counted, IInv, TypeOK, Timer
<1>4. lastAlert' = Less(l) /\ nextRepeat' = Less(r)
  BY <1>2 DEF Elapse
<1>5. /\ Less(l) \in Nat /\ Less(l) <= AlertBeepInterval
      /\ Less(r) \in Int /\ Less(r) <= RepeatBeep
  BY <1>3, BoundFact DEF Less
<1>6. /\ quiet' = 0 \/ quiet' = q + 1
      /\ ~Repeating' \/ speaker' = "broken" => quiet' = 0
  <2>1. /\ quiet' = 0 \/ quiet' = quiet + 1
        /\ ~Repeating' \/ speaker' = "broken" => quiet' = 0
    BY <1>2, <1>3, ListensFact
  <2> QED
    BY <2>1
<1>7. quiet' # 0 => queue = <<>> /\ Repeating
  <2>1. over \in MaybeMessage /\ Endless(over) /\ over' = Older(over)
    BY <1>2 DEF Elapse, BeepsInv, IInv, TypeOK, MaybeMessage
  <2>2. Repeating' => Repeating
    BY <2>1, OlderFact DEF Repeating
  <2> QED
    BY <1>1, <1>2, <1>6, <2>2
<1>8. queue = <<>> =>
        /\ l # 0 => q + l <= AlertBeepInterval
        /\ Repeating => Soon("passed", q, r)
  BY <1>1 DEF BeepsInv, Heard
<1>9. Repeating => r >= 0
  BY <1>3 DEF BeepsInv, IInv, RepeatArmed, Repeating
<1> HIDE DEF q, l, r
<1>10. /\ l # 0 /\ q + l <= AlertBeepInterval /\ Less(l) # 0 =>
            q + 1 + Less(l) <= AlertBeepInterval
       /\ l = 0 => Less(l) = 0
  BY <1>3 DEF Less
<1>11. r >= 0 /\ Soon("passed", q, r) =>
         q + 1 \in 0 .. Bound /\ Soon("due", q + 1, Less(r))
  BY <1>3, BoundFact DEF Less, Soon
<1>12. Counted'
  <2>1. quiet' \in 0 .. Bound
    <3>1. 0 \in 0 .. Bound
      BY BoundFact
    <3> QED
      BY <1>6, <1>7, <1>8, <1>9, <1>11, <3>1
  <2>2. Less(l) \in 0 .. AlertBeepInterval
    BY <1>5, BoundFact
  <2> QED
    BY <1>4, <1>5, <1>6, <2>1, <2>2 DEF Counted
<1>13. Flushed' /\ Pending'
  BY <1>1, <1>2 DEF Flushed, Pending, Passing, Elapse, BeepsInv
<1>14. Heard'
  <2> SUFFICES ASSUME queue' = <<>>
               PROVE  /\ lastAlert' # 0 => quiet' + lastAlert' <= AlertBeepInterval
                      /\ Soon(loop', quiet', nextRepeat')
    BY DEF Heard
  <2>1. queue = <<>>
    BY <1>2
  <2>2. CASE quiet' = 0
    <3>1. 0 + Less(l) <= AlertBeepInterval /\ Soon(loop', 0, Less(r))
      BY <1>5, BoundFact, SoonAfterTone
    <3> QED
      BY <1>4, <2>2, <3>1
  <2>3. CASE quiet' # 0
    <3>1. quiet' = q + 1 /\ Repeating
      BY <1>6, <1>7, <2>3
    <3>2. Less(l) # 0 => q + 1 + Less(l) <= AlertBeepInterval
      BY <1>8, <1>10, <2>1
    <3>3. Soon("due", q + 1, Less(r))
      BY <1>8, <1>9, <1>11, <2>1, <3>1
    <3> QED
      BY <1>2, <1>4, <3>1, <3>2, <3>3
  <2> QED
    BY <2>2, <2>3
<1> QED
  BY <1>12, <1>13, <1>14 DEF Beeping

-----------------------------------------------------------------------------
(* The theorems about the beeps. *)

LEMMA LoopStarts == LoopInit => BeepsInv
<1> SUFFICES ASSUME LoopInit PROVE BeepsInv
  OBVIOUS
<1>1. IInv /\ over = NoMessage /\ beepPending = "None" /\ nextRepeat = Never
  BY InitIInv DEF LoopInit, Init
<1>2. loop = "due" /\ lastAlert = 0 /\ quiet = 0 /\ worker = "idle"
      /\ speaker = "fine" /\ flush = "no" /\ queue \in {<<>>, <<"beep">>}
  BY DEF LoopInit, BuzzerInit
<1>3. Counted
  <2>1. 0 \in 0 .. Bound /\ 0 \in 0 .. AlertBeepInterval /\ Never <= RepeatBeep
    BY BoundFact
  <2> QED
    BY <1>1, <1>2, <2>1 DEF Counted
<1>4. queue \in Seq({"beep"})
  <2>1. <<>> \in Seq({"beep"}) /\ <<"beep">> \in Seq({"beep"})
    OBVIOUS
  <2> QED
    BY <1>2, <2>1
<1> QED
  BY <1>1, <1>2, <1>3, <1>4
     DEF BeepsInv, LoopTypes, LoopPhases, Workers, Flushes, Flushed, Passing,
         Pending, Heard, Repeating

LEMMA LoopKeeps == BeepsInv /\ [LoopNext]_allVars => BeepsInv'
<1> SUFFICES ASSUME BeepsInv, [LoopNext]_allVars PROVE BeepsInv'
  OBVIOUS
<1>1. IInv' /\ LoopTypes'
  BY LoopIsPanel, NextIInv, TypesStay DEF BeepsInv
<1>2. CASE Handles
  BY <1>1, <1>2, HandlesKeeps DEF BeepsInv, Beeping
<1>3. CASE Ticks
  BY <1>1, <1>3, TicksKeeps DEF BeepsInv, Beeping
<1>4. CASE TakesBeep
  BY <1>1, <1>4, TakesBeepKeeps DEF BeepsInv, Beeping
<1>5. CASE Works
  BY <1>1, <1>5, WorksKeeps DEF BeepsInv, Beeping
<1>6. CASE Leaves \/ Ends
  BY <1>1, <1>6, EndingKeeps DEF BeepsInv, Beeping
<1>7. CASE TimePasses
  BY <1>1, <1>7, TimePassesKeeps DEF BeepsInv, Beeping
<1>8. CASE UNCHANGED allVars
  <2>1. Counted' /\ Flushed' /\ Pending'
    BY <1>8 DEF BeepsInv, Counted, Flushed, EndsInMarker, Pending, Passing,
                Repeating, allVars, vars, messages, buzzer, loopVars
  <2>2. Heard'
    BY <1>8 DEF BeepsInv, Heard, Passing, Repeating, Allowed, Soon, allVars,
                vars, messages, buzzer, loopVars
  <2> QED
    BY <1>1, <2>1, <2>2 DEF BeepsInv
<1> QED
  BY <1>2, <1>3, <1>4, <1>5, <1>6, <1>7, <1>8 DEF LoopNext

\* The invariant of the loop and the buzzer together.
THEOREM BeepsAreCounted == LoopSpec => []BeepsInv
BY LoopStarts, LoopKeeps, PTL DEF LoopSpec

\* A message that repeats its beep is never without a tone for two intervals,
\* whatever is held back by the limit on arrivals (take_beep, play_alert).
THEOREM RepeatHeard == LoopSpec => []RepeatIsHeard
<1>1. BeepsInv => RepeatIsHeard
  <2> SUFFICES ASSUME BeepsInv PROVE RepeatIsHeard
    OBVIOUS
  <2>1. quiet \in 0 .. Bound
    BY DEF BeepsInv, Counted
  <2> QED
    BY <2>1, BoundFact DEF Bound, RepeatIsHeard
<1> QED
  BY <1>1, BeepsAreCounted, PTL

\* The daemon ends only when the last beep it asked for is over, or the
\* speaker is stuck (Buzzer::flush).
THEOREM NothingIsCutShort == LoopSpec => []NothingCutShort
<1>1. BeepsInv => NothingCutShort
  BY DEF BeepsInv, Flushed, NothingCutShort
<1> QED
  BY <1>1, BeepsAreCounted, PTL

=============================================================================
