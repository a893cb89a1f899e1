------------------------------ MODULE AlertBeeps ------------------------------
(***************************************************************************)
(* From a message on the panel to a tone from the chassis: AppState, whose *)
(* beeps the event loop takes after each tick and limits                   *)
(* (src/src/main.rs), and the Buzzer it gives them to, up to the flush     *)
(* before the daemon ends.                                                 *)
(*                                                                         *)
(* A unit of time is half of ALERT_BEEP_INTERVAL, which is long: the loop  *)
(* has passed and the buzzer has played what it has been given, or is      *)
(* stuck, before the next one.                                             *)
(***************************************************************************)
EXTENDS AppState, Buzzer

CONSTANTS
  AlertBeepInterval, \* ALERT_BEEP_INTERVAL
  FindMeInterval     \* FIND_ME_INTERVAL

\* Both intervals of the first line are one minute.
ASSUME IntervalsAssumption ==
  /\ RepeatBeep > 0 /\ AlertBeepInterval \in 0 .. RepeatBeep
  /\ FindMeInterval \in Nat

VARIABLES
  loop,      \* see LoopPhases
  lastAlert, \* last_alert_beep: time left until the next arrival may beep
  findMe,    \* find_me_last, likewise
  quiet      \* how long a repeating message has been showing without a tone

loopVars == <<loop, lastAlert, findMe, quiet>>
allVars == <<vars, buzzer, loopVars>>

\* due: a pass is due; ticked: tick has run, take_beep is next; passed;
\* leaving: the loop has ended, shutdown runs; ended: flush has returned.
LoopPhases == {"due", "ticked", "passed", "leaving", "ended"}

Loops == loop \in {"due", "passed"}
Repeating == over # NoMessage /\ over.beep = "repeat"

\* The loop's own beeps change the queue and nothing else of the buzzer.
Beeps(wanted) ==
  /\ queue' = IF wanted THEN WithBeep(queue) ELSE queue
  /\ UNCHANGED <<worker, speaker, flush>>

\* quiet counts while it has to, and starts anew with every tone.
Listens(d, tone) ==
  quiet' = IF tone \/ ~Repeating' \/ speaker' = "broken" THEN 0 ELSE quiet + d

-----------------------------------------------------------------------------

\* A chassis LOCATE beeps, but not again within FIND_ME_INTERVAL.
Locates(ttl) ==
  /\ StartLocate(ttl)
  /\ Beeps(findMe = 0)
  /\ findMe' = IF findMe = 0 THEN FindMeInterval ELSE findMe

\* Everything else the loop hands to the panel, and the power action that may
\* come of it, which is announced by a beep (apply_effect).
Command ==
  \/ \E s \in Shows : Show(s)
  \/ Clear
  \/ StopLocate
  \/ \E k \in Keys : HandleKey(k)
  \/ \E a \in Actions : KeepCountdown(a)
  \/ \E a \in Actions, secs \in Countdowns : StartCountdown(a, secs)
  \/ \E wanted \in BOOLEAN : SetScheduleSleepWanted(wanted)

Handles ==
  /\ Loops
  /\ \/ \E ttl \in LocateTtls : Locates(ttl)
     \/ Command /\ Beeps(ordered' # NoAction) /\ UNCHANGED findMe
  /\ loop' = "due"
  /\ UNCHANGED lastAlert
  /\ Listens(0, FALSE)

Ticks ==
  /\ loop = "due"
  /\ Tick
  /\ loop' = "ticked"
  /\ UNCHANGED <<buzzer, lastAlert, findMe>>
  /\ Listens(0, FALSE)

\* An arrival at most once in the interval; a repeat always.
Allowed == \/ beepPending = "Repeat"
           \/ beepPending = "Arrival" /\ lastAlert = 0

\* One that is held back starts the interval anew: RepeatIsHeard.
Limited_Slip == IF beepPending # "None" THEN AlertBeepInterval ELSE lastAlert

Limited == IF Allowed THEN AlertBeepInterval ELSE lastAlert

\* take_beep, then the effect of the tick.
TakesBeep ==
  /\ loop = "ticked"
  /\ TakeBeep \/ (beepPending = "None" /\ UNCHANGED vars)
  /\ queue' = LET q == IF Allowed THEN WithBeep(queue) ELSE queue
              IN  IF ordered # NoAction THEN WithBeep(q) ELSE q
  /\ lastAlert' = Limited
  /\ loop' = "passed"
  /\ UNCHANGED <<worker, speaker, flush, findMe>>
  /\ Listens(0, FALSE)

Works ==
  /\ loop # "ended"
  /\ Work \/ Flushing \/ SpeakerChanges
  /\ UNCHANGED <<vars, loop, lastAlert, findMe>>
  /\ Listens(0, worker' = "sounding")

\* Told to stop, the loop ends with its pass; the box may be going down too,
\* which has a beep of its own.  Then flush.
Leaves ==
  /\ loop = "passed"
  /\ loop' = "leaving"
  /\ flush' = "entering"
  /\ \E goingDown \in BOOLEAN : queue' = IF goingDown THEN WithBeep(queue) ELSE queue
  /\ UNCHANGED <<vars, worker, speaker, lastAlert, findMe>>
  /\ Listens(0, FALSE)

\* Flush does not wait for its answer: NothingCutShort.
Ends_Slip ==
  /\ loop = "leaving" /\ flush \in {"waiting", "answered", "gave up"}
  /\ loop' = "ended"
  /\ UNCHANGED <<vars, buzzer, lastAlert, findMe>>
  /\ Listens(0, FALSE)

Ends ==
  /\ loop = "leaving" /\ flush \in {"answered", "gave up"}
  /\ loop' = "ended"
  /\ UNCHANGED <<vars, buzzer, lastAlert, findMe>>
  /\ Listens(0, FALSE)

TimePasses ==
  /\ loop = "passed" /\ Rests
  /\ Elapse
  /\ lastAlert' = Less(lastAlert)
  /\ findMe' = Less(findMe)
  /\ loop' = "due"
  /\ UNCHANGED buzzer
  /\ Listens(1, FALSE)

LoopInit ==
  /\ Init /\ BuzzerInit
  /\ loop = "due" /\ lastAlert = 0 /\ findMe = 0 /\ quiet = 0

LoopNext == Handles \/ Ticks \/ TakesBeep \/ Works \/ Leaves \/ Ends \/ TimePasses

LoopSpec == LoopInit /\ [][LoopNext]_allVars

-----------------------------------------------------------------------------
(* Properties. *)

\* While a repeating message shows, whatever else arrives, is pressed or is
\* held back, and whatever the buzzer still has to play, two intervals never
\* go by without a tone from a speaker that works.
RepeatIsHeard == quiet < 2 * RepeatBeep

\* The daemon does not end before every beep it has asked for is over, unless
\* the speaker is stuck.
NothingCutShort ==
  loop = "ended" =>
    flush = "gave up" \/ (queue = <<>> /\ worker \in {"idle", "pausing"})
=============================================================================
