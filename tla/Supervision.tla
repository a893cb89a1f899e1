----------------------------- MODULE Supervision -----------------------------
(***************************************************************************)
(* Who looks after the hardware while the daemon runs, hangs, dies, stops  *)
(* and starts again: the fan control thread (FanService, fan.rs) and the   *)
(* thread of the CPU power limits (CpuPowerService, cpu_power.rs), the     *)
(* main loop that checks on both (main.rs), the feeder of systemd's        *)
(* watchdog (sd_notify.rs), and systemd with the unit's ExecStopPost,      *)
(* which runs `lcm-status fan-failsafe` (lcm-status.service).              *)
(*                                                                         *)
(* What the two threads decide is FanController and CpuPower. Here a       *)
(* device is driven when the last write to it was a thread's own;          *)
(* otherwise it is as found before the first start, or safe: the fans at   *)
(* full speed, the limits at stock.                                        *)
(*                                                                         *)
(* Time. In a unit of time every thread that is not stuck gets its turn:   *)
(* each passes many times a second, and the units are seconds. `acted` is  *)
(* who has had one. Starting and the fail-safe take less than a unit.      *)
(*                                                                         *)
(* A definition whose name ends in _Slip is the next one with a mistake in *)
(* it; see AppState.                                                       *)
(***************************************************************************)
EXTENDS Integers

CONSTANTS
  HeartbeatTimeout, \* FAN_HEARTBEAT_TIMEOUT, of both threads
  StallAfter,       \* MAIN_LOOP_STALL_AFTER
  JoinTimeout,      \* SHUTDOWN_JOIN_TIMEOUT, of both
  PingEvery,        \* how often the feeder pings at most
  WatchdogSec,      \* of the unit, like the next
  TimeoutStopSec

Guards == {"fans", "cpu"}
Threads == Guards \cup {"main"}
Timer == {t \in Int : t >= 0}

ASSUME TimesAssumption ==
  /\ {HeartbeatTimeout, StallAfter, JoinTimeout, PingEvery, WatchdogSec,
      TimeoutStopSec} \subseteq Timer
  /\ PingEvery < WatchdogSec \* half the period

VARIABLES
  unit,      \* what systemd has the unit in: see Units
  main,      \* where the main thread is: see Places
  stuck,     \* the threads that hang in a call
  alive,     \* the guards whose thread has not ended
  driven,    \* the guards whose device is driven
  took,      \* a FanController has last_pwm: it took control
  asked,     \* "signal": SIGTERM; "stop": systemd's
  failed,    \* the process ends, or ended, with an error
  age,       \* how old each thread's heartbeat, or progress, is
  sincePing, \* how long systemd has had no ping
  since,     \* how long the main thread has been where it is
  stopFor,   \* how long systemd has been stopping the unit
  exposed,   \* the devices the last fail-safe could not set
  acted,     \* who has had a turn in this unit of time
  \* What the properties look back on:
  watched,   \* the guard whose device is looked at
  adriftFor, \* how long it has been adrift
  wellAgo    \* how long ago the feeder last found all well

process == <<main, stuck, alive, took, failed>>
clocks == <<age, sincePing, since, stopFor>>
history == <<watched, adriftFor, wellAgo>>
vars == <<unit, process, driven, asked, clocks, exposed, acted, history>>

\* "post": ExecStopPost runs; "waiting": RestartSec
Units == {"inactive", "waiting", "active", "stopping", "post"}
Places == {"gone", "looping", "joining", "forcing", "cleaning"}
Running == main # "gone"

Turn(who) == Running /\ who \notin acted /\ acted' = acted \cup {who}

-----------------------------------------------------------------------------
(* The guards' threads. *)

\* FanService::shutdown and CpuPowerService::shutdown have set their flag.
Stopped(g) ==
  IF g = "fans" THEN main \in {"joining", "forcing", "cleaning"}
                ELSE main = "cleaning"

\* A thread that ends, or unwinds, drops its controllers, whose restore()
\* goes to full speed if they took control, and if the writes succeed.  The
\* limits stay as they are.
Dropped(g, ok) == IF g = "fans" /\ took /\ ok THEN driven \ {g} ELSE driven

\* One turn of a guard's loop.  The writes may fail, also after manual mode
\* was set: the device is then not as found, but control was not taken.
Works(g) ==
  /\ g \in alive \ stuck /\ ~Stopped(g) /\ Turn(g)
  /\ \/ driven' = driven \cup {g} /\ took' = (took \/ g = "fans")
     \/ driven' = driven \cup {g} /\ UNCHANGED took
     \/ UNCHANGED <<driven, took>>
  /\ age' = [age EXCEPT ![g] = 0]
  /\ UNCHANGED <<unit, main, stuck, alive, failed, asked, sincePing, since>>
  /\ UNCHANGED <<stopFor, exposed>>

Ends(g) ==
  /\ Running /\ g \in alive \ stuck
  /\ alive' = alive \ {g}
  /\ \E ok \in BOOLEAN : driven' = Dropped(g, ok)
  /\ UNCHANGED <<unit, main, stuck, took, failed, asked, clocks, exposed, acted>>

Stops(g) == Stopped(g) /\ Ends(g)
Panics(g) == ~Stopped(g) /\ Ends(g)

\* A call hangs: a write of a guard's, or what the main thread waits for.
Hangs(t) ==
  /\ Running /\ t \notin stuck
  /\ IF t = "main" THEN main \in {"looping", "cleaning"} ELSE t \in alive
  /\ stuck' = stuck \cup {t}
  /\ UNCHANGED <<unit, main, alive, driven, took, failed, asked, clocks>>
  /\ UNCHANGED <<exposed, acted>>

\* It returns after all: a guard's write lands, whatever happened since.
Returns(t) ==
  /\ Running /\ t \in stuck
  /\ stuck' = stuck \ {t}
  /\ driven' = driven \cup ({t} \cap Guards)
  /\ took' = (took \/ t = "fans")
  /\ UNCHANGED <<unit, main, alive, failed, asked, clocks, exposed, acted>>

-----------------------------------------------------------------------------
(* The main thread. *)

\* A guard that is alive but hangs is not looked for: NeverLongAdrift.
GuardsFine_Slip == alive = Guards

\* check_guards
GuardsFine ==
  alive = Guards /\ \A g \in Guards : age[g] <= HeartbeatTimeout

\* The event loop returns or unwinds: the feeder is stopped and
\* FanService::shutdown asks the fan thread to end.
LeaveLoop(error) ==
  /\ main' = "joining" /\ failed' = error /\ since' = 0
  /\ UNCHANGED <<unit, stuck, alive, driven, took, asked, sincePing, stopFor>>
  /\ UNCHANGED exposed

\* One pass of event_loop, as far as it concerns the guards.
Passes ==
  /\ main = "looping" /\ "main" \notin stuck /\ Turn("main")
  /\ \/ asked # "no" /\ LeaveLoop(FALSE) /\ UNCHANGED age
     \/ /\ asked = "no"
        /\ age' = [age EXCEPT !["main"] = 0]
        /\ \/ ~GuardsFine /\ LeaveLoop(TRUE)
           \/ /\ GuardsFine
              /\ UNCHANGED <<unit, process, driven, asked, sincePing, since>>
              /\ UNCHANGED <<stopFor, exposed>>

LoopPanics ==
  /\ main = "looping" /\ "main" \notin stuck
  /\ LeaveLoop(TRUE) /\ UNCHANGED <<age, acted>>

Goes(place) ==
  /\ main' = place /\ since' = 0
  /\ UNCHANGED <<unit, stuck, alive, took, failed, asked, age, sincePing>>
  /\ UNCHANGED <<stopFor, exposed, acted>>

\* The fan thread has ended, or is given up on.
Joins ==
  main = "joining" /\ "fans" \notin alive /\ Goes("cleaning") /\ UNCHANGED driven
GivesUp ==
  /\ main = "joining" /\ "fans" \in alive /\ since >= JoinTimeout
  /\ Goes("forcing") /\ UNCHANGED driven

\* force_full_speed: every write may fail or take too long.
ForceFullSpeed ==
  /\ main = "forcing"
  /\ driven' \in {driven \ {"fans"}, driven}
  /\ Goes("cleaning")

\* The process is gone and every thread with it; a write that hung may have
\* gone through on the way out.
Dies(error) ==
  /\ main' = "gone" /\ failed' = error /\ unit' = "post"
  /\ \E late \in SUBSET (stuck \cap Guards) : driven' = driven \cup late
  /\ stuck' = {} /\ alive' = {} /\ took' = FALSE
  /\ since' = 0 /\ acted' = {}
  /\ UNCHANGED <<asked, age, sincePing, stopFor, exposed>>

\* The rest of run_daemon: CpuPowerService::shutdown, which waits a while
\* for its thread, the last beeps, the wake settings, the exit.
Exits ==
  /\ main = "cleaning" /\ "main" \notin stuck
  /\ "cpu" \in alive => since >= JoinTimeout
  /\ Dies(failed)

-----------------------------------------------------------------------------
(* The watchdog. *)

ShouldPing ==
  age["fans"] <= HeartbeatTimeout /\ age["main"] <= StallAfter

\* A ping only when the whole period is over: KillsOnlyTheUnwell.
PingDue_Slip == sincePing > WatchdogSec
PingDue == sincePing >= PingEvery

\* One turn of the feeder, which the end of the loop ends.
Feed ==
  /\ main = "looping" /\ Turn("feeder")
  /\ sincePing' = IF ShouldPing /\ PingDue THEN 0 ELSE sincePing
  /\ UNCHANGED <<unit, process, driven, asked, age, since, stopFor, exposed>>

-----------------------------------------------------------------------------
(* systemd. *)

\* run_daemon up to the loop; the fan thread is spawned first.
Start ==
  /\ unit = "waiting"
  /\ unit' = "active" /\ main' = "looping" /\ alive' = Guards
  /\ age' = [t \in Threads |-> 0] /\ sincePing' = 0 /\ since' = 0
  /\ asked' = "no" /\ failed' = FALSE /\ stopFor' = 0
  /\ UNCHANGED <<stuck, driven, took, exposed, acted>>

\* Another daemon has the socket or the serial port, or a thread does not
\* start: exit(1).
StartFails ==
  /\ unit = "waiting" /\ unit' = "post" /\ failed' = TRUE /\ asked' = "no"
  /\ UNCHANGED <<main, stuck, alive, took, driven, clocks, exposed, acted>>

\* Somebody starts the unit, signals the daemon, stops the unit.
Requested ==
  /\ \/ unit = "inactive" /\ unit' = "waiting" /\ UNCHANGED asked
     \/ unit = "active" /\ asked = "no" /\ asked' = "signal" /\ UNCHANGED unit
     \/ unit = "active" /\ unit' = "stopping" /\ asked' = "stop"
     \/ unit = "waiting" /\ unit' = "inactive" /\ UNCHANGED asked
  /\ stopFor' = 0
  /\ UNCHANGED <<process, driven, age, sincePing, since, exposed, acted>>

\* The watchdog's SIGABRT, SIGKILL for a stop that takes too long, and a
\* crash or the OOM killer.
WatchdogFires ==
  unit = "active" /\ Running /\ sincePing > WatchdogSec /\ Dies(TRUE)
StopTimesOut ==
  unit = "stopping" /\ Running /\ stopFor >= TimeoutStopSec /\ Dies(TRUE)
Crashes == Running /\ Dies(TRUE)

\* ExecStopPost: the stock limits, then full speed; either may fail, and
\* the unit with it.  Then systemd restarts what did not end well.
FanFailsafe ==
  /\ unit = "post"
  /\ exposed' \in SUBSET Guards
  /\ driven' = driven \cap exposed'
  /\ unit' = IF asked = "stop" \/ (~failed /\ exposed' = {})
             THEN "inactive" ELSE "waiting"
  /\ UNCHANGED <<process, asked, clocks, acted>>

-----------------------------------------------------------------------------
(* Time and the specification. *)

Step ==
  \/ \E g \in Guards : Works(g) \/ Stops(g) \/ Panics(g)
  \/ \E t \in Threads : Hangs(t) \/ Returns(t)
  \/ Passes \/ LoopPanics \/ Joins \/ GivesUp \/ ForceFullSpeed \/ Exits
  \/ Feed \/ Start \/ StartFails \/ Requested \/ FanFailsafe
  \/ WatchdogFires \/ StopTimesOut \/ Crashes

\* What happens before a unit of time is over.
Due ==
  \/ unit \in {"waiting", "post"}
  \/ unit = "active" /\ sincePing > WatchdogSec
  \/ unit = "stopping" /\ stopFor >= TimeoutStopSec
  \/ \E g \in alive \ stuck : Stopped(g) \/ g \notin acted
  \/ main = "looping" /\ ~((({"main"} \ stuck) \cup {"feeder"}) \subseteq acted)
  \/ main = "joining" /\ ("fans" \notin alive \/ since >= JoinTimeout)
  \/ main = "forcing"
  \/ /\ main = "cleaning" /\ "main" \notin stuck
     /\ "cpu" \notin alive \/ since >= JoinTimeout

Older(t, last) == IF t > last THEN t ELSE t + 1

Elapse ==
  /\ ~Due
  /\ age' = [t \in Threads |->
               Older(age[t], IF t = "main" THEN StallAfter ELSE HeartbeatTimeout)]
  /\ sincePing' = Older(sincePing, WatchdogSec)
  /\ since' = Older(since, JoinTimeout)
  /\ stopFor' = IF unit = "stopping" THEN Older(stopFor, TimeoutStopSec) ELSE 0
  /\ acted' = {}
  /\ UNCHANGED <<unit, process, driven, asked, exposed>>

\* Nothing looks after the device, and it is driven.  What the
\* fail-safe could not set is excepted: the unit has failed and says so.
Adrift(g) ==
  /\ g \in driven \ exposed
  /\ ~(Running /\ g \in alive \ stuck)

\* How long a device may be adrift.  It takes the heartbeat's age to notice
\* and, when the main loop hangs too, the end of the pings and the watchdog;
\* the feeder knows nothing of the limits' thread, so that one waits for the
\* main loop's age instead; a stop begun just then takes its own time.
LongestAdrift(g) ==
  (IF g = "fans" THEN HeartbeatTimeout ELSE HeartbeatTimeout + StallAfter)
    + WatchdogSec + TimeoutStopSec + 1

Watch(d) ==
  /\ UNCHANGED watched
  /\ adriftFor' = IF ~Adrift(watched)' THEN 0
                  ELSE IF adriftFor > LongestAdrift(watched) THEN adriftFor
                  ELSE adriftFor + d
  /\ wellAgo' = IF Start \/ (Feed /\ ShouldPing) THEN 0
                ELSE IF wellAgo > WatchdogSec THEN wellAgo ELSE wellAgo + d

Init ==
  /\ unit = "waiting" /\ main = "gone" /\ stuck = {} /\ alive = {}
  /\ driven = {} /\ took = FALSE
  /\ asked = "no" /\ failed = FALSE
  /\ age = [t \in Threads |-> 0] /\ sincePing = 0 /\ since = 0 /\ stopFor = 0
  /\ exposed = {} /\ acted = {}
  /\ watched \in Guards /\ adriftFor = 0 /\ wellAgo = 0

Next == (Step /\ Watch(0)) \/ (Elapse /\ Watch(1))

Spec == Init /\ [][Next]_vars

-----------------------------------------------------------------------------
(* Properties. *)

\* Every variable has its type, and no thread outlives its process.
TypeOK ==
  /\ unit \in Units /\ main \in Places /\ asked \in {"no", "signal", "stop"}
  /\ stuck \subseteq Threads /\ alive \subseteq Guards
  /\ driven \subseteq Guards
  /\ {took, failed} \subseteq BOOLEAN /\ exposed \subseteq Guards
  /\ age \in [Threads -> Timer]
  /\ {sincePing, since, stopFor, adriftFor, wellAgo} \subseteq Timer
  /\ acted \subseteq Threads \cup {"feeder"}
  /\ ~Running => stuck = {} /\ alive = {} /\ ~took
  /\ Running <=> unit \in {"active", "stopping"}

\* However the threads hang, end, come back or are killed, and whoever stops
\* the unit meanwhile, no device stays for longer than LongestAdrift at what a
\* thread that no longer looks after it wrote last (check_guards, the feeder,
\* FanService::shutdown, Drop, and `fan-failsafe` together).
NeverLongAdrift == adriftFor <= LongestAdrift(watched)

\* The watchdog kills only a daemon that has not been well for most of the
\* period: a slow main loop, or a heartbeat late once, does not do it
\* (Watchdog::ping, spawn_feeder).
KillsOnlyTheUnwell ==
  [][WatchdogFires => wellAgo + PingEvery > WatchdogSec]_vars
=============================================================================
