# A verification development of truenas-asustor-chassisd

The daemon drives the chassis of an ASUSTOR NAS that runs TrueNAS: the fans,
the front panel's LCD and buttons, the LEDs, the buzzer, the CPU's power limits
and a power schedule. This directory holds TLA+ models of its parts, the TLC
configurations that check them on small instances, and proofs about them for
every value of their constants. All line numbers are those of the repository
(`src/` is its root, so the Rust sources are in `src/src/`).

## 1. The system

| Part | State it keeps | Operations | What makes it correct |
|---|---|---|---|
| `AppState` (state.rs, alarm.rs) | mode of the panel, the message showing and the one held, beeps, the cached alarm verdict, chassis and bay locates, night mode | keys, SHOW / CLEAR / LOCATE, start of a countdown, `tick`, `take_beep`, `render` | an urgent message is never lost, hidden or weakened; a power action runs only as announced or confirmed; night mode starts and ends |
| `FanController` (fan.rs) | what each sensor read and since when it does not, the critical override, the last command, kicks, stalls, loss of control | one `update` every `update_secs`; reader threads publish samples | a fan with a hot or silent sensor runs at `max_pwm`, soon and for long enough; one that cannot be driven is reported; it comes to rest at its target |
| `FanService`, `CpuPowerService`, the guards, the feeder (fan.rs, cpu_power.rs, main.rs, sd_notify.rs), the unit file | threads, heartbeats, the age of the last ping | spawn, stop and join, `force_full_speed`, `fan-failsafe`, ping | nothing is left driven by nobody for long; a daemon that is well is not killed |
| Event loop (main.rs) | keys taken off the link, rate limit of beeps, progress mark | drains commands and keys, ticks, applies effects, checks its guards | no key lost; repeats heard; dead threads end the daemon |
| `Lcm` (protocol.rs) | text and display caches, queued reports | send, acknowledge, retry, forget | the panel shows what the caches say, or is sent it again |
| Socket server (socket.rs) | connection slots, command queue, the socket's file | accept, parse, reply; probe, bind, remove | bounds kept, no request widened, every connection ends; the running daemon is the one clients reach |
| Power `Scheduler` (power.rs) | last minute checked, the armed RTC alarm | `poll`, `sync_rtc` | each rule once, none after a clock jump; alarm armed |
| CPU power (cpu_power.rs) | guard, limits applied | `tick`, `verify`, `apply` | PL1 never above PL2; stock limits while hot or unwatched |
| LEDs, driver watch, disk monitor (led.rs, state.rs, driver_watch.rs, monitor.rs) | what was last written, which devices it was written to | layers of locate, alert, SMART, night; scans | the top layer shows, and hands back; a reloaded driver is noticed |
| Buzzer (buzzer.rs) | a bounded queue, a worker | beep, flush | never blocks its caller; not cut short |
| `fan-profile` (fan_calibrate.rs) | the output it sweeps, what it has to put back | pause the daemon, sweep, propose, restore | an interrupted sweep is undone; its proposal is true |
| Configuration (config.rs) | | `validate` | what stays enabled is what the parts assume |

**Who calls whom.** One thread (main.rs `event_loop`) owns `AppState`, `Lcm`
and `Scheduler` and passes at least every 100 ms; within a pass each handler
runs to its end. The socket server's threads send it commands through a bounded
queue. The fan control thread, one reader thread per sensor, the CPU power
thread, the buzzer and the watchdog feeder run beside it and share only
atomics and mutexed cells. systemd restarts the daemon, and its `ExecStopPost`
puts the limits at stock and the fans at full speed whenever it ends.

**What is hard.** Messages, keys, schedules and timeouts meet in any order in
the panel; sensors go silent and come back between two updates; every sysfs
write may fail and the firmware may take a fan back; frames on the serial link
are lost, merged and late; the wall clock jumps; threads hang and processes are
killed between any two steps; drivers are reloaded under the LEDs; requests
arrive in pieces; daemons start and stop beside one another. `PROJECT.json`
lists each such hazard at its line with the properties that cover it.

## 2. The modules

| Module | What it is |
|---|---|
| `PowerGate` | abstract specification: an action is ordered only once confirmed, or announced for its whole countdown |
| `AppState` | the panel; one action per handler of state.rs. It implements `PowerGate` |
| `Buzzer`, `AlertBeeps` | the beeper; the panel, the loop's rate limit and the beeper composed |
| `FanController`, `FanTiming` | one fan, one action per outcome of `update`; with clocks that only watch it, for the timed promises |
| `PowerSchedule` | the scheduler, the wall clock it is polled with and the RTC |
| `CpuPower` | the power limits: controller, zone and fail-safe, one step per file written |
| `Supervision` | the two control threads, the main loop, the feeder, systemd and the fail-safe |
| `Panel` | the serial link, the loop that uses it and the panel's controller |
| `Requests`, `ControlSocket` | what a request asks, as a function of its words; the server's threads, the queue and the loop's end of it |
| `Leds` | the LED layers, the monitor's scans and the driver watch over drivers that come and go |
| `SocketFile`, `FanProfile`, `Instances` | the socket's file and the port between daemons; the `fan-profile` tool; both composed with systemd's unit |
| `Settings`, `LocalTime` | `Config::validate`, `Rule::parse`, `lint`; the UTC fallback of `LocalTime`: functions only |
| `AppStateProofs`, `FanProofs`, `PowerProofs`, `CpuPowerProofs` | inductive invariants and theorems: of `AppState` and `AlertBeeps`; `FanController` and `FanTiming`; `PowerSchedule` and `Settings`; `CpuPower` |
| `DeviceProofs`, `PanelProofs`, `SocketProofs`, `InstancesProofs` | the same of `Supervision` and `Leds`; `Panel`; `Requests` and `ControlSocket`; `SocketFile`, `FanProfile` and `Instances` |
| `MC...` | instances for TLC |

Definitions named `..._Slip` are not part of a model. Each is the definition
that follows it with a plausible mistake in it, and names the property that has
to notice; `PROJECT.json` pairs them under "mutants". In all modules an
`Instant` is kept as the time left to it, or since it, in units: one step takes
a unit off all of them at once, so no order of deadlines is lost.

### AppState

Variables are the fields of `AppState` with `Mode` split in `mode`, `action`
and `deadline`; `over` and `held` are `over` and `pending_over`; `alarm` is the
cached verdict `recompute_status_led` leaves; `ordered` is the action returned
as `Effect::RunAction` by the last handler. `Show`, `Clear`, `StartLocate`,
`StopLocate` are the socket commands, `HandleKey` is `handle_key` (an unknown
key is handled as `"Wake"` is), `StartCountdown`/`KeepCountdown` are
`start_countdown`, and `Tick` is `tick` with its four outcomes. What the health
checks find is any value of `HealthSeverities` each time the verdict is
recomputed, and a due category may or may not change it (`Refresh`).

Left out: bay locates and the writing of LEDs (`Leds` has them), the text and
rotation of the screens. The message's `bay=` only matters to `CLEAR bay=N`,
which either clears the showing message (`Clear`) or does nothing.

### Buzzer and AlertBeeps

`Buzzer` is the queue (full: the beep is dropped), the worker, which may be
playing, resting, or stuck in a device that does not answer, and `flush`, which
enters a marker and gives up after its deadline. `AlertBeeps` runs `AppState`'s
actions in the phases of a pass (commands and keys, tick, beep) and puts the
loop's rate limit between them and the queue. Its unit of time is half of the
alert interval, 30 s: in the code everything shorter, passes, beeps, the flush,
is over within it.

### FanController and FanTiming

`reading` is what each selector's reader thread published last (`NoReading`
when stale), `feeds` what `track_sensors` remembers, `manual` and `pwm` the
chip. `Update` is one `update()`: `UpdateWithoutChip` (no pwm chip),
`UpdateTooEarly` and `HoldFullSpeedWithoutSensors` (no sensor reads),
`UpdateMidKick`, and `UpdateDrives`, which plans and writes; every write may
fail, half done. `Sample` and `GoAutomatic` happen at any time between updates.
`Targets` is a set of one: the command the sensors ask for. The over-range
check (a reading no sensor can have counts as critical) is folded into the
thresholds; `ever_ran_normally`, which only decides what is logged, is left out.
`FanTiming` adds clocks (`hotFor`, `darkFor`, ...) that count how long a
condition has held without a break.

### PowerSchedule

The clock runs in units of which `Minute` make a minute; `Offset(k)` is how far
local time is ahead in minute `k`, which is all the model knows of a time zone.
`ClockMoves` runs or steps the clock either way between two polls; `Poll` is
`poll_with`, split by the arms of its `match` in `PollBlind` (first poll or
jump), `PollAgain` (stepped back a little) and `PollForward`, each of which ends
in `KeepAlarm`, the recheck of the RTC. `Sync` succeeds or fails at its read, its
clear or its set. `SyncRtc` is the call before a power action and on exit,
`Restart` a new daemon, `OthersSetAlarm` somebody's `rtcwake`. `fired` is what
the last poll returned. `ran`, `spent`, `since` and `doubt` only record what
the properties look back on. A rule is its action and the set of wall minutes
it names; what happens to a `Fired` is `AppState`'s `StartCountdown`.

### CpuPower

`phase` is where the unit is: waiting for the first sweep, running, stopping
(the daemon is gone), restoring (`fan-failsafe` writes stock), stopped. `Tick` is
`Controller::tick` without the writes of the files, which follow one `WriteFile`
or `WriteFails` at a time from `todo`, what is left of `write_plan`; `Meddle`,
`Sweep` and `Stop` may come between any two of them. `Verified` is `verify`, whose
read may fail. Time passes only once the second's tick and its writes are done:
a stuck thread is `Supervision`'s business. `unsafeFor`, `warmAgo`, `trouble` and
`inOrder` only record what the properties look back on. `Reading` is the sample
as the control thread takes it, by its worst sensor.

### Supervision

A device (the fans, the limits) is `driven` while what was last written to it is
a control thread's; what the threads decide is `FanController`'s and
`CpuPower`'s business. Threads hang and come back, panic, or end; `GuardsFine`
is `check_guards`, `Stopped` and `Dropped` are `shutdown` and what a controller
does as it is dropped, `Feed` the feeder's ping, `ForceFullSpeed` what a stop
does for a thread it could not join, `FanFailsafe` the unit's `ExecStopPost`.
systemd kills on a missed watchdog or a stop that takes too long. In a unit of
time every thread that is not stuck gets its turn (they pass ten times a
second; the units are seconds).

### Panel

`sent`, `displayOn` are the caches, `pending` the reports read while waiting
for an acknowledgement, `todo` the calls the loop has still to make in this
pass, `flight` the frame that is waiting for its acknowledgement. The panel's
controller is modelled from the comments that record how it was seen to behave:
it acknowledges a frame, drops one, or keeps part of one that the next frame
then completes; it repeats a report until that is acknowledged; it can be reset.
Whether an acknowledgement comes too early to be the frame's own (`early`) is
all the model keeps of wire times.

### Requests and ControlSocket

A header is a sequence of words, a word its kind and its value. `Kept` is what
`read_request` makes of the bytes that came: a deadline, a hang-up, the size
limit or the end of the line ends the reading, and only after a deadline is an
unfinished line dropped. `NoThread` is a thread that could not be spawned;
`GivesUp` a STATUS the loop has not answered in time; `Leaves` the loop that ends
with requests in the queue.

### Leds

`app` is the part of `AppState` the LEDs depend on, `leds` what the devices
show, `device` which drivers are loaded, `applied` and `seen` the driver watch's
snapshots. Nothing in the code stores what an LED should show: each handler
writes the LEDs it thinks it has changed. So each action writes what its handler
writes, to the devices that are there, and the properties compute from the state
what should be seen. A reload, whole or in stages, puts the LEDs at the
driver's defaults.

### SocketFile, FanProfile, Instances

The file at the socket's path is known by whose it is; `guard` is the device and
inode `SocketGuard` remembers. Probe, private bind and rename, bind in place,
taking the identity and, on the way out, checking it and removing the file are
steps of their own (`FindsNobody` ... `RemovesFile`), so two daemons interleave
at each of them; the serial port's lock is `port`. `FanProfile` is the tool's
sweep step by step with the pauses between; a signal ends the next pause
(`Aborts`), SIGKILL and SIGHUP leave everything as it is (`IsKilled`).
`Instances` joins them: systemd's daemon, one started by hand, the tool, which
stops the unit and starts it again, and somebody who removes the file by hand.
The end of systemd's daemon and its fail-safe are one step here.

### Settings and LocalTime

Temperatures are whole degrees or `NaN`, options may be `None`. `Validate` is
`Config::validate`; `ValidFan`, `ValidCpu`, `ValidSleep`, `RuleFine` its pieces;
`FanSane`, `CpuSane` and `RuleSane` say what the other modules assume of their
constants. They are functions, so there is no run of theirs: `MCSettings` names
assumptions over inputs around every bound, which TLC evaluates at the start of
`power_schedule`.

## 3. What TLC checks

| Run | Shows | Instance |
|---|---|---|
| `app_safety` | the panel's safety properties, the refinement of `PowerGate`, and that busy screens end and night mode turns | one message per level (info with a TTL, repeating warn, error with a TTL the code ignores, repeating critical), countdowns of 0 and 1, health of every severity, every time constant 1 |
| `beeps` | a repeating alert keeps being heard; leaving cuts nothing short | an error that beeps once and a critical message that repeats, locates, a queue of 2, intervals of 2 and 1 units |
| `fan_safety` | full speed in doubt, and how soon; a fan astray is reported; the recovery hold lasts; the fan comes to rest | two sensors (three temperatures: cool, warning, critical), curve or fixed mode, kicks of two updates, recovery hold 2, other times 1 |
| `power_schedule` | a minute fires once, none skipped by a jump, none missed, once in the repeated hour; the wake alarm is kept right; the assumptions about `Settings` and `LocalTime` | a restart, a shutdown and a power on that meet in one minute, summer time ending, minutes of 2 units, a gap of 3, 11 units of clock stepped at will |
| `cpu_power` | the limits asked for, in order, at stock when hot or stopped, back when well | settings 1/2 and 3/4, a tool writing 2/3, rounding of the long time window, times of 1 and 2 seconds |
| `cpu_status` | finding: a stale problem in STATUS | nobody else writes |
| `supervision` | nothing is adrift for long; only the unwell are killed | heartbeat 1, stall 3, join 1, ping 1, watchdog 2, stop 1 |
| `panel` | the panel is as the caches say; every key is handled | two texts, two key presses, two faults (a frame dropped or merged, a stray answer, a reset) |
| `panel_dark` | finding: a dark panel that is awake | no fault at all |
| `socket` | no request is widened, places are freed, connections end | three clients for two places, a queue of 1; requests whose parts are other valid requests |
| `leds` | every LED shows its top layer, also after a reload | one bay, a warning and an error about the bay, a disk that is well, asleep or failed, two reloads of the driver and one of the dimmer, a configuration with a dark and one with a dimmed night |
| `instances` | the running daemon is reachable, a sweep is undone, its proposal true | a daemon by hand and a hand on the file, or the tool; two outputs, one with a fan that is always driven, never stalls, stalls early, or never starts; `Full` 3, `Low` 1, steps 2 and 1 |

**Why the bounds suffice.** Every comparison with a time is "is it over", so a
timer of 1 has all its states (off, running, over), 2 adds "still running after
an update". Two messages of each relation of level (lower, equal, higher) meet
in `over` and `held`. A fan's decisions look at "some sensor" or "the sensor
that asks for the most"; two sensors give every combination of one that is
fine and one that is not. The schedule compares times with the mark, the gap
and minute boundaries: two units a minute tell "on a boundary" from "beside
it", and five minutes hold a gap, a jump either way and a repeated hour. The
power limits' settings and the other tool's lie so that each of PL1 and PL2 can
be too high or too low for the other. In `supervision` each threshold is told
from its neighbours (join 1 < stall 3, watchdog 2 > ping 1), and a stuck thread
may be stuck for longer than all of them together. In `panel` the two faults
make a retry fail again, and a merged frame and its completion; a key press
every pass adds nothing to two that overlap. Three clients for two places
include one turned away, and a queue of one is full with a second request. LEDs
of two bays are written one by one, without looking at each other, so one bay
has all the layers. In `instances` two daemons are all that can meet at the
path with systemd's unit having one process; `Companies` keeps the tool and the
other daemon apart, which share only the unit.

Deadlock is checked in every run but `beeps` (the daemon ends) and `supervision`
(the unit may stay stopped).

**Fairness.** `AppState`: weak fairness of `Tick`, `TakeBeep` and `Elapse`. The
loop's `poll` returns after at most `POLL_INTERVAL_MS`, ticks each pass and takes
the beep right after; time passes. No client, key or schedule is assumed to do
anything. `FanTiming`: weak fairness of `Update` and `Elapse`, since the
control thread passes every 100 ms; an update that is due happens before the next
unit of time (a thread that is stuck belongs to `Supervision`). `CpuPower`: weak
fairness of the control thread's tick and writes, its start and time; sweeps are
not assumed, the property's premise is that there is a fresh one.
`ControlSocket`: each connection's thread runs and its deadlines pass; of the
main loop and the clients nothing is assumed. `Leds`: the loop looks at the
drivers every `CHECK_INTERVAL`. The other modules' promises are bounds on clocks
or histories, checked as invariants, and need no fairness. No write is assumed
to succeed: the properties about coming to rest assume it in their premise.

**Findings.** `cpu_status`: README.md:706 says `status` shows the current limits;
when a write has failed and the guard then wants what `applied` still names
(cpu_power.rs:342), nothing is written and STATUS goes on saying "NOT APPLIED".
`panel_dark`: a key pressed just as night mode switches the display off is
acknowledged while the display-off waits for its own acknowledgement. `ack`
sends, and sending sets `tx_started` anew (protocol.rs:334), so the
acknowledgement that follows looks too early (protocol.rs:452) and is ignored;
`last_display` stays `Some(true)`. The key wakes the panel, `set_display(true)`
is a no-op, and the panel stays dark while it is awake, though main.rs:731 says
the switch is retried until the controller has confirmed it.

**Observations.** Met while modelling, in the models as the code has them, but
without a statement in the repository they contradict:

- `CLEAR` drops the message that is showing; one held behind the menu shows
  later (state.rs:1201). The action menu itself has no timeout (state.rs:1058).
- The critical override ends when the sensor that raised it goes silent
  (fan.rs:1091); the hold for silent sensors follows after its grace.
- A fan whose tach reads 0 is kicked at `min_start_pwm`, never driven at
  `max_pwm`, however hot it is (fan.rs:895);
  `min_start_pwm` may be 0, and then it is not driven at all.
- Clock steps back, each smaller than the gap, add up against a mark that does
  not move until their sum counts as a jump (power.rs:520).
- A request cut at 4096 bytes without a line end is acted on as it is
  (socket.rs:512).
- A repeat may come almost two intervals after the last tone when the same
  message is sent again in between (main.rs:634).
- A failed disk that is pulled leaves its bay's red LED as it was; a first
  snapshot of the driver watch is not debounced; a dimmer and a driver that
  disappear within one look are seen as one change; with only
  `night_brightness` set, a daemon that starts in the night takes the night's
  level for the day's (state.rs:379).
- When `systemctl` fails to power off, the countdown is over and nothing follows
  but a log line (main.rs:754).
- `fan-profile` credits a fan whose speed falls steadily, though its comment
  asks for a recovery (fan_calibrate.rs:368, the test is of the larger of the
  two peaks); a fan that never stalls is given `min_start_pwm` 0, one that never
  restarts 255. SIGHUP is not caught, so a dropped terminal ends the tool as
  SIGKILL does, with the fan where the sweep had it and the daemon stopped.
  `is-active` is false during `RestartSec`, so a daemon can come back during a
  sweep that found it stopped.
- Two daemons that start at the same moment can each take the socket's path
  from the other (socket.rs:728 promises it only of one that runs already), and
  `SocketGuard` checks and removes in two steps. `estranged` excepts just these.

## 4. What is proved

Every invariant and every action property of the passing runs, and the
refinement of `PowerGate`, for every value of the constants that satisfies the
modules' ASSUMEs. Those say what the configuration's validation and the types
guarantee, and two what is known of the world: how the hardware rounds
(`RoundsAssumption`) and how clocks are put back (`ShiftsAssumption`). TLC
evaluates each of them on the runs' instances. The two bounds on the time to
full speed need one hypothesis more (*FanProofs*).

*AppStateProofs.* `AsleepIsIdle`, `RepeatArmed`, `AlarmCoversMessage` are not
inductive alone. The inductive invariant `IInv` adds the shape of the mode
(action and deadline are set just when it needs them), `HeldOnlyWhileBusy`
(nothing is held at the status screens: without it a sleeping panel could keep
a message) and that an error or critical message has no end of its own, showing
or held. The argument goes through *notices*: `show_override` keeps a
well-formed notice well formed, so every handler that ends in one does.
`UrgentStays` and `HeldSurvives` are read off the handlers under `IInv`, which
tells a message whose time is up from one that has no such time.
`ImplementsPowerGate` shows that each step of the panel is a step of
`PowerGate` or leaves it alone.
For the panel with the loop and the beeper, `BeepsInv` counts the time to the
next tone. `Heard` is its core: while nothing waits to be played, what a
held-back arrival and what the repeat still have to wait fits into the interval
with the quiet there has been. It needs `Pending` (a pass takes the beep of its
tick before another can be asked for) and `Counted`; `NothingCutShort` needs
`Flushed` (the marker is the last thing in the queue, so it is answered only
when all before it has been played). The assumption is `AlertBeepInterval <=
RepeatBeep`, 60 s each (main.rs:44, socket.rs:125).

*FanProofs.* `FullSpeedInDoubt` becomes inductive with the types and
`UntouchedIsLost`: a fan nothing was ever written to has its `control_loss`
running. The case that matters is `UpdateDrives`: whatever keeps the fan in
doubt after the update had already set its target to `max_pwm`. `CurveFact`
shows that the curve, with its rounding, never leaves `min_pwm` and
`min_stop_pwm .. max_pwm`, so what is written is always a byte.
The timed promises tie the clocks of `FanTiming` to the controller's timers
(`KeptTimes`): `AstrayInTime` adds what a clock has counted to what the loss
timer has left, `SteadySoFar` does so for the recovery hold, and `HotInTime`,
`DarkInTime` say where in the update, the kick and the next update a fan is that
is not at `max_pwm` yet. A timer that runs out between two updates is noticed
only at the next one (`Noticed`), which the bounds count; the code's kick of 1 s
and updates of 5 s are such a case. `HotIsCooled` and `SilenceIsCovered` are
proved for `MinStartPwm > 0`. That is necessary: after a command of 0 comes a kick
with `min_start_pwm` (fan.rs:916), so with 0 it is kicked with nothing for ever, and
TLC finds `HotIsCooled` violated by such an instance. The default is 60
(config.rs:1030), but nothing in config.rs refuses 0.

*PowerProofs.* `OnceUntilSetBack` needs `MarkCovers`: no minute that must not
fire again lies beyond the mark, and a daemon that has just started, which has
no mark, fires nothing. `NothingSkipped` follows from the mark never being
behind the time it was last set blindly. Both hold for any offsets, gap and
rules: nothing about time zones is assumed. `MissesNothing` is kept between a
step of the clock and the next poll only as `NothingMissed`, which looks as far
as the mark instead of the clock. `AlarmIsKept` needs `CheckedSoon` (the next look
at the RTC is never further off than the recheck time, but for what the clock
was set back, and any doubt about the alarm is older than that) and
`ArmedRight`. `OnceThatNight` alone depends on the time zone:
`ShiftsAssumption` says that the offset shifts at most once within the time
looked back for, and that minutes of the same wall time are no further apart than
that, which is what the code looks back 4 hours for (power.rs:392).
The module also proves what the configuration guarantees the others:
`EnabledFansAreSane`, `EnabledLimitsAreSane` and `ParsedRulesAreSane` say that
what `validate` leaves enabled, whatever the file says, NaN included, satisfies
what `FanController`, `CpuPower` and `PowerSchedule` assume. The fan's proof goes
through `SanitizedFanFacts`: after `sanitize_fan_temps` every temperature is a
number, so that the negated comparisons of `problems` mean what they seem to.
`LintIsExactForAll` and `NightIsAnIntervalForAll` are the modular arithmetic of
`lint` and `SleepConfig::contains`.

*CpuPowerProofs.* `PL1BelowPL2` needs `Ordered`: for each of the plans
`write_plan` can leave, how PL2 (or PL1) compares with what is being written;
`StopsAtStock` needs `Restored`, the same with equality, and the assumption that
the hardware's rounding is within what `matches` allows; `RearmsLate` needs
`CoolSince`, that the guard's clock never runs ahead of the ticks. `AsAsked` and
`HotIsStock` follow from `Kept`: what a write has done so far is still there
unless somebody interfered (`Written`), what was applied is there if it has been
verified since (`AsVerified`), the next verification is in time (`InTime`), and
after a tick that went well the guard's wish is applied (`UpToDate`).
`LeavesItAlone` needs only that a plan for limits that match is not made.

*DeviceProofs.* For `Supervision`, `AdriftInTime` bounds how long a device has
been adrift by where its rescue is (`OnTime`): its thread's silence has not been
noticed yet; or, for the limits, whose thread only the main loop looks at, the
loop is about to notice; or the feeder has stopped pinging and systemd's times
run. `SafeWhenDown`, that a unit which is down has been through the fail-safe,
closes the circle at a restart. `KillsOnlyTheUnwell` follows from `PingsFollow`.
For `Leds` nothing in the code stores what an LED should show, so `LedsInv` says
it of the devices: while the driver that is loaded is the one written for, every
LED is right for the state, and what is remembered of it is what it shows.
`WatchBehind` (a driver that is half there has not been written for) carries this
over a reload in stages, `AlertShown` (asleep, there is no message) over waking,
`LevelKept` over a reload of the dimmer.

*PanelProofs.* `PanelIsRight` needs to know what the frame under way means:
`FlightIsHead` (it is that of the call at the head), `AcksAreCurrent` (no
acknowledgement is so late that it counts for a later frame), `SentIsShown` (a
confirmed line is on the panel, and no half frame there is going to spoil it) and
`RenderIsSent` (a line that differs from what was rendered is still to be sent).
`KeysAreHandled` is inductive with `Orderly`, the order of the calls of a pass:
a poll is its last, and after a wait a drain comes before it. It is about any texts
and any number of presses and faults.

*SocketProofs.* `NeverWidened` rests on lemmas about the parser for words of any
kind: a command is for all bays, or clears everything, only if its words say so,
and good arguments that name a bay are of that bay. With `ReadAsAsked` and
`QueuedAsRead` that holds of everything in the queue. `PlacesAreFreed` is
`PlacesCounted` with `OneWaiter`, that a queued STATUS is its connection's only
one, so that no place is given back twice.

*InstancesProofs.* `StaysReachable` needs what the steps of a start and of an end
know of the path: `OverlapsKnown` (two that start together are both estranged),
`OthersAreEstranged` (whoever is about to replace or remove the file finds
nobody else's there) and `RemembersOwn`. `ProposalIsTrue` follows the sweep:
undisturbed, the fan turns as its kind and the last command have it
(`FanObeys`), the readings of the probe are of that (`ProbeReads`), and the
ramp's last speed but one kept it turning (`RampIsTrue`). Both are for any number
of daemons and outputs, and any fans that start no earlier than they stall.

*Only model-checked.* What needs fairness or ENABLED is out of the prover's
reach: `BusyEnds`, `NightTurns`, `ComesToRest`, `ComesBack`,
`EveryConnectionEnds` and `LedsComeRight`. The calendar of `LocalTime`, a loop over
years and months, is only evaluated, from 1860 to 2189.

## 5. Not modelled, and what is planned

Worth proving next: that the fan's thread, the limits' thread and the panel
implement smaller specifications of what they promise, as `AppState` does
`PowerGate`; and the steps on which the liveness properties rest (that each
update of a fan at peace repeats the last, that each look at the drivers comes
closer to the right LEDs). Worth modelling next: the pools and temperatures of
the disk monitor.

Not modelled for good: TOML parsing, templates, the text of screens and of
STATUS, sysfs paths, logging and the command line (I/O and formatting). Wake-on-LAN
(wol.rs) is a check and an ioctl per NIC once a minute, without state beyond
what was last logged. Of the disk monitor only the bays' states are there, which
the LEDs depend on; pools and temperatures reach the panel as any severity.
