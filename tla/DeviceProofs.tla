---------------------------- MODULE DeviceProofs ----------------------------
(***************************************************************************)
(* Proofs about the devices the daemon writes to.  Supervision, for every  *)
(* choice of the timeouts: how long the fans and the limits can be left to *)
(* themselves, and whom systemd's watchdog kills.  Leds, for any bays,     *)
(* messages, healths and reloads: each LED shows what the state asks for.  *)
(***************************************************************************)
EXTENDS Supervision, Leds, TLAPS

-----------------------------------------------------------------------------
(* Supervision: the inductive invariant. *)

\* The limits' thread has no watchdog of its own: the main loop looks at it.
Slack(g) == IF g = "fans" THEN 0 ELSE StallAfter

\* How long the daemon has been given without a ping, or to stop.
Waited == IF unit = "active" THEN sincePing ELSE WatchdogSec + 1 + stopFor

\* Guard g, at age o, has been adrift for no longer than a: it has not been
\* noticed yet; or the main loop, at age p and at place m, is to notice it; or
\* it does not ping any more, for w by now.
OnTime(a, g, m, o, p, w) ==
  \/ o <= HeartbeatTimeout /\ a <= o
  \/ /\ g = "cpu" /\ m = "looping"
     /\ o > HeartbeatTimeout /\ p <= StallAfter /\ a <= HeartbeatTimeout + p
  \/ /\ o > HeartbeatTimeout
     /\ g = "cpu" /\ m = "looping" => p > StallAfter
     /\ a <= HeartbeatTimeout + Slack(g) + w

Capped == sincePing <= WatchdogSec + 1 /\ stopFor <= TimeoutStopSec

\* A unit that is down has been through the fail-safe.
SafeWhenDown ==
  unit \in {"inactive", "waiting"} => driven \subseteq exposed /\ adriftFor = 0

AdriftInTime ==
  IF Running
  THEN OnTime(adriftFor, watched, main, age[watched], age["main"], Waited)
  ELSE adriftFor <= LongestAdrift(watched)

\* Each ping is due soon after the feeder finds all well.
PingsFollow == sincePing <= wellAgo + PingEvery \/ wellAgo > WatchdogSec

IInv ==
  /\ TypeOK /\ watched \in Guards
  /\ Capped /\ SafeWhenDown /\ AdriftInTime /\ PingsFollow

-----------------------------------------------------------------------------
(* The arithmetic of OnTime. *)

LEMMA TimesFact ==
  /\ HeartbeatTimeout \in Nat /\ StallAfter \in Nat /\ JoinTimeout \in Nat
  /\ PingEvery \in Nat /\ WatchdogSec \in Nat /\ TimeoutStopSec \in Nat
BY TimesAssumption DEF Timer

LEMMA SlackFact ==
  ASSUME NEW g \in Guards
  PROVE  /\ Slack(g) \in Nat /\ (g = "cpu" => Slack(g) = StallAfter)
         /\ g \in {"fans", "cpu"}
         /\ LongestAdrift(g) \in Nat
         /\ LongestAdrift(g) =
              HeartbeatTimeout + Slack(g) + WatchdogSec + TimeoutStopSec + 1
BY TimesFact DEF Slack, Guards, LongestAdrift

\* What has not been adrift at all is on time.
LEMMA ZeroOnTime ==
  ASSUME NEW g \in Guards, NEW m, NEW o \in Nat, NEW p \in Nat, NEW w \in Nat
  PROVE  OnTime(0, g, m, o, p, w)
BY TimesFact, SlackFact DEF OnTime

\* A longer wait for the watchdog or the stop takes nothing away.
LEMMA LongerOnTime ==
  ASSUME NEW g \in Guards, NEW m, NEW o \in Nat, NEW p \in Nat, NEW w \in Nat,
         NEW v \in Nat, w <= v, NEW a \in Nat, OnTime(a, g, m, o, p, w)
  PROVE  OnTime(a, g, m, o, p, v)
BY TimesFact, SlackFact DEF OnTime

\* The loop that ends, whatever the main thread's age is then.
LEMMA LeavingOnTime ==
  ASSUME NEW g \in Guards, NEW m, NEW n, n # "looping", NEW o \in Nat,
         NEW p \in Nat, NEW q \in Nat, NEW w \in Nat, NEW a \in Nat,
         OnTime(a, g, m, o, p, w)
  PROVE  OnTime(a, g, n, o, q, w)
BY TimesFact, SlackFact DEF OnTime

\* The loop that goes on has found the guards fine.
LEMMA PassingOnTime ==
  ASSUME NEW g \in Guards, NEW m, NEW o \in Nat, NEW p \in Nat, NEW w \in Nat,
         NEW a \in Nat, o <= HeartbeatTimeout, OnTime(a, g, m, o, p, w)
  PROVE  OnTime(a, g, m, o, 0, w)
BY TimesFact DEF OnTime

\* A ping is sent while the fan thread's heart beats and the loop goes round.
LEMMA PingingOnTime ==
  ASSUME NEW g \in Guards, NEW o \in Nat, NEW p \in Nat,
         NEW w \in Nat, NEW v \in Nat, NEW a \in Nat, p <= StallAfter,
         g = "fans" => o <= HeartbeatTimeout,
         OnTime(a, g, "looping", o, p, w)
  PROVE  OnTime(a, g, "looping", o, p, v)
BY TimesFact, SlackFact DEF OnTime

\* A unit of time.
LEMMA ElapseOnTime ==
  ASSUME NEW g \in Guards, NEW m, NEW o \in Nat, NEW p \in Nat, NEW w \in Nat,
         NEW a \in Nat, OnTime(a, g, m, o, p, w)
  PROVE  OnTime(a + 1, g, m, Older(o, HeartbeatTimeout), Older(p, StallAfter), w + 1)
BY TimesFact, SlackFact DEF OnTime, Older

\* What is on time keeps to LongestAdrift.
LEMMA OnTimeBound ==
  ASSUME NEW g \in Guards, NEW m, NEW o \in Nat, NEW p \in Nat, NEW w \in Nat,
         NEW a \in Nat, w <= WatchdogSec + 1 + TimeoutStopSec,
         OnTime(a, g, m, o, p, w)
  PROVE  a <= LongestAdrift(g)
BY TimesFact, SlackFact DEF OnTime

-----------------------------------------------------------------------------
(* Types. *)

\* TypeOK without what only the properties look back on.
ProcessOK ==
  /\ unit \in Units /\ main \in Places /\ asked \in {"no", "signal", "stop"}
  /\ stuck \subseteq Threads /\ alive \subseteq Guards /\ driven \subseteq Guards
  /\ took \in BOOLEAN /\ failed \in BOOLEAN /\ exposed \subseteq Guards
  /\ age \in [Threads -> Nat]
  /\ sincePing \in Nat /\ since \in Nat /\ stopFor \in Nat
  /\ acted \subseteq Threads \cup {"feeder"}
  /\ ~Running => stuck = {} /\ alive = {} /\ ~took
  /\ Running <=> unit \in {"active", "stopping"}

LEMMA TypeSplit ==
  TypeOK <=> ProcessOK /\ adriftFor \in Nat /\ wellAgo \in Nat
<1>1. Timer = Nat
  BY DEF Timer
<1> QED
  BY <1>1 DEF TypeOK, ProcessOK

LEMMA GuardTypes ==
  ASSUME ProcessOK, NEW g \in Guards,
         Works(g) \/ Ends(g) \/ Hangs(g) \/ Returns(g)
  PROVE  ProcessOK'
<1> USE DEF ProcessOK, Threads, Guards, Running
<1>1. CASE Works(g)
  BY <1>1 DEF Works, Turn
<1>2. CASE Ends(g)
  <2>1. driven' \subseteq Guards
    BY <1>2 DEF Ends, Dropped
  <2> QED
    BY <1>2, <2>1 DEF Ends, clocks
<1>3. CASE Hangs(g)
  BY <1>3 DEF Hangs, clocks
<1>4. CASE Returns(g)
  BY <1>4 DEF Returns, clocks
<1> QED
  BY <1>1, <1>2, <1>3, <1>4

LEMMA MainTypes ==
  ASSUME ProcessOK,
         \/ Passes \/ LoopPanics \/ Joins \/ GivesUp \/ ForceFullSpeed
         \/ Feed \/ Hangs("main") \/ Returns("main")
  PROVE  ProcessOK'
<1> USE DEF ProcessOK, Threads, Guards, Running, Places
<1>1. CASE Passes
  <2>1. age' \in [Threads -> Nat]
    <3>1. age' = age \/ age' = [age EXCEPT !["main"] = 0]
      BY <1>1, Zenon DEF Passes
    <3> QED
      BY <3>1
  <2>2. /\ UNCHANGED <<unit, stuck, alive, driven, took, asked, sincePing, stopFor>>
        /\ UNCHANGED exposed
        /\ main' \in {"looping", "joining"} /\ main = "looping"
    BY <1>1 DEF Passes, LeaveLoop, process
  <2>3. failed' \in BOOLEAN /\ since' \in Nat
    <3>1. LeaveLoop(FALSE) \/ LeaveLoop(TRUE) \/ UNCHANGED <<failed, since>>
      BY <1>1, Zenon DEF Passes, process
    <3>2. FALSE \in BOOLEAN /\ TRUE \in BOOLEAN
      OBVIOUS
    <3>3. (LeaveLoop(FALSE) => failed' \in BOOLEAN) /\ (LeaveLoop(FALSE) => since' = 0)
      BY <3>2, Zenon DEF LeaveLoop
    <3>4. (LeaveLoop(TRUE) => failed' \in BOOLEAN) /\ (LeaveLoop(TRUE) => since' = 0)
      BY <3>2, Zenon DEF LeaveLoop
    <3>5. since' = 0 \/ since' = since
      BY <3>1, <3>3, <3>4, Zenon
    <3>6. failed' \in BOOLEAN
      BY <3>1, <3>3, <3>4, Zenon
    <3> QED
      BY <3>5, <3>6
  <2>4. acted' = acted \cup {"main"}
    BY <1>1 DEF Passes, Turn
  <2> QED
    BY <2>1, <2>2, <2>3, <2>4
<1>2. CASE LoopPanics
  <2>1. /\ UNCHANGED <<unit, stuck, alive, driven, took, asked, sincePing, stopFor>>
        /\ UNCHANGED <<exposed, age, acted>>
        /\ main' = "joining" /\ main = "looping" /\ since' = 0
    BY <1>2, Zenon DEF LoopPanics, LeaveLoop
  <2>2. failed' \in BOOLEAN
    BY <1>2, Zenon DEF LoopPanics, LeaveLoop
  <2> QED
    BY <2>1, <2>2
<1>3. CASE Joins \/ GivesUp \/ ForceFullSpeed
  <2>1. /\ UNCHANGED <<unit, stuck, alive, took, failed, asked, age, sincePing>>
        /\ UNCHANGED <<stopFor, exposed, acted>> /\ since' = 0
        /\ main \in {"joining", "forcing"} /\ main' \in {"forcing", "cleaning"}
    BY <1>3, Zenon DEF Joins, GivesUp, ForceFullSpeed, Goes
  <2>2. driven' \subseteq driven
    BY <1>3 DEF Joins, GivesUp, ForceFullSpeed
  <2> QED
    BY <2>1, <2>2
<1>4. CASE Feed
  BY <1>4 DEF Feed, Turn, process
<1>5. CASE Hangs("main")
  BY <1>5 DEF Hangs, clocks
<1>6. CASE Returns("main")
  BY <1>6 DEF Returns, clocks
<1> QED
  BY <1>1, <1>2, <1>3, <1>4, <1>5, <1>6

\* However the process ends.
LEMMA EveryEnd ==
  ASSUME Exits \/ WatchdogFires \/ StopTimesOut \/ Crashes
  PROVE  Running /\ \E error \in BOOLEAN \cup {failed} : Dies(error)
BY DEF Exits, WatchdogFires, StopTimesOut, Crashes, Running

LEMMA UnitTypes ==
  ASSUME ProcessOK,
         \/ Exits \/ WatchdogFires \/ StopTimesOut \/ Crashes
         \/ Start \/ StartFails \/ Requested \/ FanFailsafe
  PROVE  ProcessOK'
<1> USE DEF ProcessOK, Threads, Guards, Running, Places, Units
<1>1. ASSUME NEW error \in BOOLEAN \cup {failed}, Dies(error) PROVE ProcessOK'
  BY <1>1 DEF Dies
<1>2. CASE Start
  BY <1>2 DEF Start
<1>3. CASE StartFails
  BY <1>3 DEF StartFails, clocks
<1>4. CASE Requested
  BY <1>4 DEF Requested, process
<1>5. CASE FanFailsafe
  BY <1>5 DEF FanFailsafe, process, clocks
<1> QED
  BY <1>1, <1>2, <1>3, <1>4, <1>5, EveryEnd

LEMMA ElapseTypes == ASSUME ProcessOK, Elapse PROVE ProcessOK'
<1>1. ASSUME NEW t \in Nat, NEW last PROVE Older(t, last) \in Nat
  BY DEF Older
<1>2. age' \in [Threads -> Nat]
  BY <1>1 DEF Elapse, ProcessOK
<1>3. sincePing' \in Nat /\ since' \in Nat /\ stopFor' \in Nat
  BY <1>1 DEF Elapse, ProcessOK
<1> QED
  BY <1>2, <1>3 DEF Elapse, ProcessOK, process, Running

LEMMA StepTypes == ASSUME ProcessOK, Step PROVE ProcessOK'
<1>1. Threads = Guards \cup {"main"}
  BY DEF Threads
<1> QED
  BY <1>1, GuardTypes, MainTypes, UnitTypes DEF Step, Stops, Panics

LEMMA WatchTypes ==
  ASSUME TypeOK, NEW d \in Nat, Watch(d)
  PROVE  adriftFor' \in Nat /\ wellAgo' \in Nat /\ watched' = watched
BY TypeSplit DEF Watch

-----------------------------------------------------------------------------
(* No device is adrift for longer than it may be. *)

LEMMA StateFact ==
  ASSUME IInv
  PROVE  /\ watched \in Guards /\ adriftFor \in Nat /\ LongestAdrift(watched) \in Nat
         /\ age[watched] \in Nat /\ age["main"] \in Nat
         /\ Waited \in Nat /\ Waited <= WatchdogSec + 1 + TimeoutStopSec
         /\ adriftFor <= LongestAdrift(watched)
<1>1. /\ watched \in Guards /\ adriftFor \in Nat
      /\ age[watched] \in Nat /\ age["main"] \in Nat
  BY TypeSplit DEF IInv, ProcessOK, Threads, Guards
<1>2. /\ Waited \in Nat /\ Waited <= WatchdogSec + 1 + TimeoutStopSec
  BY TypeSplit, TimesFact DEF IInv, ProcessOK, Capped, Waited
<1>3. adriftFor <= LongestAdrift(watched)
  BY <1>1, <1>2, OnTimeBound DEF IInv, AdriftInTime
<1> QED
  BY <1>1, <1>2, <1>3, SlackFact

\* A step that takes no time counts none.
LEMMA WatchFact ==
  ASSUME IInv, Watch(0)
  PROVE  /\ watched' = watched /\ adriftFor' \in {0, adriftFor}
         /\ ~Adrift(watched)' => adriftFor' = 0
<1>1. adriftFor + 0 = adriftFor
  BY StateFact
<1> QED
  BY <1>1 DEF Watch

\* The guard's own turn, and its return, end the time it was adrift.
LEMMA GuardOnTime ==
  ASSUME IInv, ProcessOK', Watch(0), NEW t \in Threads,
         \/ t \in Guards /\ (Works(t) \/ Ends(t))
         \/ Hangs(t) \/ Returns(t)
  PROVE  AdriftInTime' /\ SafeWhenDown'
<1>1. /\ Running /\ main' = main /\ unit' = unit /\ sincePing' = sincePing
      /\ stopFor' = stopFor
  BY DEF Works, Turn, Ends, Hangs, Returns, clocks
<1>2. Waited' = Waited /\ Running' /\ watched' = watched
  BY <1>1, WatchFact DEF Waited, Running
<1>3. OnTime(adriftFor, watched, main, age[watched], age["main"], Waited)
  BY <1>1 DEF IInv, AdriftInTime
<1>4. CASE age' = age
  <2>1. OnTime(0, watched, main, age[watched], age["main"], Waited)
    BY StateFact, ZeroOnTime
  <2> QED
    BY <1>1, <1>2, <1>3, <1>4, <2>1, WatchFact
       DEF AdriftInTime, SafeWhenDown, IInv, TypeOK
<1>5. CASE t \in Guards /\ Works(t)
  <2>1. age' = [age EXCEPT ![t] = 0] /\ age \in [Threads -> Nat]
        /\ t \in Threads /\ watched \in Threads /\ "main" \in Threads /\ t # "main"
    BY <1>5, TypeSplit DEF Works, IInv, ProcessOK, Threads, Guards
  <2>2. age'["main"] = age["main"]
    BY <2>1
  <2>3. CASE t = watched
    <3>1. ~Adrift(watched)'
      BY <1>1, <1>2, <1>5, <2>3 DEF Works, Adrift, Running
    <3>2. adriftFor' = 0 /\ age'[watched] = 0
      BY <2>1, <2>3, <3>1, WatchFact
    <3>3. OnTime(0, watched, main, 0, age["main"], Waited)
      BY StateFact, ZeroOnTime
    <3> QED
      BY <1>1, <1>2, <2>2, <3>2, <3>3 DEF AdriftInTime, SafeWhenDown, IInv, TypeOK
  <2>4. CASE t # watched
    <3>1. age'[watched] = age[watched]
      BY <2>1, <2>4
    <3>2. OnTime(0, watched, main, age[watched], age["main"], Waited)
      BY StateFact, ZeroOnTime
    <3> QED
      BY <1>1, <1>2, <1>3, <2>2, <3>1, <3>2, WatchFact
         DEF AdriftInTime, SafeWhenDown, IInv, TypeOK
  <2> QED
    BY <2>3, <2>4
<1> QED
  BY <1>4, <1>5 DEF Ends, Hangs, Returns, clocks

LEMMA WaitedIsTime == ASSUME ProcessOK' PROVE \E w \in Nat : w = Waited'
<1>1. PICK n \in Nat : n = sincePing'
  BY DEF ProcessOK
<1>2. PICK k \in Nat : k = stopFor'
  BY DEF ProcessOK
<1>3. WatchdogSec + 1 + k \in Nat
  BY TimesFact
<1>4. Waited' = IF unit' = "active" THEN n ELSE WatchdogSec + 1 + k
  BY <1>1, <1>2 DEF Waited
<1> QED
  BY <1>3, <1>4

\* A daemon that runs on, whatever its clocks are now.
LEMMA RunsOn ==
  ASSUME IInv, ProcessOK', Watch(0), Running', unit' \in {"active", "stopping"},
         OnTime(adriftFor, watched, main', age'[watched], age'["main"], Waited')
           \/ adriftFor' = 0
  PROVE  AdriftInTime' /\ SafeWhenDown'
<1>1. watched' = watched /\ watched \in Guards /\ adriftFor' \in {0, adriftFor}
  BY StateFact, WatchFact
<1>2. PICK o \in Nat : o = age'[watched]
  BY <1>1 DEF ProcessOK, Threads
<1>3. PICK p \in Nat : p = age'["main"]
  BY DEF ProcessOK, Threads
<1>4. PICK w \in Nat : w = Waited'
  BY WaitedIsTime
<1>5. OnTime(0, watched, main', o, p, w)
  BY <1>1, ZeroOnTime
<1>6. OnTime(adriftFor', watched, main', o, p, w)
  BY <1>1, <1>2, <1>3, <1>4, <1>5
<1> QED
  BY <1>1, <1>2, <1>3, <1>4, <1>6 DEF AdriftInTime, SafeWhenDown

LEMMA LoopOnTime ==
  ASSUME IInv, ProcessOK', Watch(0),
         Passes \/ LoopPanics \/ Joins \/ GivesUp \/ ForceFullSpeed
  PROVE  AdriftInTime' /\ SafeWhenDown'
<1> DEFINE o == age[watched]
           p == age["main"]
           w == Waited
<1>1. /\ Running /\ Running' /\ unit' = unit /\ sincePing' = sincePing
      /\ stopFor' = stopFor
  BY DEF Passes, LoopPanics, LeaveLoop, Turn, Joins, GivesUp, ForceFullSpeed, Goes,
         Running, process
<1>2. Waited' = w /\ unit' \in {"active", "stopping"}
  BY <1>1 DEF Waited, ProcessOK
<1>3. /\ watched \in Guards /\ watched \in Threads /\ watched # "main"
      /\ "main" \in Threads /\ age \in [Threads -> Nat]
      /\ o \in Nat /\ p \in Nat /\ w \in Nat /\ adriftFor \in Nat
  BY StateFact, TypeSplit DEF IInv, ProcessOK, Threads, Guards
<1>4. OnTime(adriftFor, watched, main, o, p, w)
  BY <1>1 DEF IInv, AdriftInTime
<1>5. age' \in {age, [age EXCEPT !["main"] = 0]}
  BY DEF Passes, LoopPanics, LeaveLoop, Joins, GivesUp, ForceFullSpeed, Goes
<1>6. age'[watched] = o /\ (age'["main"] = p \/ age'["main"] = 0)
  BY <1>3, <1>5
<1> HIDE DEF o, p, w
<1>7. CASE main' # "looping"
  <2>1. OnTime(adriftFor, watched, main', o, p, w)
        /\ OnTime(adriftFor, watched, main', o, 0, w)
    BY <1>3, <1>4, <1>7, LeavingOnTime
  <2> QED
    BY <1>1, <1>2, <1>6, <2>1, RunsOn
<1>8. CASE main' = "looping"
  <2>1. Passes /\ main' = main /\ age' = [age EXCEPT !["main"] = 0] /\ GuardsFine
    BY <1>8 DEF Passes, LoopPanics, LeaveLoop, Joins, GivesUp, ForceFullSpeed, Goes,
                process
  <2>2. o <= HeartbeatTimeout
    BY <1>3, <2>1 DEF GuardsFine, o
  <2>3. OnTime(adriftFor, watched, main, o, 0, w)
    BY <1>3, <1>4, <2>2, PassingOnTime
  <2>4. age'["main"] = 0
    BY <1>3, <2>1
  <2> QED
    BY <1>1, <1>2, <1>6, <2>1, <2>3, <2>4, RunsOn
<1> QED
  BY <1>7, <1>8

LEMMA FeedOnTime ==
  ASSUME IInv, ProcessOK', Watch(0), Feed
  PROVE  AdriftInTime' /\ SafeWhenDown'
<1>1. /\ Running /\ Running' /\ unit' = unit /\ stopFor' = stopFor
      /\ age' = age /\ main = "looping" /\ main' = main
  BY DEF Feed, Turn, Running, process
<1>2. OnTime(adriftFor, watched, main, age[watched], age["main"], Waited)
  BY <1>1 DEF IInv, AdriftInTime
<1>3. unit' \in {"active", "stopping"}
  BY <1>1 DEF ProcessOK
<1>4. CASE ShouldPing
  <2>1. PICK w \in Nat : w = Waited'
    BY WaitedIsTime
  <2>2. age["main"] <= StallAfter
        /\ (watched = "fans" => age[watched] <= HeartbeatTimeout)
    BY <1>4 DEF ShouldPing
  <2>3. OnTime(adriftFor, watched, "looping", age[watched], age["main"], w)
    BY <1>1, <1>2, <2>2, StateFact, PingingOnTime
  <2> QED
    BY <1>1, <1>3, <2>1, <2>3, RunsOn
<1>5. CASE ~ShouldPing
  <2>1. Waited' = Waited
    BY <1>1, <1>5 DEF Feed, Waited
  <2> QED
    BY <1>1, <1>2, <1>3, <2>1, RunsOn
<1> QED
  BY <1>4, <1>5

LEMMA EndOnTime ==
  ASSUME IInv, ProcessOK', Watch(0),
         Exits \/ WatchdogFires \/ StopTimesOut \/ Crashes
  PROVE  AdriftInTime' /\ SafeWhenDown'
<1>1. unit' = "post" /\ ~Running'
  BY EveryEnd DEF Dies, Running
<1>2. 0 <= LongestAdrift(watched)
  BY StateFact
<1>3. adriftFor' <= LongestAdrift(watched)
  BY <1>2, StateFact, WatchFact
<1> QED
  BY <1>1, <1>3, WatchFact DEF AdriftInTime, SafeWhenDown

LEMMA UnitOnTime ==
  ASSUME IInv, ProcessOK', Watch(0), Start \/ StartFails \/ Requested \/ FanFailsafe
  PROVE  AdriftInTime' /\ SafeWhenDown'
<1>1. 0 <= LongestAdrift(watched) /\ watched' = watched
  BY StateFact, WatchFact
<1>2. CASE Start \/ StartFails
  <2>1. unit = "waiting" /\ driven \subseteq exposed /\ adriftFor = 0
        /\ adriftFor' = 0
    BY <1>2, WatchFact DEF Start, StartFails, IInv, SafeWhenDown
  <2>2. CASE Start
    <3>1. Running' /\ unit' = "active"
      BY <2>2 DEF Start, Running
    <3> QED
      BY <2>1, <3>1, RunsOn
  <2>3. CASE StartFails
    <3>1. unit' = "post" /\ ~Running'
      BY <2>3 DEF StartFails, ProcessOK
    <3> QED
      BY <1>1, <2>1, <3>1 DEF AdriftInTime, SafeWhenDown
  <2> QED
    BY <1>2, <2>2, <2>3
<1>3. CASE FanFailsafe
  <2>1. driven' \subseteq exposed' /\ unit' \in {"inactive", "waiting"}
    BY <1>3 DEF FanFailsafe
  <2>2. adriftFor' = 0
    BY <2>1, WatchFact DEF Adrift
  <2>3. ~Running'
    BY <2>1 DEF ProcessOK
  <2> QED
    BY <1>1, <2>1, <2>2, <2>3 DEF AdriftInTime, SafeWhenDown
<1>4. CASE Requested
  <2>1. UNCHANGED <<main, driven, exposed, age, sincePing>> /\ stopFor' = 0
        /\ Running' = Running
    BY <1>4 DEF Requested, process, Running
  <2>2. CASE unit = "active"
    <3>1. unit' \in {"active", "stopping"} /\ Running /\ Running'
      BY <1>4, <2>1, <2>2, TypeSplit DEF Requested, IInv, ProcessOK
    <3>2. OnTime(adriftFor, watched, main, age[watched], age["main"], sincePing)
      BY <2>2, <3>1 DEF IInv, AdriftInTime, Waited
    <3>3. sincePing \in Nat /\ WatchdogSec + 1 + 0 \in Nat
          /\ sincePing <= WatchdogSec + 1 + 0
      BY TimesFact, TypeSplit DEF IInv, ProcessOK, Capped
    <3>4. OnTime(adriftFor, watched, main, age[watched], age["main"],
                 WatchdogSec + 1 + 0)
      BY <3>2, <3>3, StateFact, LongerOnTime
    <3>5. Waited' = IF unit' = "active" THEN sincePing ELSE WatchdogSec + 1 + 0
      BY <2>1 DEF Waited
    <3> QED
      BY <2>1, <3>1, <3>2, <3>4, <3>5, RunsOn
  <2>3. CASE unit # "active"
    <3>1. unit \in {"inactive", "waiting"} /\ unit' \in {"inactive", "waiting"}
      BY <1>4, <2>3 DEF Requested
    <3>2. driven' \subseteq exposed' /\ adriftFor' = 0 /\ ~Running'
      BY <2>1, <3>1, WatchFact DEF IInv, SafeWhenDown, ProcessOK
    <3> QED
      BY <1>1, <3>1, <3>2 DEF AdriftInTime, SafeWhenDown
  <2> QED
    BY <2>2, <2>3
<1> QED
  BY <1>2, <1>3, <1>4

\* A unit of time, which passes only if nothing is due.
LEMMA ElapseKeeps ==
  ASSUME IInv, ProcessOK', Elapse, Watch(1)
  PROVE  AdriftInTime' /\ SafeWhenDown' /\ Capped'
<1> DEFINE o == age[watched]
           p == age["main"]
           w == Waited
           a == adriftFor
           b == a + 1
<1>1. /\ watched \in Guards /\ a \in Nat /\ o \in Nat /\ p \in Nat /\ w \in Nat
      /\ a <= LongestAdrift(watched) /\ LongestAdrift(watched) \in Nat
  BY StateFact
<1>2. /\ UNCHANGED <<unit, main, driven, exposed, alive, stuck>>
      /\ Running' = Running /\ watched' = watched
  BY DEF Elapse, process, Running, Watch
<1>3. /\ age'[watched] = Older(o, HeartbeatTimeout)
      /\ age'["main"] = Older(p, StallAfter)
  BY <1>1 DEF Elapse, Guards, Threads
<1>4. /\ adriftFor' = 0 \/ adriftFor' = b
      /\ ~Adrift(watched)' => adriftFor' = 0
  <2>1. ~(a > LongestAdrift(watched))
    BY <1>1
  <2> QED
    BY <2>1 DEF Watch
<1>5. /\ unit \in {"active", "stopping"} \/ unit = "inactive"
      /\ unit = "active" => sincePing <= WatchdogSec
      /\ unit = "stopping" => stopFor < TimeoutStopSec
      /\ sincePing \in Nat /\ stopFor \in Nat
  BY TimesFact, TypeSplit DEF Elapse, Due, IInv, ProcessOK, Units, Running
<1>6. /\ sincePing' = Older(sincePing, WatchdogSec)
      /\ stopFor' = IF unit = "stopping" THEN Older(stopFor, TimeoutStopSec) ELSE 0
  BY DEF Elapse
<1>7. Capped'
  <2>1. /\ Older(sincePing, WatchdogSec) <= WatchdogSec + 1
        /\ unit = "stopping" => Older(stopFor, TimeoutStopSec) <= TimeoutStopSec
        /\ 0 <= TimeoutStopSec
    BY <1>5, TimesFact DEF Older, IInv, Capped
  <2> QED
    BY <1>6, <2>1 DEF Capped
<1>8. CASE Running
  <2>1. unit \in {"active", "stopping"}
    BY <1>8, TypeSplit DEF IInv, ProcessOK
  <2>2. Waited' = w + 1
    <3>1. unit = "active" => Older(sincePing, WatchdogSec) = sincePing + 1
      BY <1>5, TimesFact DEF Older
    <3>2. unit = "stopping" =>
            /\ Older(stopFor, TimeoutStopSec) = stopFor + 1
            /\ WatchdogSec + 1 + (stopFor + 1) = WatchdogSec + 1 + stopFor + 1
      BY <1>5, TimesFact DEF Older
    <3>3. Waited' = IF unit = "active" THEN Older(sincePing, WatchdogSec)
                    ELSE WatchdogSec + 1 + stopFor'
      BY <1>2, <1>6 DEF Waited
    <3> QED
      BY <1>6, <2>1, <3>1, <3>2, <3>3 DEF Waited
  <2>3. OnTime(a, watched, main, o, p, w)
    BY <1>8 DEF IInv, AdriftInTime
  <2> HIDE DEF a, o, p, w
  <2>4. OnTime(b, watched, main, Older(o, HeartbeatTimeout), Older(p, StallAfter), w + 1)
    BY <1>1, <2>3, ElapseOnTime
  <2>5. OnTime(0, watched, main, Older(o, HeartbeatTimeout), Older(p, StallAfter), w + 1)
    <3>1. Older(o, HeartbeatTimeout) \in Nat /\ Older(p, StallAfter) \in Nat /\ w + 1 \in Nat
      BY <1>1, TimesFact DEF Older
    <3> QED
      BY <1>1, <3>1, ZeroOnTime
  <2> HIDE DEF b
  <2>6. OnTime(adriftFor', watched, main, Older(o, HeartbeatTimeout),
               Older(p, StallAfter), w + 1)
    BY <1>4, <2>4, <2>5
  <2> QED
    BY <1>2, <1>3, <1>7, <1>8, <2>1, <2>2, <2>6 DEF AdriftInTime, SafeWhenDown
<1>9. CASE ~Running
  <2>1. unit = "inactive"
    BY <1>5, <1>9, TypeSplit DEF IInv, ProcessOK
  <2>2. ~Adrift(watched)' /\ driven' \subseteq exposed'
    BY <1>2, <2>1 DEF IInv, SafeWhenDown, Adrift
  <2>3. adriftFor' = 0 /\ 0 <= LongestAdrift(watched)
    BY <1>1, <1>4, <2>2
  <2> QED
    BY <1>2, <1>7, <1>9, <2>2, <2>3 DEF AdriftInTime, SafeWhenDown
<1> QED
  BY <1>8, <1>9

-----------------------------------------------------------------------------
(* The watchdog's view, and the theorems. *)

\* sincePing is set back only by a ping, for which the feeder found all well,
\* or by a start; wellAgo whenever it did.
LEMMA PingsKeep ==
  ASSUME IInv, Step, Watch(0)
  PROVE  Capped' /\ PingsFollow'
<1>1. sincePing \in Nat /\ stopFor \in Nat /\ wellAgo \in Nat /\ Capped
      /\ PingsFollow
  BY TypeSplit DEF IInv, ProcessOK
<1>2. CASE Feed
  <2>1. stopFor' = stopFor
    BY <1>2 DEF Feed
  <2>2. CASE ShouldPing
    <3>1. sincePing' \in {0, sincePing} /\ (sincePing' # 0 => sincePing <= PingEvery)
      BY <1>1, <1>2, <2>2, TimesFact DEF Feed, PingDue
    <3>2. wellAgo' = 0
      BY <1>2, <2>2 DEF Watch
    <3>3. PICK n \in {0, sincePing} : n = sincePing'
      BY <3>1
    <3>4. n <= WatchdogSec + 1 /\ n <= 0 + PingEvery
      BY <1>1, <3>1, <3>3, TimesFact DEF Capped
    <3> QED
      BY <1>1, <2>1, <3>2, <3>3, <3>4 DEF Capped, PingsFollow
  <2>3. CASE ~ShouldPing
    <3>1. sincePing' = sincePing
      BY <1>2, <2>3 DEF Feed
    <3>2. ~Start
      BY <1>2 DEF Feed, Start, Turn, Running
    <3>3. wellAgo' = wellAgo
      BY <1>1, <2>3, <3>2 DEF Watch
    <3> QED
      BY <1>1, <2>1, <3>1, <3>3 DEF Capped, PingsFollow
  <2> QED
    BY <2>2, <2>3
<1>3. CASE Start
  <2>1. sincePing' = 0 /\ stopFor' = 0 /\ wellAgo' = 0
    BY <1>3 DEF Start, Watch
  <2>2. 0 <= WatchdogSec + 1 /\ 0 <= TimeoutStopSec /\ 0 <= 0 + PingEvery
    BY TimesFact
  <2> QED
    BY <2>1, <2>2 DEF Capped, PingsFollow
<1>4. CASE ~Feed /\ ~Start
  <2>1. wellAgo' = wellAgo
    BY <1>1, <1>4 DEF Watch
  <2>2. sincePing' = sincePing /\ stopFor' \in {stopFor, 0}
    <3>1. ASSUME NEW g \in Guards, Works(g) \/ Stops(g) \/ Panics(g)
          PROVE  UNCHANGED <<sincePing, stopFor>>
      BY <3>1 DEF Works, Stops, Panics, Ends, clocks
    <3>2. ASSUME NEW t \in Threads, Hangs(t) \/ Returns(t)
          PROVE  UNCHANGED <<sincePing, stopFor>>
      BY <3>2 DEF Hangs, Returns, clocks
    <3>3. CASE Passes \/ LoopPanics \/ Joins \/ GivesUp \/ ForceFullSpeed
      BY <3>3 DEF Passes, LoopPanics, LeaveLoop, Joins, GivesUp, ForceFullSpeed, Goes
    <3>4. CASE Exits \/ WatchdogFires \/ StopTimesOut \/ Crashes
      BY <3>4, EveryEnd DEF Dies
    <3>5. CASE StartFails \/ Requested \/ FanFailsafe
      BY <3>5 DEF StartFails, Requested, FanFailsafe, clocks
    <3> QED
      BY <1>4, <3>1, <3>2, <3>3, <3>4, <3>5 DEF Step
  <2>3. 0 <= TimeoutStopSec
    BY TimesFact
  <2> QED
    BY <1>1, <2>1, <2>2, <2>3 DEF Capped, PingsFollow
<1> QED
  BY <1>2, <1>3, <1>4

LEMMA ElapsePings == ASSUME IInv, Elapse, Watch(1) PROVE PingsFollow'
<1> DEFINE n == sincePing
           k == wellAgo
           m == IF k > WatchdogSec THEN k ELSE k + 1
<1>1. n \in Nat /\ k \in Nat /\ (n <= k + PingEvery \/ k > WatchdogSec)
  BY TypeSplit DEF IInv, ProcessOK, PingsFollow
<1>2. sincePing' = Older(n, WatchdogSec)
  BY DEF Elapse
<1>3. wellAgo' = 0 \/ wellAgo' = m
  BY DEF Watch
<1>4. wellAgo' = m
  <2>1. ~Start
    BY DEF Elapse, Due, Start
  <2>2. ~Feed
    <3>1. ASSUME Feed PROVE FALSE
      <4>1. acted' = acted \cup {"feeder"} /\ acted' = {}
        BY <3>1 DEF Feed, Turn, Elapse
      <4> QED
        BY <4>1
    <3> QED
      BY <3>1
  <2> QED
    BY <2>1, <2>2 DEF Watch
<1> HIDE DEF n, k
<1>5. Older(n, WatchdogSec) <= m + PingEvery \/ m > WatchdogSec
  BY <1>1, TimesFact DEF Older
<1> QED
  BY <1>2, <1>4, <1>5 DEF PingsFollow

LEMMA InitIInv == Init => IInv
<1> SUFFICES ASSUME Init PROVE IInv
  OBVIOUS
<1>1. TypeOK /\ watched \in Guards
  BY TypeSplit DEF Init, ProcessOK, Units, Places, Threads, Guards, Running
<1>2. ~Running /\ driven \subseteq exposed /\ adriftFor = 0
      /\ sincePing = 0 /\ stopFor = 0 /\ wellAgo = 0
  BY DEF Init, Running
<1>3. 0 <= LongestAdrift(watched)
  BY <1>1, SlackFact
<1>4. Capped /\ PingsFollow
  <2>1. 0 <= WatchdogSec + 1 /\ 0 <= TimeoutStopSec /\ 0 <= 0 + PingEvery
    BY TimesFact
  <2> QED
    BY <1>2, <2>1 DEF Capped, PingsFollow
<1> QED
  BY <1>1, <1>2, <1>3, <1>4 DEF IInv, SafeWhenDown, AdriftInTime

LEMMA NextIInv == IInv /\ [Next]_vars => IInv'
<1> SUFFICES ASSUME IInv, [Next]_vars PROVE IInv'
  OBVIOUS
<1>1. ProcessOK /\ TypeOK
  BY TypeSplit DEF IInv
<1>2. CASE Step /\ Watch(0)
  <2>1. ProcessOK'
    BY <1>1, <1>2, StepTypes
  <2>2. TypeOK' /\ watched' \in Guards
    <3>1. adriftFor' \in Nat /\ wellAgo' \in Nat /\ watched' = watched
      BY <1>1, <1>2, WatchTypes
    <3> QED
      BY <2>1, <3>1 DEF TypeOK, ProcessOK, Timer, IInv
  <2>3. AdriftInTime' /\ SafeWhenDown'
    <3>1. ASSUME NEW g \in Guards, Works(g) \/ Stops(g) \/ Panics(g)
          PROVE  AdriftInTime' /\ SafeWhenDown'
      BY <1>2, <2>1, <3>1, GuardOnTime DEF Stops, Panics, Threads
    <3>2. ASSUME NEW t \in Threads, Hangs(t) \/ Returns(t)
          PROVE  AdriftInTime' /\ SafeWhenDown'
      BY <1>2, <2>1, <3>2, GuardOnTime
    <3>3. CASE Passes \/ LoopPanics \/ Joins \/ GivesUp \/ ForceFullSpeed
      BY <1>2, <2>1, <3>3, LoopOnTime
    <3>4. CASE Feed
      BY <1>2, <2>1, <3>4, FeedOnTime
    <3>5. CASE Exits \/ WatchdogFires \/ StopTimesOut \/ Crashes
      BY <1>2, <2>1, <3>5, EndOnTime
    <3>6. CASE Start \/ StartFails \/ Requested \/ FanFailsafe
      BY <1>2, <2>1, <3>6, UnitOnTime
    <3> QED
      BY <1>2, <3>1, <3>2, <3>3, <3>4, <3>5, <3>6 DEF Step
  <2>4. Capped' /\ PingsFollow'
    BY <1>2, PingsKeep
  <2> QED
    BY <2>2, <2>3, <2>4 DEF IInv
<1>3. CASE Elapse /\ Watch(1)
  <2>1. ProcessOK'
    BY <1>1, <1>3, ElapseTypes
  <2>2. TypeOK' /\ watched' \in Guards
    <3>1. adriftFor' \in Nat /\ wellAgo' \in Nat /\ watched' = watched
      BY <1>1, <1>3, WatchTypes
    <3> QED
      BY <2>1, <3>1 DEF TypeOK, ProcessOK, Timer, IInv
  <2> QED
    BY <1>3, <2>1, <2>2, ElapseKeeps, ElapsePings DEF IInv
<1>4. CASE UNCHANGED vars
  <2>1. TypeOK' /\ watched' \in Guards /\ Running' = Running
    BY <1>1, <1>4 DEF IInv, TypeOK, Running, vars, process, clocks, history
  <2>2. Capped' /\ SafeWhenDown' /\ PingsFollow'
    BY <1>4 DEF IInv, Capped, SafeWhenDown, PingsFollow, vars, process, clocks, history
  <2>3. Waited' = Waited
    BY <1>4 DEF Waited, vars, clocks
  <2>4. AdriftInTime'
    BY <1>4, <2>1, <2>3 DEF IInv, AdriftInTime, vars, process, clocks, history
  <2> QED
    BY <2>1, <2>2, <2>4 DEF IInv
<1> QED
  BY <1>2, <1>3, <1>4 DEF Next

\* The invariant of the supervision as a whole.
THEOREM InductiveInvariant == Spec => []IInv
BY InitIInv, NextIInv, PTL DEF Spec

\* Every actor keeps the variables typed, and no thread outlives its process.
THEOREM TypeCorrect == Spec => []TypeOK
<1>1. IInv => TypeOK
  BY DEF IInv
<1> QED
  BY <1>1, InductiveInvariant, PTL

\* Whatever hangs, ends or is killed, no device is left for longer than
\* LongestAdrift at what a thread that is not there any more wrote last
\* (check_guards, the feeder, FanService::shutdown, fan-failsafe).
THEOREM NeverAdriftForLong == Spec => []NeverLongAdrift
<1>1. IInv => NeverLongAdrift
  BY StateFact DEF NeverLongAdrift
<1> QED
  BY <1>1, InductiveInvariant, PTL

\* The watchdog kills no daemon that the feeder found well within most of its
\* period (Watchdog::ping, spawn_feeder).
THEOREM OnlyTheUnwellAreKilled == Spec => KillsOnlyTheUnwell
<1>1. IInv /\ [Next]_vars =>
        [WatchdogFires => wellAgo + PingEvery > WatchdogSec]_vars
  <2> SUFFICES ASSUME IInv, WatchdogFires
               PROVE  wellAgo + PingEvery > WatchdogSec
    OBVIOUS
  <2>1. sincePing \in Nat /\ wellAgo \in Nat
        /\ (sincePing <= wellAgo + PingEvery \/ wellAgo > WatchdogSec)
    BY TypeSplit DEF IInv, ProcessOK, PingsFollow
  <2>2. sincePing > WatchdogSec
    BY DEF WatchdogFires
  <2> QED
    BY <2>1, <2>2, TimesFact
<1> QED
  BY <1>1, InductiveInvariant, PTL DEF Spec, KillsOnlyTheUnwell

-----------------------------------------------------------------------------
(* The LEDs: what they should show, and the inductive invariant. *)

\* What a bay shows, in a state of the panel.
BayShows(a, l, b) ==
  l.bays[b] = IF a.asleep THEN NightLook(BayState(a, b)) ELSE BayLook[BayState(a, b)]

LookedAt(a, b) == a.disks[b] # "None" \/ b \in a.located \/ b = a.alertBay

LanLook(a) == IF a.asleep /\ DarkensFront(a) THEN "Off" ELSE "Auto"

BaysRight(a, l) ==
  \A b \in Bays : /\ LookedAt(a, b) => BayShows(a, l, b)
                  /\ a.asleep /\ b \notin a.located => l.bays[b][1] = "Off"

StatusRight(a, l) == l.shown = StatusPattern(a) /\ l.status = StatusLook[StatusPattern(a)]

FrontShows(a, l) == l.power = PowerLook(a) /\ l.lan = LanLook(a)

\* The LEDs are as the state asks, and what is remembered of them is true.
Right(a, l) == BaysRight(a, l) /\ StatusRight(a, l) /\ FrontShows(a, l)

\* The driver that is there is the one the LEDs were last written for.
SameDriver ==
  device.stage = "full" /\ applied.stage = "full" /\ applied.core = device.loads

\* So is the dimmer, as far as the watch can tell.
SameDimmer ==
  applied.stage = "full" /\ device.dimmer /\ applied.dimmer = device.dimmers

LevelKept ==
  /\ bright.written \in {Nothing, bright.level}
  /\ SameDimmer => WantedLevel(app, bright.day) \in {bright.level, Nothing}

\* A driver that is half there has not been written for, and none was written
\* for before it came.
WatchBehind ==
  /\ applied.core <= device.loads /\ applied.dimmer <= device.dimmers
  /\ device.stage = "partial" /\ applied.stage = "full" => applied.core < device.loads
  /\ device.dimmer => device.dimmers > 0

AlertShown ==
  /\ app.alertBay = AlertOf(app.over)
  /\ app.asleep => app.over = Nothing

LedsInv ==
  /\ LedsTypeOK
  /\ AlertShown
  /\ WatchBehind
  /\ SameDriver => Right(app, leds)
  /\ LevelKept

-----------------------------------------------------------------------------
(* Types. *)

AppT ==
  [config : Configs, asleep : BOOLEAN, over : Messages \cup {Nothing},
   alertBay : Bays \cup {NoBay}, located : SUBSET Bays, chassis : BOOLEAN,
   disks : [Bays -> Healths], other : Others, failed : SUBSET Bays]

LedT ==
  [bays : [Bays -> Looks \X Looks], status : Looks \X Looks, power : Looks,
   lan : Looks, shown : Patterns \cup {Nothing}]

BrightT == [level : Levels, day : Levels \cup {Nothing}, written : Levels \cup {Nothing}]

DeviceOK ==
  /\ device \in [stage : {"absent", "partial", "full"}, dimmer : BOOLEAN,
                loads : 0 .. MaxLoads, dimmers : 0 .. MaxDimmers]
  /\ {applied, seen} \subseteq Snapshots

\* LedsTypeOK, by the parts of the state.
LEMMA Types == LedsTypeOK <=> app \in AppT /\ leds \in LedT /\ bright \in BrightT /\ DeviceOK
BY DEF LedsTypeOK, AppT, LedT, BrightT, DeviceOK

\* The patterns and their looks.
LEMMA PatternFacts ==
  /\ Patterns = DOMAIN Severity \cup {"Locate", "Off"}
  /\ "Locate" \notin DOMAIN Severity /\ "Off" \notin DOMAIN Severity
  /\ \A p \in Patterns : StatusLook[p] \in Looks \X Looks
  /\ Nothing \notin Patterns
  /\ {"Ok", "Failed", "Locate", "Off"} \subseteq Patterns
<1>1. Patterns = {"Ok", "Warning", "GreenFlashing", "WarningFlashing", "Degraded",
                  "Failed", "CriticalFlashing", "Locate", "Off"}
  BY DEF Patterns, StatusLook
<1>2. DOMAIN Severity = {"Ok", "Warning", "GreenFlashing", "WarningFlashing", "Degraded",
                         "Failed", "CriticalFlashing"}
  BY DEF Severity
<1>3. \A p \in Patterns : StatusLook[p] \in Looks \X Looks
  BY <1>1 DEF StatusLook, Looks
<1> QED
  BY <1>1, <1>2, <1>3, NothingAssumption DEF Patterns

\* No verdict is the locate's pattern, nor the night's.
LEMMA VerdictFact ==
  ASSUME NEW a \in AppT
  PROVE  Verdict(a) \in DOMAIN Severity
<1>1. "Ok" \in DOMAIN Severity /\ "Failed" \in DOMAIN Severity
  BY DEF Severity
<1>2. a.other \in DOMAIN Severity
  BY PatternsAssumption DEF AppT
<1>3. HealthPattern(a) \in DOMAIN Severity
  BY <1>1, <1>2 DEF HealthPattern, Worse
<1>4. CASE a.over = Nothing \/ a.over.pattern = Nothing
  BY <1>3, <1>4 DEF Verdict
<1>5. CASE ~(a.over = Nothing \/ a.over.pattern = Nothing)
  <2>1. a.over.pattern \in DOMAIN Severity
    BY <1>5, PatternsAssumption DEF AppT
  <2> QED
    BY <1>3, <1>5, <2>1 DEF Verdict, Worse
<1> QED
  BY <1>4, <1>5

LEMMA StatusFact ==
  ASSUME NEW a \in AppT
  PROVE  /\ StatusPattern(a) \in Patterns
         /\ (StatusPattern(a) = "Locate") = a.chassis
         /\ ~a.chassis /\ a.asleep /\ DarkensFront(a) => StatusPattern(a) = "Off"
         /\ ~a.chassis /\ ~(a.asleep /\ DarkensFront(a)) => StatusPattern(a) = Verdict(a)
BY VerdictFact, PatternFacts DEF StatusPattern, AppT

BayStates == {"Normal", "Standby", "Failed", "Alert", "Locate"}

LEMMA BayStateFact ==
  ASSUME NEW a \in AppT, NEW b \in Bays
  PROVE  BayState(a, b) \in BayStates /\ (BayState(a, b) = "Locate" <=> b \in a.located)
<1>1. a.disks[b] \in {"None", "Normal", "Standby", "Failed"}
  BY HealthsAssumption DEF AppT
<1> QED
  BY <1>1 DEF BayState, BayStates

\* At night the green half of a bay is dark, the red one as by day, unless the
\* bay is being located.
LEMMA BayLookFact ==
  ASSUME NEW s \in BayStates
  PROVE  /\ BayLook[s] \in Looks \X Looks /\ NightLook(s) \in Looks \X Looks
         /\ s # "Locate" => NightLook(s) = <<"Off", BayLook[s][2]>>
         /\ s = "Locate" => NightLook(s) = BayLook[s]
BY DEF BayStates, BayLook, NightLook, Looks

-----------------------------------------------------------------------------
(* What each write leaves. *)

\* Whatever is remembered as written to the status LED is on it.
Remembered(l) == l.shown # Nothing => l.status = StatusLook[l.shown]

SameFront(l, m) ==
  m.status = l.status /\ m.shown = l.shown /\ m.power = l.power /\ m.lan = l.lan

LEMMA SetBaysFact ==
  ASSUME NEW a \in AppT, NEW l \in LedT, NEW S, NEW m, m = SetBays(a, l, S)
  PROVE  /\ m \in LedT /\ SameFront(l, m)
         /\ \A b \in Bays : /\ b \in S => BayShows(a, m, b)
                            /\ b \notin S => m.bays[b] = l.bays[b]
<1>1. \A b \in Bays : SetBay(a, l, b).bays[b]
        = IF a.asleep THEN NightLook(BayState(a, b)) ELSE BayLook[BayState(a, b)]
  BY DEF SetBay, LedT
<1>2. \A b \in Bays : SetBay(a, l, b).bays[b] \in Looks \X Looks
  BY <1>1, BayStateFact, BayLookFact
<1>3. m = [l EXCEPT !.bays = [b \in Bays |-> IF b \in S THEN SetBay(a, l, b).bays[b]
                                                        ELSE l.bays[b]]]
  BY DEF SetBays
<1> HIDE DEF SetBays
<1>4. m.bays = [b \in Bays |-> IF b \in S THEN SetBay(a, l, b).bays[b] ELSE l.bays[b]]
  BY <1>3 DEF LedT
<1>5. m.bays \in [Bays -> Looks \X Looks]
  BY <1>2, <1>4 DEF LedT
<1>6. m \in LedT /\ SameFront(l, m)
  BY <1>3, <1>4, <1>5 DEF LedT, SameFront
<1> QED
  BY <1>1, <1>4, <1>6 DEF BayShows

LEMMA RecomputeFact ==
  ASSUME NEW a \in AppT, NEW l \in LedT, NEW m, m = Recompute(a, l)
  PROVE  /\ m \in LedT /\ m.bays = l.bays /\ m.power = l.power /\ m.lan = l.lan
         /\ Remembered(l) => StatusRight(a, m)
         /\ l.shown # StatusPattern(a) => StatusRight(a, m)
<1> DEFINE p == StatusPattern(a)
<1>1. p \in Patterns /\ StatusLook[p] \in Looks \X Looks /\ p # Nothing
  BY StatusFact, PatternFacts
<1>2. m = IF l.shown = p THEN l ELSE [l EXCEPT !.status = StatusLook[p], !.shown = p]
  BY DEF Recompute
<1>3. StatusRight(a, m) <=> m.shown = p /\ m.status = StatusLook[p]
  BY DEF StatusRight
<1> HIDE DEF p
<1>4. CASE l.shown = p
  BY <1>1, <1>2, <1>3, <1>4 DEF Remembered, p
<1>5. CASE l.shown # p
  <2>1. m = [l EXCEPT !.status = StatusLook[p], !.shown = p]
    BY <1>2, <1>5
  <2>2. m \in LedT /\ m.bays = l.bays /\ m.power = l.power /\ m.lan = l.lan
        /\ m.shown = p /\ m.status = StatusLook[p]
    BY <1>1, <2>1 DEF LedT
  <2> QED
    BY <1>3, <2>2
<1> QED
  BY <1>4, <1>5

LEMMA UpdateHealthFact ==
  ASSUME NEW a \in AppT, NEW l \in LedT, NEW m, m = UpdateHealth(a, l)
  PROVE  /\ m \in LedT /\ m.power = l.power /\ m.lan = l.lan
         /\ Remembered(l) => StatusRight(a, m)
         /\ \A b \in Bays : /\ a.disks[b] # "None" => BayShows(a, m, b)
                            /\ a.disks[b] = "None" => m.bays[b] = l.bays[b]
<1> DEFINE S == {b \in Bays : a.disks[b] # "None"}
           k == SetBays(a, l, S)
<1>1. m = Recompute(a, k)
  BY DEF UpdateHealth
<1>2. /\ k \in LedT /\ SameFront(l, k)
      /\ \A b \in Bays : /\ b \in S => BayShows(a, k, b)
                         /\ b \notin S => k.bays[b] = l.bays[b]
  BY SetBaysFact
<1>3. \A b \in Bays : b \in S <=> a.disks[b] # "None"
  OBVIOUS
<1> HIDE DEF k, S
<1>4. /\ m \in LedT /\ m.bays = k.bays /\ m.power = k.power /\ m.lan = k.lan
      /\ Remembered(k) => StatusRight(a, m)
  BY <1>1, <1>2, RecomputeFact
<1>5. Remembered(l) => Remembered(k)
  BY <1>2 DEF Remembered, SameFront
<1> QED
  BY <1>2, <1>3, <1>4, <1>5 DEF BayShows, SameFront

LEMMA ReassertFact ==
  ASSUME NEW a \in AppT, NEW l \in LedT, NEW m, m = Reassert(a, l)
  PROVE  /\ m \in LedT /\ m.lan = l.lan
         /\ m.power = IF a.chassis THEN "Fast" ELSE l.power
         /\ StatusRight(a, l) \/ a.chassis => StatusRight(a, m)
         /\ \A b \in Bays : /\ b \in a.located => BayShows(a, m, b)
                            /\ b \notin a.located => m.bays[b] = l.bays[b]
<1> DEFINE k == SetBays(a, l, a.located)
<1>1. /\ k \in LedT /\ SameFront(l, k)
      /\ \A b \in Bays : /\ b \in a.located => BayShows(a, k, b)
                         /\ b \notin a.located => k.bays[b] = l.bays[b]
  BY SetBaysFact
<1>2. m = IF a.chassis THEN [k EXCEPT !.power = "Fast", !.status = StatusLook["Locate"],
                                      !.shown = "Locate"] ELSE k
  BY DEF Reassert
<1> HIDE DEF k
<1>3. CASE a.chassis
  <2>1. StatusPattern(a) = "Locate"
    BY <1>3 DEF StatusPattern
  <2>2. m = [k EXCEPT !.power = "Fast", !.status = StatusLook["Locate"], !.shown = "Locate"]
    BY <1>2, <1>3
  <2>3. StatusLook["Locate"] \in Looks \X Looks /\ "Locate" \in Patterns /\ "Fast" \in Looks
    BY PatternFacts DEF Looks
  <2>4. /\ m \in LedT /\ m.lan = k.lan /\ m.power = "Fast" /\ m.bays = k.bays
        /\ m.shown = "Locate" /\ m.status = StatusLook["Locate"]
    BY <1>1, <2>2, <2>3 DEF LedT
  <2> QED
    BY <1>1, <1>3, <2>1, <2>4 DEF StatusRight, BayShows, SameFront
<1>4. CASE ~a.chassis
  BY <1>1, <1>2, <1>4 DEF StatusRight, SameFront
<1> QED
  BY <1>3, <1>4

-----------------------------------------------------------------------------
(* Night, morning, and everything from scratch. *)

LEMMA GreenFact ==
  ASSUME NEW l \in LedT, NEW look \in Looks
  PROVE  /\ Green(l, look) \in [Bays -> Looks \X Looks]
         /\ \A b \in Bays : Green(l, look)[b] = <<look, l.bays[b][2]>>
BY DEF Green, LedT

LEMMA EnterNightFact ==
  ASSUME NEW l \in LedT, NEW front \in BOOLEAN, NEW m, m = EnterNight(l, front)
  PROVE  /\ m \in LedT /\ m.shown = l.shown
         /\ \A b \in Bays : m.bays[b] = <<"Off", l.bays[b][2]>>
         /\ front => m.status = StatusLook["Off"] /\ m.power = "Off" /\ m.lan = "Off"
         /\ ~front => SameFront(l, m)
<1> DEFINE g == Green(l, "Off")
           k == [l EXCEPT !.bays = g]
<1>1. "Off" \in Looks /\ StatusLook["Off"] \in Looks \X Looks
  BY PatternFacts DEF Looks
<1>2. g \in [Bays -> Looks \X Looks] /\ \A b \in Bays : g[b] = <<"Off", l.bays[b][2]>>
  BY <1>1, GreenFact
<1>3. m = IF front THEN [k EXCEPT !.status = StatusLook["Off"], !.power = "Off", !.lan = "Off"]
                   ELSE k
  BY DEF EnterNight
<1> HIDE DEF g
<1>4. k \in LedT /\ k.bays = g /\ SameFront(l, k)
  BY <1>2 DEF LedT, SameFront
<1> HIDE DEF k
<1>5. CASE front
  <2>1. m = [k EXCEPT !.status = StatusLook["Off"], !.power = "Off", !.lan = "Off"]
    BY <1>3, <1>5
  <2>2. /\ m \in LedT /\ m.bays = g /\ m.shown = k.shown
        /\ m.status = StatusLook["Off"] /\ m.power = "Off" /\ m.lan = "Off"
    BY <1>1, <1>4, <2>1 DEF LedT
  <2> QED
    BY <1>2, <1>4, <1>5, <2>2 DEF SameFront
<1>6. CASE ~front
  BY <1>2, <1>3, <1>4, <1>6 DEF SameFront
<1> QED
  BY <1>5, <1>6

LEMMA ExitNightFact ==
  ASSUME NEW l \in LedT, NEW front \in BOOLEAN, NEW m, m = ExitNight(l, front)
  PROVE  /\ m \in LedT /\ m.shown = l.shown
         /\ \A b \in Bays : m.bays[b] = <<"Auto", l.bays[b][2]>>
         /\ front => m.status = StatusLook["Ok"] /\ m.power = "Solid" /\ m.lan = "Auto"
         /\ ~front => SameFront(l, m)
<1> DEFINE g == Green(l, "Auto")
           k == [l EXCEPT !.bays = g]
<1>1. {"Auto", "Solid"} \subseteq Looks /\ StatusLook["Ok"] \in Looks \X Looks
  BY PatternFacts DEF Looks
<1>2. g \in [Bays -> Looks \X Looks] /\ \A b \in Bays : g[b] = <<"Auto", l.bays[b][2]>>
  BY <1>1, GreenFact
<1>3. m = IF front THEN [k EXCEPT !.status = StatusLook["Ok"], !.power = "Solid", !.lan = "Auto"]
                   ELSE k
  BY DEF ExitNight
<1> HIDE DEF g
<1>4. k \in LedT /\ k.bays = g /\ SameFront(l, k)
  BY <1>2 DEF LedT, SameFront
<1> HIDE DEF k
<1>5. CASE front
  <2>1. m = [k EXCEPT !.status = StatusLook["Ok"], !.power = "Solid", !.lan = "Auto"]
    BY <1>3, <1>5
  <2>2. /\ m \in LedT /\ m.bays = g /\ m.shown = k.shown
        /\ m.status = StatusLook["Ok"] /\ m.power = "Solid" /\ m.lan = "Auto"
    BY <1>1, <1>4, <2>1 DEF LedT
  <2> QED
    BY <1>2, <1>4, <1>5, <2>2 DEF SameFront
<1>6. CASE ~front
  BY <1>2, <1>3, <1>4, <1>6 DEF SameFront
<1> QED
  BY <1>5, <1>6

LEMMA RememberFact ==
  ASSUME NEW l \in LedT, NEW p \in Patterns \cup {Nothing}, NEW m, m = Remember(l, p)
  PROVE  /\ m \in LedT /\ m.shown = p /\ m.bays = l.bays
         /\ m.status = l.status /\ m.power = l.power /\ m.lan = l.lan
BY DEF Remember, LedT

\* Nothing is remembered after the front was lit, unless it was lit already.
LEMMA LitFact ==
  ASSUME NEW a \in AppT, NEW l \in LedT, NEW m, m = Lit(a, l)
  PROVE  /\ m \in LedT /\ (Remembered(l) => Remembered(m))
         /\ DarkensFront(a) => m.power = "Solid" /\ m.lan = "Auto"
         /\ ~DarkensFront(a) => SameFront(l, m)
<1>1. Nothing \in Patterns \cup {Nothing} /\ DarkensFront(a) \in BOOLEAN
  BY DEF DarkensFront
<1>2. CASE DarkensFront(a)
  <2> DEFINE k == ExitNight(l, TRUE)
  <2>1. k \in LedT /\ k.power = "Solid" /\ k.lan = "Auto"
    BY ExitNightFact
  <2>2. m = Remember(k, Nothing)
    BY <1>2 DEF Lit
  <2> HIDE DEF k
  <2>3. m \in LedT /\ m.shown = Nothing /\ m.power = k.power /\ m.lan = k.lan
    BY <1>1, <2>1, <2>2, RememberFact
  <2> QED
    BY <1>2, <2>1, <2>3 DEF Remembered
<1>3. CASE ~DarkensFront(a)
  <2>1. m = ExitNight(l, FALSE)
    BY <1>3 DEF Lit
  <2>2. m \in LedT /\ SameFront(l, m)
    BY <2>1, ExitNightFact
  <2> QED
    BY <1>3, <2>2 DEF Remembered, SameFront
<1> QED
  BY <1>2, <1>3

\* In the morning everything that was not lit is, and every bay that has
\* something to show is written.
LEMMA WakingRight ==
  ASSUME NEW a \in AppT, NEW l \in LedT, ~a.asleep, a.alertBay \notin Bays,
         NEW m, m = Waking(a, l)
  PROVE  /\ m \in LedT
         /\ Remembered(l) /\ (~DarkensFront(a) => l.lan = "Auto" /\ l.power = PowerLook(a))
              => Right(a, m)
<1> DEFINE j == Lit(a, l)
           k == UpdateHealth(a, j)
<1>1. /\ j \in LedT /\ (Remembered(l) => Remembered(j))
      /\ DarkensFront(a) => j.power = "Solid" /\ j.lan = "Auto"
      /\ ~DarkensFront(a) => SameFront(l, j)
  BY LitFact
<1>2. k = UpdateHealth(a, j) /\ m = Reassert(a, k)
  BY DEF Waking
<1> HIDE DEF j, k
<1>3. /\ k \in LedT /\ k.power = j.power /\ k.lan = j.lan
      /\ Remembered(j) => StatusRight(a, k)
      /\ \A b \in Bays : a.disks[b] # "None" => BayShows(a, k, b)
  BY <1>1, <1>2, UpdateHealthFact
<1>4. /\ m \in LedT /\ m.lan = k.lan
      /\ StatusRight(a, k) => StatusRight(a, m)
      /\ m.power = IF a.chassis THEN "Fast" ELSE k.power
      /\ \A b \in Bays : /\ b \in a.located => BayShows(a, m, b)
                         /\ b \notin a.located => m.bays[b] = k.bays[b]
  BY <1>2, <1>3, ReassertFact
<1>5. ASSUME ~DarkensFront(a) => l.lan = "Auto" /\ l.power = PowerLook(a)
      PROVE  FrontShows(a, m)
  <2>1. LanLook(a) = "Auto" /\ PowerLook(a) = IF a.chassis THEN "Fast" ELSE "Solid"
    BY DEF LanLook, PowerLook
  <2> QED
    BY <1>1, <1>3, <1>4, <1>5, <2>1 DEF FrontShows, SameFront
<1>6. BaysRight(a, m)
  BY <1>3, <1>4 DEF BaysRight, LookedAt, BayShows
<1> QED
  BY <1>1, <1>3, <1>4, <1>5, <1>6 DEF Right

\* From scratch, whatever was there before.
LEMMA ApplyAllRight ==
  ASSUME NEW a \in AppT, NEW l \in LedT, NEW m, m = ApplyAll(a, l)
  PROVE  m \in LedT /\ Right(a, m)
<1> DEFINE e == ExitNight(l, TRUE)
           lit == Remember(e, Nothing)
           d == EnterNight(l, TRUE)
           h == EnterNight(lit, FALSE)
           i == IF ~a.asleep THEN lit
                ELSE IF DarkensFront(a) THEN Remember(d, "Off") ELSE h
           k == UpdateHealth(a, i)
           n == SetBays(a, k, {a.alertBay} \ {NoBay})
<1>0. Nothing \in Patterns \cup {Nothing} /\ "Off" \in Patterns \cup {Nothing}
  BY PatternFacts
<1>1. /\ e \in LedT /\ e.power = "Solid" /\ e.lan = "Auto"
      /\ d \in LedT /\ d.power = "Off" /\ d.lan = "Off" /\ d.status = StatusLook["Off"]
      /\ \A b \in Bays : d.bays[b] = <<"Off", l.bays[b][2]>>
  BY ExitNightFact, EnterNightFact
<1> HIDE DEF e, d
<1>2. /\ lit \in LedT /\ lit.shown = Nothing /\ lit.power = "Solid" /\ lit.lan = "Auto"
      /\ Remember(d, "Off") \in LedT /\ Remember(d, "Off").shown = "Off"
      /\ Remember(d, "Off").status = StatusLook["Off"]
      /\ Remember(d, "Off").power = "Off" /\ Remember(d, "Off").lan = "Off"
      /\ Remember(d, "Off").bays = d.bays
  BY <1>0, <1>1, RememberFact
<1>3. m = Reassert(a, n)
  BY DEF ApplyAll, ApplyBays, e, d
<1> HIDE DEF lit
<1>4. /\ h \in LedT /\ SameFront(lit, h)
      /\ \A b \in Bays : h.bays[b] = <<"Off", lit.bays[b][2]>>
  BY <1>2, EnterNightFact
<1> HIDE DEF h
<1>5. /\ i \in LedT /\ Remembered(i)
      /\ i.power = IF a.asleep /\ DarkensFront(a) THEN "Off" ELSE "Solid"
      /\ i.lan = LanLook(a)
      /\ a.asleep => \A b \in Bays : i.bays[b][1] = "Off"
  <2>1. CASE ~a.asleep
    BY <1>2, <2>1 DEF Remembered, LanLook
  <2>2. CASE a.asleep /\ DarkensFront(a)
    BY <1>1, <1>2, <2>2 DEF Remembered, LanLook
  <2>3. CASE a.asleep /\ ~DarkensFront(a)
    <3>1. i = h
      BY <2>3
    <3> HIDE DEF i
    <3>2. /\ h.shown = Nothing /\ h.power = "Solid" /\ h.lan = "Auto"
          /\ \A b \in Bays : h.bays[b][1] = "Off"
      BY <1>2, <1>4 DEF SameFront
    <3> QED
      BY <1>4, <2>3, <3>1, <3>2 DEF Remembered, LanLook
  <2> QED
    BY <2>1, <2>2, <2>3
<1> HIDE DEF i
<1>6. /\ k \in LedT /\ k.power = i.power /\ k.lan = i.lan /\ StatusRight(a, k)
      /\ \A b \in Bays : /\ a.disks[b] # "None" => BayShows(a, k, b)
                         /\ a.disks[b] = "None" => k.bays[b] = i.bays[b]
  BY <1>5, UpdateHealthFact
<1> HIDE DEF k
<1>7. /\ n \in LedT /\ SameFront(k, n)
      /\ \A b \in Bays : /\ b = a.alertBay => BayShows(a, n, b)
                         /\ b # a.alertBay => n.bays[b] = k.bays[b]
  <2>1. \A b \in Bays : b \in {a.alertBay} \ {NoBay} <=> b = a.alertBay
    BY BaysAssumption
  <2> QED
    BY <1>6, <2>1, SetBaysFact
<1> HIDE DEF n
<1>8. StatusRight(a, n)
  BY <1>6, <1>7 DEF StatusRight, SameFront
<1>9. /\ m \in LedT /\ m.lan = n.lan /\ StatusRight(a, m)
      /\ m.power = IF a.chassis THEN "Fast" ELSE n.power
      /\ \A b \in Bays : /\ b \in a.located => BayShows(a, m, b)
                         /\ b \notin a.located => m.bays[b] = n.bays[b]
  BY <1>3, <1>7, <1>8, ReassertFact
<1>10. FrontShows(a, m)
  BY <1>5, <1>6, <1>7, <1>9 DEF FrontShows, SameFront, PowerLook
<1>11. ASSUME NEW b \in Bays
       PROVE  /\ LookedAt(a, b) => BayShows(a, m, b)
              /\ a.asleep /\ b \notin a.located => m.bays[b][1] = "Off"
  <2>1. LookedAt(a, b) => BayShows(a, m, b)
    BY <1>6, <1>7, <1>9 DEF LookedAt, BayShows
  <2>2. ASSUME a.asleep, b \notin a.located, BayShows(a, m, b)
        PROVE  m.bays[b][1] = "Off"
    BY <2>2, BayStateFact, BayLookFact DEF BayShows
  <2>3. ASSUME a.asleep, ~LookedAt(a, b)
        PROVE  m.bays[b][1] = "Off"
    BY <1>5, <1>6, <1>7, <1>9, <2>3 DEF LookedAt
  <2> QED
    BY <2>1, <2>2, <2>3
<1> QED
  BY <1>9, <1>10, <1>11 DEF Right, BaysRight

-----------------------------------------------------------------------------
(* What the handlers make of LEDs that were right. *)

\* The states that differ only in what the front does not depend on.
SameForFront(a, c) ==
  a.chassis = c.chassis /\ a.asleep = c.asleep /\ a.config = c.config

LEMMA FrontFact ==
  ASSUME NEW a, NEW c, SameForFront(a, c)
  PROVE  /\ PowerLook(a) = PowerLook(c) /\ LanLook(a) = LanLook(c)
         /\ DarkensFront(a) = DarkensFront(c)
         /\ \A day : WantedLevel(a, day) = WantedLevel(c, day)
BY DEF SameForFront, PowerLook, LanLook, DarkensFront, WantedLevel

\* At night no bay's green LED is lit by a write of the bay.
LEMMA NightFact ==
  ASSUME NEW a \in AppT, NEW l, NEW b \in Bays, a.asleep, b \notin a.located,
         BayShows(a, l, b)
  PROVE  l.bays[b][1] = "Off"
BY BayStateFact, BayLookFact DEF BayShows

\* The bays that are not written keep what they should show.
LEMMA BaysKept ==
  ASSUME NEW a \in AppT, NEW c \in AppT, NEW l \in LedT, NEW m \in LedT, NEW S,
         a.asleep = c.asleep, BaysRight(c, l),
         \A b \in Bays : /\ b \in S => BayShows(a, m, b)
                         /\ b \notin S => m.bays[b] = l.bays[b],
         \A b \in Bays \ S : /\ LookedAt(a, b) => LookedAt(c, b)
                             /\ LookedAt(a, b) => BayState(a, b) = BayState(c, b)
                             /\ b \notin a.located => b \notin c.located
  PROVE  BaysRight(a, m)
<1> SUFFICES ASSUME NEW b \in Bays
             PROVE  /\ LookedAt(a, b) => BayShows(a, m, b)
                    /\ a.asleep /\ b \notin a.located => m.bays[b][1] = "Off"
  BY DEF BaysRight
<1>1. CASE b \in S
  BY <1>1, NightFact
<1>2. CASE b \notin S
  BY <1>2 DEF BaysRight, BayShows
<1> QED
  BY <1>1, <1>2

LEMMA SaidFact ==
  ASSUME NEW c \in AppT, NEW w \in Messages \cup {Nothing}, NEW a, a = Said(c, w)
  PROVE  /\ a \in AppT /\ SameForFront(a, c)
         /\ a.over = w /\ a.alertBay = AlertOf(w)
         /\ a.disks = c.disks /\ a.located = c.located
<1>1. AlertOf(w) \in Bays \cup {NoBay}
  BY MessagesAssumption DEF AlertOf
<1> QED
  BY <1>1 DEF Said, AppT, SameForFront

LEMMA SyncRight ==
  ASSUME NEW c \in AppT, NEW l \in LedT, NEW w \in Messages \cup {Nothing},
         NEW a, a = Said(c, w), NEW m, m = Sync(c.alertBay, a, l)
  PROVE  m \in LedT /\ (Right(c, l) => Right(a, m))
<1> DEFINE S == {c.alertBay, a.alertBay} \ {NoBay}
           k == SetBays(a, l, S)
<1>1. /\ a \in AppT /\ SameForFront(a, c)
      /\ a.disks = c.disks /\ a.located = c.located
  BY SaidFact
<1>2. m = Recompute(a, k)
  BY DEF Sync
<1>3. \A b \in Bays : b \in S <=> b = c.alertBay \/ b = a.alertBay
  BY BaysAssumption
<1>4. /\ k \in LedT /\ SameFront(l, k)
      /\ \A b \in Bays : /\ b \in S => BayShows(a, k, b)
                         /\ b \notin S => k.bays[b] = l.bays[b]
  BY <1>1, SetBaysFact
<1> HIDE DEF k, S
<1>5. /\ m \in LedT /\ m.bays = k.bays /\ m.power = k.power /\ m.lan = k.lan
      /\ Remembered(k) => StatusRight(a, m)
  BY <1>1, <1>2, <1>4, RecomputeFact
<1>6. ASSUME Right(c, l)
      PROVE  Right(a, m)
  <2>1. StatusRight(a, m)
    BY <1>4, <1>5, <1>6 DEF Right, StatusRight, Remembered, SameFront
  <2>2. FrontShows(a, m)
    BY <1>1, <1>4, <1>5, <1>6, FrontFact DEF Right, FrontShows, SameFront
  <2>3. BaysRight(a, m)
    <3>1. \A b \in Bays : /\ b \in S => BayShows(a, m, b)
                          /\ b \notin S => m.bays[b] = l.bays[b]
      BY <1>4, <1>5 DEF BayShows
    <3>2. \A b \in Bays \ S : /\ LookedAt(a, b) => LookedAt(c, b)
                              /\ LookedAt(a, b) => BayState(a, b) = BayState(c, b)
                              /\ b \notin a.located => b \notin c.located
      BY <1>1, <1>3 DEF LookedAt, BayState
    <3>3. a.asleep = c.asleep /\ BaysRight(c, l)
      BY <1>1, <1>6 DEF SameForFront, Right
    <3> QED
      BY <1>1, <1>5, <3>1, <3>2, <3>3, BaysKept
  <2> QED
    BY <2>1, <2>2, <2>3 DEF Right
<1> QED
  BY <1>5, <1>6

\* A bay that is located, or no longer, is written by itself.
LEMMA LocatedRight ==
  ASSUME NEW c \in AppT, NEW l \in LedT, NEW at \in SUBSET Bays, NEW S,
         NEW a, a = [c EXCEPT !.located = at],
         \A b \in Bays : b \notin S => (b \in at <=> b \in c.located),
         NEW m, m = SetBays(a, l, S)
  PROVE  /\ a \in AppT /\ m \in LedT /\ SameFront(l, m) /\ SameForFront(a, c)
         /\ a.over = c.over /\ a.alertBay = c.alertBay
         /\ Right(c, l) => Right(a, m)
<1>1. /\ a \in AppT /\ SameForFront(a, c) /\ a.located = at
      /\ a.over = c.over /\ a.alertBay = c.alertBay
      /\ a.disks = c.disks /\ a.other = c.other /\ a.failed = c.failed
  BY DEF AppT, SameForFront
<1>2. /\ m \in LedT /\ SameFront(l, m)
      /\ \A b \in Bays : /\ b \in S => BayShows(a, m, b)
                         /\ b \notin S => m.bays[b] = l.bays[b]
  BY <1>1, SetBaysFact
<1>3. StatusPattern(a) = StatusPattern(c)
  <2>1. Verdict(a) = Verdict(c)
    BY <1>1 DEF Verdict, HealthPattern
  <2> QED
    BY <1>1, <2>1, FrontFact DEF StatusPattern, SameForFront
<1>4. ASSUME Right(c, l)
      PROVE  Right(a, m)
  <2>1. StatusRight(a, m) /\ FrontShows(a, m)
    BY <1>1, <1>2, <1>3, <1>4, FrontFact DEF Right, StatusRight, FrontShows, SameFront
  <2>2. \A b \in Bays \ S : /\ LookedAt(a, b) => LookedAt(c, b)
                            /\ LookedAt(a, b) => BayState(a, b) = BayState(c, b)
                            /\ b \notin a.located => b \notin c.located
    BY <1>1 DEF LookedAt, BayState
  <2>3. a.asleep = c.asleep /\ BaysRight(c, l)
    BY <1>1, <1>4 DEF SameForFront, Right
  <2>4. \A b \in Bays : /\ b \in S => BayShows(a, m, b)
                        /\ b \notin S => m.bays[b] = l.bays[b]
    BY <1>2
  <2>5. a \in AppT /\ m \in LedT
    BY <1>1, <1>2
  <2>6. BaysRight(a, m)
    BY ONLY c \in AppT, l \in LedT, <2>2, <2>3, <2>4, <2>5, BaysKept
  <2> QED
    BY <2>1, <2>6 DEF Right
<1> QED
  BY <1>1, <1>2, <1>4

\* The chassis's locate takes over the front, or hands it back.
LEMMA ChassisRight ==
  ASSUME NEW c \in AppT, NEW l \in LedT, NEW on \in BOOLEAN,
         NEW a, a = [c EXCEPT !.chassis = on],
         NEW j \in LedT, j.bays = l.bays, j.shown = l.shown, j.lan = l.lan,
         j = l \/ (on /\ ~c.chassis),
         NEW m, m = Recompute(a, SetPower(a, j))
  PROVE  a \in AppT /\ m \in LedT /\ (Right(c, l) => Right(a, m))
<1> DEFINE k == SetPower(a, j)
<1>1. /\ a \in AppT /\ a.chassis = on /\ a.asleep = c.asleep /\ a.config = c.config
      /\ a.over = c.over /\ a.alertBay = c.alertBay /\ a.located = c.located
      /\ a.disks = c.disks
  BY DEF AppT
<1>2. PowerLook(a) \in Looks
  BY DEF PowerLook, Looks
<1>3. /\ k \in LedT /\ k.power = PowerLook(a) /\ k.bays = j.bays /\ k.shown = j.shown
      /\ k.lan = j.lan /\ k.status = j.status
  BY <1>2 DEF SetPower, LedT
<1>4. m = Recompute(a, k)
  OBVIOUS
<1> HIDE DEF k
<1>5. /\ m \in LedT /\ m.bays = k.bays /\ m.power = k.power /\ m.lan = k.lan
      /\ Remembered(k) => StatusRight(a, m)
      /\ k.shown # StatusPattern(a) => StatusRight(a, m)
  BY ONLY <1>1, <1>3, <1>4, RecomputeFact
<1>6. ASSUME Right(c, l)
      PROVE  Right(a, m)
  <2>1. ASSUME j = l
        PROVE  StatusRight(a, m)
    BY <1>3, <1>5, <1>6, <2>1 DEF Right, StatusRight, Remembered
  <2>2. ASSUME on, ~c.chassis
        PROVE  StatusRight(a, m)
    <3>1. StatusPattern(a) = "Locate"
      BY <1>1, <2>2 DEF StatusPattern
    <3>2. StatusPattern(c) # "Locate"
      BY <2>2, StatusFact
    <3> QED
      BY <1>3, <1>5, <1>6, <3>1, <3>2 DEF Right, StatusRight
  <2>3. StatusRight(a, m)
    BY <2>1, <2>2
  <2>4. FrontShows(a, m)
    BY <1>1, <1>3, <1>5, <1>6 DEF Right, FrontShows, LanLook, DarkensFront
  <2>5. BaysRight(a, m)
    BY <1>1, <1>3, <1>5, <1>6 DEF Right, BaysRight, LookedAt, BayShows, BayState
  <2> QED
    BY <2>3, <2>4, <2>5 DEF Right
<1> QED
  BY <1>1, <1>5, <1>6

LEMMA ScannedFact ==
  ASSUME NEW c \in AppT, NEW disks \in [Bays -> Healths], NEW a, a = Scanned(c, disks)
  PROVE  /\ a \in AppT /\ SameForFront(a, c) /\ a.over = c.over
         /\ a.alertBay = c.alertBay /\ a.located = c.located /\ a.disks = disks
<1> DEFINE gone == {b \in Bays : disks[b] = "Failed" \/ (disks[b] = "None" /\ b \in c.failed)}
<1>1. a = [c EXCEPT !.disks = disks, !.failed = gone]
  BY DEF Scanned
<1>2. gone \in SUBSET Bays
  OBVIOUS
<1> HIDE DEF gone
<1> QED
  BY <1>1, <1>2 DEF AppT, SameForFront

\* A scan writes the bays that have a disk, and leaves the empty ones.
LEMMA ScanRight ==
  ASSUME NEW c \in AppT, NEW l \in LedT, NEW disks \in [Bays -> Healths],
         NEW a, a = Scanned(c, disks), NEW m, m = UpdateHealth(a, l)
  PROVE  m \in LedT /\ (Right(c, l) => Right(a, m))
<1> DEFINE S == {b \in Bays : a.disks[b] # "None"}
<1>1. /\ a \in AppT /\ SameForFront(a, c)
      /\ a.alertBay = c.alertBay /\ a.located = c.located
  BY ScannedFact
<1>2. /\ m \in LedT /\ m.power = l.power /\ m.lan = l.lan
      /\ Remembered(l) => StatusRight(a, m)
  BY <1>1, UpdateHealthFact
<1>3. \A b \in Bays : /\ b \in S => BayShows(a, m, b)
                      /\ b \notin S => m.bays[b] = l.bays[b]
  BY <1>1, UpdateHealthFact
<1>4. ASSUME Right(c, l)
      PROVE  Right(a, m)
  <2>1. StatusRight(a, m)
    BY <1>2, <1>4 DEF Right, StatusRight, Remembered
  <2>2. FrontShows(a, m)
    BY <1>1, <1>2, <1>4, FrontFact DEF Right, FrontShows
  <2>3. \A b \in Bays \ S : /\ LookedAt(a, b) => LookedAt(c, b)
                            /\ LookedAt(a, b) => BayState(a, b) = BayState(c, b)
                            /\ b \notin a.located => b \notin c.located
    BY <1>1 DEF LookedAt, BayState
  <2>4. a.asleep = c.asleep /\ BaysRight(c, l)
    BY <1>1, <1>4 DEF SameForFront, Right
  <2> HIDE DEF S
  <2>5. BaysRight(a, m)
    BY ONLY c \in AppT, l \in LedT, <1>1, <1>2, <1>3, <2>3, <2>4, BaysKept
  <2> QED
    BY <2>1, <2>2, <2>5 DEF Right
<1> QED
  BY <1>2, <1>4

LEMMA ReadingsRight ==
  ASSUME NEW c \in AppT, NEW l \in LedT, NEW other \in Others,
         NEW a, a = [c EXCEPT !.other = other], NEW m, m = Recompute(a, l)
  PROVE  /\ a \in AppT /\ SameForFront(a, c) /\ a.over = c.over
         /\ a.alertBay = c.alertBay
         /\ m \in LedT /\ (Right(c, l) => Right(a, m))
<1>1. /\ a \in AppT /\ SameForFront(a, c) /\ a.over = c.over
      /\ a.alertBay = c.alertBay /\ a.located = c.located /\ a.disks = c.disks
  BY DEF AppT, SameForFront
<1>2. /\ m \in LedT /\ m.bays = l.bays /\ m.power = l.power /\ m.lan = l.lan
      /\ Remembered(l) => StatusRight(a, m)
  BY ONLY <1>1, l \in LedT, m = Recompute(a, l), RecomputeFact
<1>3. ASSUME Right(c, l)
      PROVE  Right(a, m)
  <2>1. StatusRight(a, m)
    BY <1>2, <1>3 DEF Right, StatusRight, Remembered
  <2>2. FrontShows(a, m)
    BY <1>1, <1>2, <1>3, FrontFact DEF Right, FrontShows
  <2>3. BaysRight(a, m)
    BY <1>1, <1>2, <1>3
       DEF Right, BaysRight, LookedAt, BayShows, BayState, SameForFront
  <2> QED
    BY <2>1, <2>2, <2>3 DEF Right
<1> QED
  BY <1>1, <1>2, <1>3

\* The night takes the green LEDs, and the front where it is to be dark.
LEMMA NightRight ==
  ASSUME NEW c \in AppT, NEW l \in LedT, ~c.asleep,
         NEW a, a = [c EXCEPT !.asleep = TRUE], NEW m, m = Reassert(a, Darkened(a, l))
  PROVE  /\ a \in AppT /\ a.over = c.over /\ a.alertBay = c.alertBay
         /\ m \in LedT /\ (Right(c, l) => Right(a, m))
<1> DEFINE e == EnterNight(l, TRUE)
           k == Darkened(a, l)
<1>1. /\ a \in AppT /\ a.asleep /\ a.chassis = c.chassis /\ a.config = c.config
      /\ a.over = c.over /\ a.alertBay = c.alertBay /\ a.located = c.located
      /\ a.disks = c.disks /\ a.other = c.other /\ a.failed = c.failed
  BY DEF AppT
<1>2. Verdict(a) = Verdict(c) /\ DarkensFront(a) = DarkensFront(c)
  BY <1>1 DEF Verdict, HealthPattern, DarkensFront
<1>3. /\ k \in LedT /\ \A b \in Bays : k.bays[b] = <<"Off", l.bays[b][2]>>
      /\ DarkensFront(a) => /\ k.status = StatusLook["Off"] /\ k.shown = "Off"
                            /\ k.power = "Off" /\ k.lan = "Off"
      /\ ~DarkensFront(a) => SameFront(l, k)
  <2>1. CASE DarkensFront(a)
    <3>1. /\ e \in LedT /\ e.status = StatusLook["Off"] /\ e.power = "Off" /\ e.lan = "Off"
          /\ \A b \in Bays : e.bays[b] = <<"Off", l.bays[b][2]>>
      BY EnterNightFact
    <3>2. k = Remember(e, "Off")
      BY <2>1 DEF Darkened
    <3> HIDE DEF e, k
    <3>3. "Off" \in Patterns \cup {Nothing}
      BY PatternFacts
    <3>4. /\ k \in LedT /\ k.shown = "Off" /\ k.bays = e.bays
          /\ k.status = e.status /\ k.power = e.power /\ k.lan = e.lan
      BY <3>1, <3>2, <3>3, RememberFact
    <3> QED
      BY <2>1, <3>1, <3>4
  <2>2. CASE ~DarkensFront(a)
    <3>1. k = EnterNight(l, FALSE)
      BY <2>2 DEF Darkened
    <3> HIDE DEF k
    <3> QED
      BY <2>2, <3>1, EnterNightFact
  <2> QED
    BY <2>1, <2>2
<1> HIDE DEF k
<1>4. /\ m \in LedT /\ m.lan = k.lan
      /\ m.power = IF a.chassis THEN "Fast" ELSE k.power
      /\ StatusRight(a, k) \/ a.chassis => StatusRight(a, m)
      /\ \A b \in Bays : /\ b \in a.located => BayShows(a, m, b)
                         /\ b \notin a.located => m.bays[b] = k.bays[b]
  <2>1. m = Reassert(a, k)
    BY DEF k
  <2>2. a \in AppT /\ k \in LedT
    BY <1>1, <1>3
  <2> QED
    BY ONLY <2>1, <2>2, ReassertFact
<1>5. ASSUME Right(c, l)
      PROVE  Right(a, m)
  <2>1. ASSUME ~a.chassis
        PROVE  StatusRight(a, k)
    <3>1. CASE DarkensFront(a)
      <4>1. StatusPattern(a) = "Off"
        BY <1>1, <2>1, <3>1, StatusFact
      <4> QED
        BY <1>3, <3>1, <4>1 DEF StatusRight
    <3>2. CASE ~DarkensFront(a)
      <4>1. StatusPattern(a) = Verdict(a) /\ StatusPattern(c) = Verdict(c)
        BY <1>1, <1>2, <2>1, <3>2, StatusFact
      <4> QED
        BY <1>2, <1>3, <1>5, <3>2, <4>1 DEF Right, StatusRight, SameFront
    <3> QED
      BY <3>1, <3>2
  <2>2. FrontShows(a, m)
    <3>1. LanLook(c) = "Auto" /\ PowerLook(c) = IF c.chassis THEN "Fast" ELSE "Solid"
      BY DEF LanLook, PowerLook
    <3>2. /\ LanLook(a) = IF DarkensFront(a) THEN "Off" ELSE "Auto"
          /\ PowerLook(a) = IF a.chassis THEN "Fast"
                            ELSE IF DarkensFront(a) THEN "Off" ELSE "Solid"
      BY <1>1 DEF LanLook, PowerLook
    <3> QED
      BY <1>1, <1>3, <1>4, <1>5, <3>1, <3>2 DEF Right, FrontShows, SameFront
  <2>3. ASSUME NEW b \in Bays
        PROVE  /\ LookedAt(a, b) => BayShows(a, m, b)
               /\ b \notin a.located => m.bays[b][1] = "Off"
    <3>1. CASE b \in a.located
      BY <1>4, <3>1
    <3>2. CASE b \notin a.located
      <4>1. m.bays[b] = <<"Off", l.bays[b][2]>>
        BY <1>3, <1>4, <3>2
      <4>2. ASSUME LookedAt(a, b)
            PROVE  BayShows(a, m, b)
        <5>1. BayState(a, b) = BayState(c, b) /\ LookedAt(c, b)
          BY <1>1, <4>2 DEF BayState, LookedAt
        <5>2. l.bays[b] = BayLook[BayState(c, b)]
          BY <1>5, <5>1 DEF Right, BaysRight, BayShows
        <5>3. BayState(a, b) \in BayStates /\ BayState(a, b) # "Locate"
          BY <1>1, <3>2, BayStateFact
        <5>4. NightLook(BayState(a, b)) = <<"Off", BayLook[BayState(a, b)][2]>>
          BY <5>3, BayLookFact
        <5> QED
          BY ONLY <1>1, <4>1, <5>1, <5>2, <5>4 DEF BayShows
      <4>3. m.bays[b][1] = "Off"
        <5> DEFINE red == l.bays[b][2]
        <5>1. m.bays[b] = <<"Off", red>>
          BY <4>1
        <5> HIDE DEF red
        <5> QED
          BY ONLY <5>1
      <4> QED
        BY <4>2, <4>3
    <3> QED
      BY <3>1, <3>2
  <2> QED
    BY <1>4, <2>1, <2>2, <2>3 DEF Right, BaysRight
<1> QED
  BY <1>1, <1>4, <1>5

\* Waking after a night that was right.
LEMMA MorningRight ==
  ASSUME NEW c \in AppT, NEW l \in LedT, c.asleep, c.alertBay \notin Bays,
         NEW disks \in [Bays -> Healths],
         NEW a, a = [Scanned(c, disks) EXCEPT !.asleep = FALSE], NEW m, m = Waking(a, l)
  PROVE  /\ a \in AppT /\ a.over = c.over /\ a.alertBay = c.alertBay
         /\ ~a.asleep /\ m \in LedT /\ (Right(c, l) => Right(a, m))
<1> DEFINE s == Scanned(c, disks)
<1>1. /\ s \in AppT /\ SameForFront(s, c)
      /\ s.over = c.over /\ s.alertBay = c.alertBay
  BY ScannedFact
<1>2. a = [s EXCEPT !.asleep = FALSE]
  OBVIOUS
<1> HIDE DEF s
<1>3. /\ a \in AppT /\ ~a.asleep /\ a.chassis = c.chassis /\ a.config = c.config
      /\ a.over = c.over /\ a.alertBay = c.alertBay
  BY <1>1, <1>2 DEF AppT, SameForFront
<1>4. /\ m \in LedT
      /\ Remembered(l) /\ (~DarkensFront(a) => l.lan = "Auto" /\ l.power = PowerLook(a))
           => Right(a, m)
  BY <1>3, WakingRight
<1>5. ASSUME Right(c, l)
      PROVE  Right(a, m)
  <2>1. Remembered(l)
    BY <1>5 DEF Right, StatusRight, Remembered
  <2>2. DarkensFront(a) = DarkensFront(c)
    BY <1>3 DEF DarkensFront
  <2>3. ASSUME ~DarkensFront(a)
        PROVE  l.lan = "Auto" /\ l.power = PowerLook(a)
    BY <1>3, <1>5, <2>2, <2>3 DEF Right, FrontShows, LanLook, PowerLook
  <2> QED
    BY <1>4, <2>1, <2>3
<1> QED
  BY <1>3, <1>4, <1>5

-----------------------------------------------------------------------------
(* Brightness. *)

LevelAt(a, b) == WantedLevel(a, b.day) \in {b.level, Nothing}

Truthful(b) == b.written \in {Nothing, b.level}

LEMMA DimmedFact ==
  ASSUME NEW a \in AppT, NEW b \in BrightT, Truthful(b), NEW d, d = Dimmed(a, b)
  PROVE  /\ d \in BrightT /\ d.day = b.day /\ Truthful(d)
         /\ device.dimmer => LevelAt(a, d)
<1> DEFINE want == WantedLevel(a, b.day)
<1>1. want \in Levels \cup {Nothing}
  BY DEF WantedLevel, BrightT, Levels
<1>2. d = IF want = Nothing \/ b.written = want \/ ~device.dimmer THEN b
          ELSE [b EXCEPT !.level = want, !.written = want]
  BY DEF Dimmed
<1>3. \A day : day = b.day => WantedLevel(a, day) = want
  OBVIOUS
<1> HIDE DEF want
<1>4. CASE want = Nothing \/ b.written = want \/ ~device.dimmer
  <2>1. d = b
    BY <1>2, <1>4
  <2> QED
    BY <1>3, <1>4, <2>1 DEF LevelAt, Truthful
<1>5. CASE ~(want = Nothing \/ b.written = want \/ ~device.dimmer)
  <2>1. d = [b EXCEPT !.level = want, !.written = want] /\ want \in Levels
    BY <1>1, <1>2, <1>5
  <2>2. d \in BrightT /\ d.day = b.day /\ d.level = want /\ d.written = want
    BY <2>1 DEF BrightT
  <2> QED
    BY <1>3, <2>2 DEF LevelAt, Truthful
<1> QED
  BY <1>4, <1>5

LEMMA RedimmedFact ==
  ASSUME NEW a \in AppT, NEW b \in BrightT, NEW d, d = Redimmed(a, b)
  PROVE  /\ d \in BrightT /\ Truthful(d)
         /\ device.dimmer => LevelAt(a, d)
<1> DEFINE w == DayLevel(a, b)
           k == [b EXCEPT !.day = w, !.written = Nothing]
<1>1. w \in Levels \cup {Nothing}
  BY DEF DayLevel, BrightT, Levels
<1>2. d = Dimmed(a, k)
  BY DEF Redimmed
<1> HIDE DEF w
<1>3. k \in BrightT /\ Truthful(k)
  BY <1>1 DEF BrightT, Truthful
<1> HIDE DEF k
<1> QED
  BY <1>2, <1>3, DimmedFact

-----------------------------------------------------------------------------
(* The steps. *)

LEMMA WrittenFact ==
  ASSUME leds \in LedT, NEW l \in LedT
  PROVE  Written(l) \in LedT /\ (device.stage = "full" => Written(l) = l)
<1>1. l.shown \in Patterns \cup {Nothing}
  BY DEF LedT
<1>2. [leds EXCEPT !.shown = l.shown] \in LedT
  BY <1>1 DEF LedT
<1> QED
  BY <1>2 DEF Written

\* A handler keeps the invariant if what it writes is right for the state that
\* it leaves.
LEMMA HandlerKeeps ==
  ASSUME LedsInv, UNCHANGED driver, app' \in AppT, AlertShown',
         NEW l \in LedT, leds' = Written(l), Right(app, leds) => Right(app', l),
         NEW a \in AppT, SameForFront(app', a),
         bright' = Dimmed(a, bright) \/ (bright' = bright /\ SameForFront(app', app))
  PROVE  LedsInv'
<1>1. /\ app \in AppT /\ leds \in LedT /\ bright \in BrightT /\ DeviceOK
      /\ WatchBehind /\ LevelKept /\ (SameDriver => Right(app, leds))
  BY Types DEF LedsInv
<1>2. /\ DeviceOK' /\ WatchBehind' /\ (SameDriver' <=> SameDriver)
      /\ (SameDimmer' <=> SameDimmer) /\ Snapshot' = Snapshot
      /\ device' = device
  BY <1>1 DEF driver, DeviceOK, WatchBehind, SameDriver, SameDimmer, Snapshot
<1>3. leds' \in LedT /\ (SameDriver => leds' = l)
  BY <1>1, WrittenFact DEF SameDriver
<1>4. bright' \in BrightT /\ LevelKept'
  <2>1. CASE bright' = Dimmed(a, bright)
    <3>1. Truthful(bright)
      BY <1>1 DEF LevelKept, Truthful
    <3>2. bright' \in BrightT /\ Truthful(bright') /\ (device.dimmer => LevelAt(a, bright'))
      BY <1>1, <2>1, <3>1, DimmedFact
    <3>3. WantedLevel(app', bright'.day) = WantedLevel(a, bright'.day)
      BY FrontFact
    <3>4. SameDimmer' => device.dimmer
      BY <1>2 DEF SameDimmer
    <3> QED
      BY <3>2, <3>3, <3>4 DEF LevelKept, LevelAt, Truthful
  <2>2. CASE bright' = bright /\ SameForFront(app', app)
    <3>1. WantedLevel(app', bright.day) = WantedLevel(app, bright.day)
      BY <2>2, FrontFact
    <3> QED
      BY <1>1, <1>2, <2>2, <3>1 DEF LevelKept
  <2> QED
    BY <2>1, <2>2
<1>5. LedsTypeOK'
  BY <1>2, <1>3, <1>4 DEF LedsTypeOK, AppT, LedT, BrightT, DeviceOK
<1>6. SameDriver' => Right(app, leds)' 
  BY <1>1, <1>2, <1>3
<1> QED
  BY <1>2, <1>4, <1>5, <1>6 DEF LedsInv

LEMMA Facts ==
  ASSUME LedsInv
  PROVE  /\ app \in AppT /\ leds \in LedT /\ bright \in BrightT /\ DeviceOK
         /\ WatchBehind /\ LevelKept /\ AlertShown
         /\ (SameDriver => Right(app, leds))
         /\ app.asleep => app.over = Nothing /\ app.alertBay \notin Bays
<1>1. Nothing = Nothing => AlertOf(Nothing) = NoBay
  BY DEF AlertOf
<1> QED
  BY <1>1, Types, BaysAssumption DEF LedsInv, AlertShown

LEMMA ScansFact ==
  ASSUME app \in AppT
  PROVE  Scans \subseteq [Bays -> Healths]
BY DEF Scans, AppT

LEMMA SameForFrontRefl == \A a : SameForFront(a, a)
BY DEF SameForFront

LEMMA StepShowAwake ==
  ASSUME LedsInv, NEW w \in Messages, ShowAwake(w), UNCHANGED driver
  PROVE  LedsInv'
<1> DEFINE a == Said(app, w)
           l == Sync(app.alertBay, a, leds)
<1>1. app' = a /\ leds' = Written(l) /\ bright' = bright /\ ~app.asleep
  BY DEF ShowAwake
<1>2. /\ a \in AppT /\ SameForFront(a, app) /\ a.over = w /\ a.alertBay = AlertOf(w)
  BY Facts, SaidFact
<1>3. l \in LedT /\ (Right(app, leds) => Right(a, l))
  BY Facts, SyncRight
<1> HIDE DEF a, l
<1>4. AlertShown'
  BY <1>1, <1>2 DEF AlertShown, SameForFront
<1> QED
  BY <1>1, <1>2, <1>3, <1>4, Facts, HandlerKeeps

LEMMA StepShowWakes ==
  ASSUME LedsInv, NEW w \in Messages, ShowWakes(w), UNCHANGED driver
  PROVE  LedsInv'
<1>1. PICK disks \in Scans :
        /\ app' = Said(Woken(disks), w)
        /\ leds' = Written(Sync(Woken(disks).alertBay, Said(Woken(disks), w),
                                Waking(Woken(disks), leds)))
        /\ bright' = Dimmed(Woken(disks), bright)
  BY DEF ShowWakes
<1> DEFINE woken == Woken(disks)
           k == Waking(woken, leds)
           a == Said(woken, w)
           l == Sync(woken.alertBay, a, k)
<1>2. app' = a /\ leds' = Written(l) /\ bright' = Dimmed(woken, bright)
  BY <1>1
<1>3. app.asleep /\ disks \in [Bays -> Healths]
  BY Facts, ScansFact DEF ShowWakes
<1>4. woken = [Scanned(app, disks) EXCEPT !.asleep = FALSE]
  BY DEF Woken
<1>5. /\ woken \in AppT /\ ~woken.asleep /\ k \in LedT
      /\ (Right(app, leds) => Right(woken, k))
  BY <1>3, <1>4, Facts, MorningRight
<1> HIDE DEF woken, k
<1>6. /\ a \in AppT /\ SameForFront(a, woken) /\ a.over = w /\ a.alertBay = AlertOf(w)
  BY <1>5, SaidFact
<1>7. l \in LedT /\ (Right(woken, k) => Right(a, l))
  BY <1>5, SyncRight
<1> HIDE DEF a, l
<1>8. AlertShown'
  BY <1>2, <1>5, <1>6 DEF AlertShown, SameForFront
<1> QED
  BY <1>2, <1>5, <1>6, <1>7, <1>8, HandlerKeeps

LEMMA StepClear ==
  ASSUME LedsInv, Clear
  PROVE  LedsInv'
<1> DEFINE a == Said(app, Nothing)
           l == Sync(app.alertBay, a, leds)
<1>1. app' = a /\ leds' = Written(l) /\ bright' = bright /\ UNCHANGED driver
  BY DEF Clear
<1>2. /\ a \in AppT /\ SameForFront(a, app) /\ a.over = Nothing
      /\ a.alertBay = AlertOf(Nothing)
  BY Facts, SaidFact
<1>3. l \in LedT /\ (Right(app, leds) => Right(a, l))
  BY Facts, SyncRight
<1> HIDE DEF a, l
<1>4. AlertShown'
  BY <1>1, <1>2 DEF AlertShown
<1> QED
  BY <1>1, <1>2, <1>3, <1>4, Facts, HandlerKeeps

LEMMA StepBay ==
  ASSUME LedsInv, NEW b \in Bays, LocateBay(b) \/ EndBay(b)
  PROVE  LedsInv'
<1>1. PICK at \in SUBSET Bays :
        /\ app' = [app EXCEPT !.located = at]
        /\ leds' = Written(SetBays([app EXCEPT !.located = at], leds, {b}))
        /\ \A c \in Bays : c \notin {b} => (c \in at <=> c \in app.located)
        /\ bright' = bright /\ UNCHANGED driver
  <2>1. app.located \in SUBSET Bays
    BY Facts DEF AppT
  <2>2. CASE LocateBay(b)
    <3>1. app.located \cup {b} \in SUBSET Bays
      BY <2>1
    <3> QED
      BY <2>2, <3>1 DEF LocateBay
  <2>3. CASE EndBay(b)
    <3>1. app.located \ {b} \in SUBSET Bays
      BY <2>1
    <3> QED
      BY <2>3, <3>1 DEF EndBay
  <2> QED
    BY <2>2, <2>3
<1> DEFINE a == [app EXCEPT !.located = at]
           l == SetBays(a, leds, {b})
<1>2. /\ a \in AppT /\ l \in LedT /\ SameForFront(a, app)
      /\ a.over = app.over /\ a.alertBay = app.alertBay
      /\ Right(app, leds) => Right(a, l)
  BY <1>1, Facts, LocatedRight
<1>3. app' = a /\ leds' = Written(l)
  BY <1>1
<1> HIDE DEF a, l
<1>4. AlertShown'
  BY <1>2, <1>3, Facts DEF AlertShown, SameForFront
<1> QED
  BY <1>1, <1>2, <1>3, <1>4, Facts, HandlerKeeps

LEMMA PrimedFact ==
  ASSUME LedsInv, NEW j, j = Primed(leds)
  PROVE  /\ j \in LedT /\ j.bays = leds.bays /\ j.shown = leds.shown /\ j.lan = leds.lan
         /\ j = leds \/ (TRUE /\ ~app.chassis)
<1>1. StatusLook["Warning"] \in Looks \X Looks
  BY DEF StatusLook, Looks
<1> QED
  BY <1>1, Facts DEF Primed, LedT

LEMMA StepChassis ==
  ASSUME LedsInv, LocateChassis \/ EndChassis
  PROVE  LedsInv'
<1>1. PICK on \in BOOLEAN, j \in LedT :
        /\ j.bays = leds.bays /\ j.shown = leds.shown /\ j.lan = leds.lan
        /\ j = leds \/ (on /\ ~app.chassis)
        /\ ChassisChanges([app EXCEPT !.chassis = on], j)
        /\ UNCHANGED driver
  <2>1. CASE LocateChassis
    BY <2>1, PrimedFact DEF LocateChassis
  <2>2. CASE EndChassis
    BY <2>2, Facts DEF EndChassis
  <2> QED
    BY <2>1, <2>2
<1> DEFINE a == [app EXCEPT !.chassis = on]
           l == Recompute(a, SetPower(a, j))
<1>2. app' = a /\ leds' = Written(l) /\ bright' = Dimmed(a, bright)
  BY <1>1 DEF ChassisChanges
<1>3. a \in AppT /\ l \in LedT /\ (Right(app, leds) => Right(a, l))
  BY <1>1, Facts, ChassisRight
<1>4. a.over = app.over /\ a.alertBay = app.alertBay /\ a.asleep = app.asleep
  BY Facts DEF AppT
<1> HIDE DEF a, l
<1>5. AlertShown'
  BY <1>2, <1>4, Facts DEF AlertShown
<1> QED
  BY <1>1, <1>2, <1>3, <1>5, SameForFrontRefl, HandlerKeeps

LEMMA StepEndLocates ==
  ASSUME LedsInv, EndLocates
  PROVE  LedsInv'
<1> DEFINE c == [app EXCEPT !.located = {}]
           a == [c EXCEPT !.chassis = FALSE]
           j == SetBays(a, leds, app.located)
           l == Recompute(a, SetPower(a, j))
<1>1. a = [app EXCEPT !.located = {}, !.chassis = FALSE]
  OBVIOUS
<1>2. app' = a /\ leds' = Written(l) /\ bright' = Dimmed(a, bright) /\ UNCHANGED driver
  BY <1>1 DEF EndLocates, ChassisChanges
<1>3. {} \in SUBSET Bays /\ app.located \in SUBSET Bays
      /\ \A b \in Bays : b \notin app.located => (b \in {} <=> b \in app.located)
  BY Facts DEF AppT
<1>4. j = SetBays(c, leds, app.located)
  <2>1. /\ a.asleep = c.asleep /\ a.located = c.located /\ a.alertBay = c.alertBay
        /\ a.disks = c.disks
    BY Facts DEF AppT
  <2>2. \A b : BayState(a, b) = BayState(c, b)
    BY ONLY <2>1 DEF BayState
  <2>3. \A b : SetBay(a, leds, b) = SetBay(c, leds, b)
    BY ONLY <2>1, <2>2 DEF SetBay
  <2> QED
    BY ONLY <2>3 DEF SetBays
<1>5. /\ c \in AppT /\ j \in LedT /\ SameFront(leds, j)
      /\ c.over = app.over /\ c.alertBay = app.alertBay /\ SameForFront(c, app)
      /\ Right(app, leds) => Right(c, j)
  <2> HIDE DEF j
  <2> QED
    BY <1>3, <1>4, Facts, LocatedRight
<1> HIDE DEF c, j
<1>6. a \in AppT /\ l \in LedT /\ (Right(c, j) => Right(a, l))
  <2>1. FALSE \in BOOLEAN /\ (j = j \/ (FALSE /\ ~c.chassis))
    OBVIOUS
  <2>2. a = [c EXCEPT !.chassis = FALSE] /\ l = Recompute(a, SetPower(a, j))
    OBVIOUS
  <2> HIDE DEF a, l
  <2> QED
    BY ONLY <1>5, <2>1, <2>2, ChassisRight
<1>7. a.over = app.over /\ a.alertBay = app.alertBay /\ a.asleep = app.asleep
  BY <1>5 DEF AppT, SameForFront
<1> HIDE DEF a, l
<1>8. AlertShown'
  BY <1>2, <1>7, Facts DEF AlertShown
<1> QED
  BY <1>2, <1>5, <1>6, <1>8, SameForFrontRefl, HandlerKeeps

LEMMA StepNightFalls ==
  ASSUME LedsInv, NightFalls
  PROVE  LedsInv'
<1> DEFINE a == [app EXCEPT !.asleep = TRUE]
           l == Reassert(a, Darkened(a, leds))
<1>1. /\ app' = a /\ leds' = Written(l) /\ bright' = Dimmed(a, bright)
      /\ UNCHANGED driver /\ ~app.asleep /\ app.over = Nothing
  BY DEF NightFalls
<1>2. /\ a \in AppT /\ a.over = app.over /\ a.alertBay = app.alertBay
      /\ l \in LedT /\ (Right(app, leds) => Right(a, l))
  BY <1>1, Facts, NightRight
<1> HIDE DEF a, l
<1>3. AlertShown'
  BY <1>1, <1>2, Facts DEF AlertShown
<1> QED
  BY <1>1, <1>2, <1>3, SameForFrontRefl, HandlerKeeps

LEMMA StepWakes ==
  ASSUME LedsInv, Wakes
  PROVE  LedsInv'
<1>1. PICK disks \in Scans :
        /\ app' = Woken(disks) /\ leds' = Written(Waking(Woken(disks), leds))
        /\ bright' = Dimmed(Woken(disks), bright)
  BY DEF Wakes
<1> DEFINE a == Woken(disks)
           l == Waking(a, leds)
<1>2. app' = a /\ leds' = Written(l) /\ bright' = Dimmed(a, bright)
  BY <1>1
<1>3. app.asleep /\ UNCHANGED driver /\ disks \in [Bays -> Healths]
  BY Facts, ScansFact DEF Wakes
<1>4. a = [Scanned(app, disks) EXCEPT !.asleep = FALSE]
  BY DEF Woken
<1>5. /\ a \in AppT /\ a.over = app.over /\ a.alertBay = app.alertBay /\ ~a.asleep
      /\ l \in LedT /\ (Right(app, leds) => Right(a, l))
  BY <1>3, <1>4, Facts, MorningRight
<1> HIDE DEF a, l
<1>6. AlertShown'
  BY <1>2, <1>5, Facts DEF AlertShown
<1> QED
  BY <1>2, <1>3, <1>5, <1>6, SameForFrontRefl, HandlerKeeps

LEMMA StepRefresh ==
  ASSUME LedsInv, RefreshDisks \/ RefreshReadings
  PROVE  LedsInv'
<1>1. PICK a \in AppT, l \in LedT :
        /\ app' = a /\ leds' = Written(l) /\ bright' = bright /\ UNCHANGED driver
        /\ SameForFront(a, app) /\ a.over = app.over /\ a.alertBay = app.alertBay
        /\ Right(app, leds) => Right(a, l)
  <2>1. CASE RefreshDisks
    <3>1. PICK disks \in Scans :
            /\ app' = Scanned(app, disks)
            /\ leds' = Written(UpdateHealth(Scanned(app, disks), leds))
      BY <2>1 DEF RefreshDisks
    <3>2. disks \in [Bays -> Healths]
      BY Facts, ScansFact
    <3> QED
      BY <2>1, <3>1, <3>2, Facts, ScannedFact, ScanRight DEF RefreshDisks
  <2>2. CASE RefreshReadings
    <3>1. PICK other \in Others :
            /\ app' = [app EXCEPT !.other = other]
            /\ leds' = Written(Recompute([app EXCEPT !.other = other], leds))
      BY <2>2 DEF RefreshReadings
    <3> QED
      BY <2>2, <3>1, Facts, ReadingsRight DEF RefreshReadings
  <2> QED
    BY <2>1, <2>2
<1>2. AlertShown'
  BY <1>1, Facts DEF AlertShown, SameForFront
<1> QED
  BY <1>1, <1>2, Facts, HandlerKeeps

\* A snapshot says what is there now.
LEMMA SnapshotFact ==
  ASSUME DeviceOK
  PROVE  /\ Snapshot.stage = device.stage
         /\ Snapshot.core = IF device.stage = "absent" THEN 0 ELSE device.loads
         /\ Snapshot.dimmer = IF device.dimmer THEN device.dimmers ELSE 0
         /\ device.loads \in Nat /\ device.dimmers \in Nat
         /\ Snapshot \in Snapshots
<1> DEFINE loads == device.loads
           dimmers == device.dimmers
<1>1. /\ device.stage \in {"absent", "partial", "full"} /\ device.dimmer \in BOOLEAN
      /\ loads \in 0 .. MaxLoads /\ dimmers \in 0 .. MaxDimmers
  BY DEF DeviceOK
<1>2. MaxLoads \in Nat /\ MaxDimmers \in Nat
  BY LoadsAssumption
<1> HIDE DEF loads, dimmers
<1>3. loads \in Nat /\ dimmers \in Nat /\ 0 \in 0 .. MaxLoads /\ 0 \in 0 .. MaxDimmers
  BY ONLY <1>1, <1>2
<1> QED
  BY <1>1, <1>3 DEF Snapshot, Snapshots, loads, dimmers

LEMMA StepCheckSeesNew ==
  ASSUME LedsInv, CheckSeesNew, UNCHANGED device
  PROVE  LedsInv'
<1>1. /\ app' = app /\ leds' = leds /\ bright' = bright /\ applied' = applied
      /\ seen' = Snapshot /\ device' = device
  BY DEF CheckSeesNew
<1>2. Snapshot' = Snapshot
  BY <1>1 DEF Snapshot
<1>3. DeviceOK'
  BY <1>1, <1>2, Facts, SnapshotFact DEF DeviceOK
<1>4. LedsTypeOK'
  BY <1>1, <1>3, Facts DEF LedsTypeOK, AppT, LedT, BrightT, DeviceOK
<1> QED
  BY <1>1, <1>4, Facts
     DEF LedsInv, AlertShown, WatchBehind, LevelKept, SameDriver, SameDimmer

\* A watch that acts either writes everything, or there was nothing new.
LEMMA StepCheckActs ==
  ASSUME LedsInv, CheckActs, UNCHANGED device
  PROVE  LedsInv'
<1> DEFINE change == Change(applied, Snapshot)
<1>1. /\ app' = app /\ applied' = Snapshot /\ seen' = seen /\ device' = device
  BY DEF CheckActs
<1>2. Snapshot' = Snapshot
  BY <1>1 DEF Snapshot
<1>3. DeviceOK'
  BY <1>1, <1>2, Facts, SnapshotFact DEF DeviceOK
<1>4. WatchBehind' /\ AlertShown'
  <2>1. WatchBehind'
    BY <1>1, Facts, SnapshotFact DEF WatchBehind
  <2> QED
    BY <1>1, <2>1, Facts DEF AlertShown
<1>5. SameDriver' => device.stage = "full"
  BY <1>1 DEF SameDriver
<1>6. SameDimmer' => device.stage = "full" /\ device.dimmer
  BY <1>1, Facts, SnapshotFact DEF SameDimmer
<1>7. CASE change \in {"None", "Disappeared"}
  <2>1. leds' = leds /\ bright' = bright
    BY <1>7 DEF CheckActs
  <2>2. ASSUME device.stage = "full"
        PROVE  /\ applied.stage = "full" /\ applied.core = device.loads
               /\ device.dimmer => applied.dimmer = device.dimmers
    <3>1. Present(Snapshot)
      BY <2>2, Facts, SnapshotFact DEF Present
    <3>2. Present(applied) /\ applied.core = Snapshot.core
          /\ Snapshot.dimmer \in {0, applied.dimmer}
      BY <1>7, <3>1 DEF Change
    <3> QED
      BY <2>2, <3>2, Facts, SnapshotFact DEF Present, WatchBehind
  <2>3. (SameDriver' => SameDriver) /\ (SameDimmer' => SameDimmer)
    BY <1>5, <1>6, <2>2 DEF SameDriver, SameDimmer
  <2>4. LedsTypeOK'
    BY <1>1, <1>3, <2>1, Facts DEF LedsTypeOK, AppT, LedT, BrightT, DeviceOK
  <2>5. LevelKept'
    BY <1>1, <2>1, <2>3, Facts DEF LevelKept
  <2> QED
    BY <1>1, <1>4, <2>1, <2>3, <2>4, <2>5, Facts DEF LedsInv
<1>8. CASE change \notin {"None", "Disappeared"}
  <2> DEFINE l == ApplyAll(app, leds)
  <2>1. leds' = Written(l) /\ bright' = Redimmed(app, bright)
    BY <1>8 DEF CheckActs
  <2>2. l \in LedT /\ Right(app, l)
    BY Facts, ApplyAllRight
  <2> HIDE DEF l
  <2>3. leds' \in LedT /\ (device.stage = "full" => leds' = l)
    BY <2>1, <2>2, Facts, WrittenFact
  <2>4. /\ bright' \in BrightT /\ Truthful(bright')
        /\ device.dimmer => LevelAt(app, bright')
    BY <2>1, Facts, RedimmedFact
  <2>5. LevelKept'
    BY <1>1, <1>6, <2>4 DEF LevelKept, LevelAt, Truthful
  <2>6. LedsTypeOK'
    BY <1>1, <1>3, <2>3, <2>4, Facts DEF LedsTypeOK, AppT, LedT, BrightT, DeviceOK
  <2> QED
    BY <1>1, <1>4, <1>5, <2>2, <2>3, <2>5, <2>6 DEF LedsInv
<1> QED
  BY <1>7, <1>8

\* Drivers come with LEDs nobody has written, and what was written stays with
\* those that are there.
LEMMA StepDriverMoves ==
  ASSUME LedsInv, DriverMoves
  PROVE  LedsInv'
<1> DEFINE n == device.loads
           k == device.dimmers
<1>1. /\ app' = app /\ bright' = bright /\ applied' = applied /\ seen' = seen
      /\ AlertShown'
  BY Facts DEF DriverMoves, AlertShown
<1>2. /\ device.stage \in {"absent", "partial", "full"} /\ device.dimmer \in BOOLEAN
      /\ n \in 0 .. MaxLoads /\ k \in 0 .. MaxDimmers
      /\ MaxLoads \in Nat /\ MaxDimmers \in Nat
      /\ applied.core \in 0 .. MaxLoads /\ applied.dimmer \in 0 .. MaxDimmers
  BY Facts, LoadsAssumption DEF DeviceOK, Snapshots
<1>3. /\ DeviceOK /\ WatchBehind /\ LevelKept /\ (SameDriver => Right(app, leds))
      /\ leds \in LedT
  BY Facts
<1>4. /\ DeviceOK' /\ WatchBehind'
      /\ SameDriver' => SameDriver
      /\ SameDimmer' => SameDimmer
  <2>1. CASE DriverLoading
    <3>1. /\ device.stage = "absent" /\ n < MaxLoads
          /\ device' = [device EXCEPT !.stage = "partial", !.loads = n + 1]
      BY <2>1 DEF DriverLoading
    <3>2. n + 1 \in 0 .. MaxLoads
      BY ONLY <1>2, <3>1
    <3>3. DeviceOK'
      BY <1>1, <1>3, <3>1, <3>2 DEF DeviceOK
    <3>4. /\ device'.stage = "partial" /\ device'.loads = n + 1
          /\ device'.dimmer = device.dimmer /\ device'.dimmers = k
      BY <1>3, <3>1 DEF DeviceOK
    <3>5. ASSUME applied.core <= n
          PROVE  applied.core <= n + 1 /\ applied.core < n + 1
      BY <1>2, <3>5
    <3>6. WatchBehind'
      BY <1>1, <1>3, <3>4, <3>5 DEF WatchBehind
    <3> QED
      BY <1>1, <3>3, <3>4, <3>6 DEF SameDriver, SameDimmer
  <2>2. CASE DriverLoaded
    <3>1. device.stage = "partial" /\ device' = [device EXCEPT !.stage = "full"]
      BY <2>2 DEF DriverLoaded
    <3>2. DeviceOK'
      BY <1>1, <1>3, <3>1 DEF DeviceOK
    <3>3. /\ device'.stage = "full" /\ device'.loads = n
          /\ device'.dimmer = device.dimmer /\ device'.dimmers = k
      BY <1>3, <3>1 DEF DeviceOK
    <3>4. ~(applied.core < n /\ applied.core = n)
      BY <1>2
    <3> QED
      BY <1>1, <1>3, <3>1, <3>2, <3>3, <3>4 DEF WatchBehind, SameDriver, SameDimmer
  <2>3. CASE DriverUnloaded
    <3>1. device' = [device EXCEPT !.stage = "absent"]
      BY <2>3 DEF DriverUnloaded
    <3>2. DeviceOK'
      BY <1>1, <1>3, <3>1 DEF DeviceOK
    <3>3. /\ device'.stage = "absent" /\ device'.loads = n
          /\ device'.dimmer = device.dimmer /\ device'.dimmers = k
      BY <1>3, <3>1 DEF DeviceOK
    <3> QED
      BY <1>1, <1>3, <3>2, <3>3 DEF WatchBehind, SameDriver, SameDimmer
  <2>4. CASE DimmerLoaded
    <3>1. /\ k < MaxDimmers
          /\ device' = [device EXCEPT !.dimmer = TRUE, !.dimmers = k + 1]
      BY <2>4 DEF DimmerLoaded
    <3>2. k + 1 \in 0 .. MaxDimmers /\ k + 1 > 0
      BY ONLY <1>2, <3>1
    <3>3. DeviceOK'
      BY <1>1, <1>3, <3>1, <3>2 DEF DeviceOK
    <3>4. /\ device'.stage = device.stage /\ device'.loads = n
          /\ device'.dimmer = TRUE /\ device'.dimmers = k + 1
      BY <1>3, <3>1 DEF DeviceOK
    <3>5. ASSUME applied.dimmer <= k
          PROVE  applied.dimmer <= k + 1 /\ applied.dimmer # k + 1
      BY <1>2, <3>5
    <3>6. WatchBehind'
      BY <1>1, <1>3, <3>2, <3>4, <3>5 DEF WatchBehind
    <3> QED
      BY <1>1, <1>3, <3>3, <3>4, <3>5, <3>6 DEF SameDriver, SameDimmer, WatchBehind
  <2>5. CASE DimmerUnloaded
    <3>1. device' = [device EXCEPT !.dimmer = FALSE]
      BY <2>5 DEF DimmerUnloaded
    <3>2. DeviceOK'
      BY <1>1, <1>3, <3>1 DEF DeviceOK
    <3>3. /\ device'.stage = device.stage /\ device'.loads = n
          /\ device'.dimmer = FALSE /\ device'.dimmers = k
      BY <1>3, <3>1 DEF DeviceOK
    <3> QED
      BY <1>1, <1>3, <3>2, <3>3 DEF WatchBehind, SameDriver, SameDimmer
  <2> QED
    BY <2>1, <2>2, <2>3, <2>4, <2>5 DEF DriverMoves
<1>5. leds' \in LedT /\ (SameDriver' => leds' = leds)
  <2>1. CASE DriverUnloaded
    <3>1. leds' = Defaults(leds.shown) /\ device'.stage = "absent"
      BY <1>3, <2>1 DEF DriverUnloaded, DeviceOK
    <3>2. leds.shown \in Patterns \cup {Nothing}
      BY <1>3 DEF LedT
    <3>3. leds' \in LedT
      BY <3>1, <3>2 DEF Defaults, LedT, Looks
    <3> QED
      BY <3>1, <3>3 DEF SameDriver
  <2>2. CASE ~DriverUnloaded
    <3>1. leds' = leds
      BY <2>2 DEF DriverMoves, DriverLoading, DriverLoaded, DimmerLoaded, DimmerUnloaded
    <3> QED
      BY <1>3, <3>1
  <2> QED
    BY <2>1, <2>2
<1>6. LedsTypeOK'
  BY <1>1, <1>4, <1>5, Facts DEF LedsTypeOK, AppT, LedT, BrightT, DeviceOK
<1>7. LevelKept'
  BY <1>1, <1>3, <1>4 DEF LevelKept
<1>8. SameDriver' => Right(app', leds')
  BY <1>1, <1>3, <1>4, <1>5
<1> QED
  BY <1>1, <1>4, <1>6, <1>7, <1>8 DEF LedsInv

\* A daemon that starts, at boot or again.
LEMMA StartedFact ==
  ASSUME NEW config \in Configs, NEW disks \in [Bays -> Healths], NEW other \in Others,
         NEW a, a = Started(config, disks, other)
  PROVE  /\ a \in AppT /\ ~a.asleep /\ a.over = Nothing /\ a.alertBay = AlertOf(Nothing)
<1>1. {b \in Bays : disks[b] = "Failed"} \in SUBSET Bays
  OBVIOUS
<1>2. AlertOf(Nothing) = NoBay
  BY DEF AlertOf
<1> QED
  BY <1>1, <1>2 DEF Started, AppT

LEMMA StepRestart ==
  ASSUME LedsInv, Restart
  PROVE  LedsInv'
<1> DEFINE a == Started(app.config, app.disks, app.other)
           r == Remember(leds, Nothing)
           h == UpdateHealth(a, r)
           l == ApplyAll(a, h)
           f == Forgot(bright)
<1>1. /\ app' = a /\ leds' = Written(l) /\ bright' = Redimmed(a, f)
      /\ applied' = Snapshot /\ seen' = Snapshot /\ device' = device
  BY DEF Restart
<1>2. a \in AppT /\ ~a.asleep /\ a.over = Nothing /\ a.alertBay = AlertOf(Nothing)
  <2>1. app.config \in Configs /\ app.disks \in [Bays -> Healths] /\ app.other \in Others
    BY Facts DEF AppT
  <2> QED
    BY <2>1, StartedFact
<1>3. l \in LedT /\ Right(a, l)
  <2> HIDE DEF a
  <2>1. Nothing \in Patterns \cup {Nothing}
    OBVIOUS
  <2>2. r \in LedT
    BY <2>1, Facts, RememberFact
  <2> HIDE DEF r
  <2>3. h \in LedT
    BY <1>2, <2>2, UpdateHealthFact
  <2> HIDE DEF h
  <2> QED
    BY <1>2, <2>3, ApplyAllRight
<1>4. f \in BrightT
  BY Facts DEF Forgot, BrightT
<1> HIDE DEF a, l, f
<1>5. leds' \in LedT /\ (device.stage = "full" => leds' = l)
  BY <1>1, <1>3, Facts, WrittenFact
<1>6. /\ bright' \in BrightT /\ Truthful(bright')
      /\ device.dimmer => LevelAt(a, bright')
  BY <1>1, <1>2, <1>4, RedimmedFact
<1>7. Snapshot' = Snapshot
  BY <1>1 DEF Snapshot
<1>8. DeviceOK'
  BY <1>1, Facts, SnapshotFact DEF DeviceOK
<1>9. WatchBehind' /\ AlertShown'
  <2>1. WatchBehind'
    BY <1>1, Facts, SnapshotFact DEF WatchBehind
  <2> QED
    BY <1>1, <1>2, <2>1 DEF AlertShown
<1>10. LevelKept'
  <2>1. SameDimmer' => device.dimmer
    BY <1>1 DEF SameDimmer
  <2> QED
    BY <1>1, <1>6, <2>1 DEF LevelKept, LevelAt, Truthful
<1>11. LedsTypeOK'
  BY <1>1, <1>2, <1>5, <1>6, <1>8 DEF LedsTypeOK, AppT, LedT, BrightT, DeviceOK
<1>12. SameDriver' => Right(app', leds')
  BY <1>1, <1>3, <1>5 DEF SameDriver
<1> QED
  BY <1>9, <1>10, <1>11, <1>12 DEF LedsInv

LEMMA InitHolds ==
  ASSUME LedsInit
  PROVE  LedsInv
<1>1. /\ device = [stage |-> "absent", dimmer |-> FALSE, loads |-> 0, dimmers |-> 0]
      /\ applied = Snapshot /\ seen = Snapshot /\ leds = Defaults(StatusPattern(app))
      /\ bright = [level |-> "bios", written |-> Nothing,
                   day |-> IF app.config.day THEN "day" ELSE Nothing]
  BY DEF LedsInit
<1>2. app \in AppT /\ ~app.asleep /\ app.over = Nothing /\ app.alertBay = AlertOf(Nothing)
  <2>1. PICK config \in Configs, disks \in [Bays -> Healths] :
          app = Started(config, disks, "Ok")
    BY DEF LedsInit
  <2>2. "Ok" \in Others
    BY PatternsAssumption
  <2> QED
    BY <2>1, <2>2, StartedFact
<1>3. DeviceOK
  <2>1. /\ MaxLoads \in Nat /\ MaxDimmers \in Nat
    BY LoadsAssumption
  <2>2. 0 \in 0 .. MaxLoads /\ 0 \in 0 .. MaxDimmers
    BY ONLY <2>1
  <2>3. Snapshot = [stage |-> "absent", core |-> 0, dimmer |-> 0]
    BY <1>1 DEF Snapshot
  <2> QED
    BY <1>1, <2>2, <2>3 DEF DeviceOK, Snapshots
<1>4. StatusPattern(app) \in Patterns
  BY <1>2, StatusFact
<1>5. leds \in LedT
  BY <1>1, <1>4 DEF Defaults, LedT, Looks
<1>6. bright \in BrightT
  BY <1>1 DEF BrightT, Levels
<1>7. LedsTypeOK
  BY <1>2, <1>3, <1>5, <1>6, Types
<1>8. AlertShown /\ WatchBehind
  <2>1. WatchBehind
    BY <1>1, <1>3, SnapshotFact DEF WatchBehind
  <2> QED
    BY <1>2, <2>1 DEF AlertShown
<1>9. ~SameDriver /\ LevelKept
  BY <1>1 DEF SameDriver, LevelKept, SameDimmer
<1> QED
  BY <1>7, <1>8, <1>9 DEF LedsInv

LEMMA NextKeeps ==
  ASSUME LedsInv, [LedsNext]_ledsVars
  PROVE  LedsInv'
<1>1. CASE Show
  <2>1. PICK w \in Messages : ShowAwake(w) \/ ShowWakes(w)
    BY <1>1 DEF Show
  <2> QED
    BY <1>1, <2>1, StepShowAwake, StepShowWakes DEF Show
<1>2. CASE Clear
  BY <1>2, StepClear
<1>3. CASE \E b \in Bays : LocateBay(b) \/ EndBay(b)
  BY <1>3, StepBay
<1>4. CASE LocateChassis \/ EndChassis
  BY <1>4, StepChassis
<1>5. CASE EndLocates
  BY <1>5, StepEndLocates
<1>6. CASE NightFalls
  BY <1>6, StepNightFalls
<1>7. CASE Wakes
  BY <1>7, StepWakes
<1>8. CASE RefreshDisks \/ RefreshReadings
  BY <1>8, StepRefresh
<1>9. CASE Check
  BY <1>9, StepCheckSeesNew, StepCheckActs DEF Check
<1>10. CASE DriverMoves
  BY <1>10, StepDriverMoves
<1>11. CASE Restart
  BY <1>11, StepRestart
<1>12. CASE UNCHANGED ledsVars
  <2>1. /\ app' = app /\ leds' = leds /\ bright' = bright /\ device' = device
        /\ applied' = applied /\ seen' = seen
    BY <1>12 DEF ledsVars
  <2> QED
    BY <2>1
       DEF LedsInv, LedsTypeOK, AlertShown, WatchBehind, LevelKept, SameDriver, SameDimmer
<1> QED
  BY <1>1, <1>2, <1>3, <1>4, <1>5, <1>6, <1>7, <1>8, <1>9, <1>10, <1>11, <1>12
     DEF LedsNext

-----------------------------------------------------------------------------
(* The theorems. *)

\* The inductive invariant of the LEDs, for any bays, messages and reloads.
THEOREM LedsAreKept == LedsSpec => []LedsInv
<1>1. LedsInit => LedsInv
  BY InitHolds
<1>2. LedsInv /\ [LedsNext]_ledsVars => LedsInv'
  BY NextKeeps
<1> QED
  BY <1>1, <1>2, PTL DEF LedsSpec

\* Whatever messages, locates, nights, scans and driver reloads come in what
\* order, every LED shows what the state calls for, at the level it calls for,
\* once the driver watch has settled (state.rs:428-640).
THEOREM LedsAlwaysFollow == LedsSpec => []LedsFollowState
<1>1. LedsInv => LedsFollowState
  <2> SUFFICES ASSUME LedsInv, Settled
               PROVE  LedsRight /\ LevelRight
    BY DEF LedsFollowState
  <2>1. DeviceOK
    BY Facts
  <2>2. SameDriver
    BY <2>1, SnapshotFact DEF Settled, SameDriver
  <2>3. LedsRight
    BY <2>2, Facts DEF LedsRight, FrontRight, BayRight, Looked, Right, BaysRight, LookedAt,
                       BayShows, StatusRight, FrontShows, LanLook
  <2>4. device.dimmer => SameDimmer
    BY <2>1, SnapshotFact DEF Settled, SameDimmer
  <2>5. LevelRight
    BY <2>4, Facts DEF LevelRight, LevelKept
  <2> QED
    BY <2>3, <2>5
<1> QED
  BY <1>1, LedsAreKept, PTL
=============================================================================
