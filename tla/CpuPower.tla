------------------------------ MODULE CpuPower ------------------------------
(***************************************************************************)
(* The CPU package's power limits (src/src/cpu_power.rs): one thread       *)
(* sweeps the sensors, the other ticks once a second, decides between the  *)
(* configured and the stock limits and writes them, one sysfs file after   *)
(* the other, to a zone that others may write as well.  When the daemon    *)
(* stops, however it does, the unit's fail-safe puts stock back.           *)
(*                                                                         *)
(* Time.  The unit is TICK.  An Instant is the time gone by since, counted *)
(* as far as anything asks.  Verifying reads the zone in one step; each    *)
(* write of a file is a step of its own.                                   *)
(*                                                                         *)
(* Data.  Of a sweep only the worst sensor matters: "Critical", "Warm" (at *)
(* warning, or not a number) or "Cool"; a sweep that finds none is "None", *)
(* and before the first it is "NotYet".                                    *)
(*                                                                         *)
(* A definition whose name ends in _Slip is the next one with a mistake in *)
(* it; see AppState.                                                       *)
(***************************************************************************)
EXTENDS Integers, Sequences

CONSTANTS
  Configured, Stock,   \* the two settings: [pl1, pl2, tau]
  Rounds(_),           \* the time windows the hardware may make of one
  Others,              \* settings others may write, file by file
  VerifyEvery,         \* VERIFY_INTERVAL
  StaleAfter,          \* after what time a sample is no reading
  FirstSweepWait,      \* FIRST_SWEEP_WAIT
  Rearm                \* rearm_secs

Limits == [pl1 : Nat, pl2 : Nat, tau : Nat]
Files == {"pl1", "pl2", "tau"}
Modes == {"Configured", "Stock"}
Samples == {"None", "Critical", "Warm", "Cool"}
Never == -1
Timer == {t \in Int : t >= Never}

ASSUME LimitsAssumption ==
  /\ {Configured, Stock} \cup Others \subseteq Limits
  /\ Configured.pl1 <= Configured.pl2 /\ Stock.pl1 <= Stock.pl2
  /\ \A l \in {Configured, Stock} : Rounds(l.tau) # {} /\ Rounds(l.tau) \subseteq Nat
\* Seen on the board, and what Limits::matches allows for.
ASSUME RoundsAssumption ==
  \A l \in {Configured, Stock} : \A t \in Rounds(l.tau) :
    4 * (l.tau - t) <= l.tau /\ 4 * (t - l.tau) <= l.tau
ASSUME TimesAssumption ==
  /\ {StaleAfter, FirstSweepWait, Rearm} \subseteq Nat
  /\ VerifyEvery \in Nat \ {0}

VARIABLES
  phase,        \* of the unit: see Phases
  zone,         \* the limits the zone has
  todo,         \* the files still to be written
  sample, age,  \* the latest sweep, and how long ago it or the start was
  ticked,       \* the control thread has had this second's tick
  tripped, coolFor,      \* Guard; how long ago cool_since was
  applied, verifiedFor,  \* applied ("None"); how long ago last_verify was
  problem,      \* a problem is set: STATUS says "NOT APPLIED"
  \* What the properties look back on:
  unsafeFor,    \* how long the sensors have been critical or unknown
  warmAgo,      \* when a tick last saw a sensor that was not cool
  trouble,      \* when an access last failed or somebody else wrote
  inOrder       \* nobody else has put PL1 above PL2, or got in between

guard == <<tripped, coolFor>>
controller == <<guard, applied, verifiedFor, problem>>
history == <<unsafeFor, warmAgo, trouble, inOrder>>
vars == <<phase, zone, todo, sample, age, ticked, controller, history>>

Phases == {"starting", "running", "stopping", "restoring", "stopped"}

-----------------------------------------------------------------------------
(* Limits. *)

LimitsOf(mode) == IF mode = "Stock" THEN Stock ELSE Configured

Matches(want, read) ==
  /\ want.pl1 = read.pl1 /\ want.pl2 = read.pl2
  /\ 4 * (want.tau - read.tau) <= want.tau
  /\ 4 * (read.tau - want.tau) <= want.tau

\* In the order of the files' numbers: PL1BelowPL2.
WritePlan_Slip(new) == <<"pl1", "pl2", "tau">>

\* write_plan: PL2 is raised before PL1 and lowered after it.
WritePlan(new) ==
  IF new.pl2 >= zone.pl2 THEN <<"pl2", "pl1", "tau">>
                         ELSE <<"pl1", "pl2", "tau">>

\* A write begins: check and the reading of PL2 went well.
BeginWrite(new) ==
  /\ todo' = WritePlan(new)
  /\ inOrder' = (zone.pl1 <= zone.pl2)

-----------------------------------------------------------------------------
(* The guard. *)

\* A sample counts however old it is: HotIsStock.
Reading_Slip == IF sample = "NotYet" THEN "None" ELSE sample

Reading ==
  IF sample = "NotYet" \/ age > StaleAfter THEN "None" ELSE sample

Unsafe == Reading \in {"None", "Critical"}

\* A warm sensor does not interrupt the cool time: RearmsLate.
Observe_Slip ==
  \/ Unsafe /\ tripped' = TRUE /\ coolFor' = Never
  \/ ~Unsafe /\ ~tripped /\ UNCHANGED guard
  \/ ~Unsafe /\ tripped /\
       LET since == IF coolFor = Never THEN 0 ELSE coolFor IN
       /\ tripped' = (since < Rearm \/ Reading = "Warm")
       /\ coolFor' = IF tripped' THEN since ELSE Never

\* The cool time starts anew at every tick: ComesBack.
ObserveAnew_Slip ==
  \/ Unsafe /\ tripped' = TRUE /\ coolFor' = Never
  \/ ~Unsafe /\ ~tripped /\ UNCHANGED guard
  \/ ~Unsafe /\ tripped /\
       /\ tripped' = (Reading = "Warm" \/ Rearm > 0)
       /\ coolFor' = IF Reading = "Cool" /\ tripped' THEN 0 ELSE Never

Observe ==
  \/ Unsafe /\ tripped' = TRUE /\ coolFor' = Never
  \/ ~Unsafe /\ ~tripped /\ UNCHANGED guard
  \/ Reading = "Warm" /\ tripped /\ coolFor' = Never /\ UNCHANGED tripped
  \/ Reading = "Cool" /\ tripped /\
       LET since == IF coolFor = Never THEN 0 ELSE coolFor IN
       /\ tripped' = (since < Rearm)
       /\ coolFor' = IF since < Rearm THEN since ELSE Never

Mode == IF tripped THEN "Stock" ELSE "Configured"

-----------------------------------------------------------------------------
(* The controller. *)

VerifyDue == applied # "None" /\ verifiedFor >= VerifyEvery

\* What others wrote is only logged: AsAsked.
Verified_Slip(readable) == applied

\* The time window has to be the one that was written: LeavesItAlone.
VerifiedExactly_Slip(readable) ==
  IF VerifyDue /\ ~(readable /\ LimitsOf(applied) = zone) THEN "None"
                                                         ELSE applied

\* What verify leaves in applied.
Verified(readable) ==
  IF VerifyDue /\ ~(readable /\ Matches(LimitsOf(applied), zone)) THEN "None"
                                                                 ELSE applied

TickStays(readable) ==
  /\ Verified(readable) = Mode'
  /\ UNCHANGED <<todo, problem, trouble, inOrder>>

TickWrites(readable) ==
  /\ Verified(readable) # Mode'
  /\ BeginWrite(LimitsOf(Mode'))
  /\ trouble' = IF VerifyDue /\ ~readable THEN 0 ELSE trouble
  /\ UNCHANGED problem

\* check fails, or reading PL2 does.
TickRefused(readable) ==
  /\ Verified(readable) # Mode'
  /\ problem' = TRUE /\ trouble' = 0
  /\ UNCHANGED <<todo, inOrder>>

Tick ==
  /\ phase = "running" /\ ~ticked
  /\ ticked' = TRUE
  /\ Observe
  /\ verifiedFor' = IF VerifyDue THEN 0 ELSE verifiedFor
  /\ warmAgo' = IF Reading = "Cool" THEN warmAgo ELSE 0
  /\ \E readable \in BOOLEAN :
       /\ applied' = Verified(readable)
       /\ TickStays(readable) \/ TickWrites(readable) \/ TickRefused(readable)
  /\ UNCHANGED <<phase, zone, sample, age, unsafeFor>>

-----------------------------------------------------------------------------
(* Zone::write, run by the controller and by the fail-safe. *)

\* The fail-safe writes what the daemon last wanted: StopsAtStock.
Writing_Slip == LimitsOf(Mode)

Writing == IF phase = "restoring" THEN Stock ELSE LimitsOf(Mode)

Stored(file) == IF file = "tau" THEN Rounds(Writing.tau) ELSE {Writing[file]}

WriteFailed == problem' = TRUE /\ UNCHANGED <<applied, verifiedFor>>

WriteDone == applied' = Mode /\ verifiedFor' = 0 /\ problem' = FALSE

WriteFile ==
  /\ todo # <<>>
  /\ \E v \in Stored(Head(todo)) : zone' = [zone EXCEPT ![Head(todo)] = v]
  /\ todo' = Tail(todo)
  /\ IF todo' = <<>> /\ phase = "running" THEN WriteDone
     ELSE UNCHANGED <<applied, verifiedFor, problem>>
  /\ phase' = IF todo' = <<>> /\ phase = "restoring" THEN "stopped" ELSE phase
  /\ UNCHANGED <<sample, age, ticked, guard, history>>

WriteFails ==
  /\ todo # <<>>
  /\ todo' = <<>> /\ trouble' = 0
  /\ IF phase = "running" THEN WriteFailed /\ UNCHANGED phase
     ELSE phase' = "stopped" /\ UNCHANGED <<applied, verifiedFor, problem>>
  /\ UNCHANGED <<zone, sample, age, ticked, guard, unsafeFor, warmAgo, inOrder>>

-----------------------------------------------------------------------------
(* The daemon's life. *)

NewController ==
  /\ tripped' = FALSE /\ coolFor' = Never
  /\ applied' = "None" /\ verifiedFor' = Never /\ problem' = FALSE

Start ==
  /\ phase = "stopped" /\ phase' = "starting"
  /\ NewController
  /\ sample' = "NotYet" /\ age' = 0 /\ ticked' = FALSE
  /\ unsafeFor' = Never /\ warmAgo' = Never
  /\ UNCHANGED <<zone, todo, trouble, inOrder>>

\* The first sweep is in, or has been waited for long enough.
FirstSweepAwaited == sample # "NotYet" \/ age >= FirstSweepWait

Begin ==
  /\ phase = "starting" /\ FirstSweepAwaited
  /\ phase' = "running"
  /\ UNCHANGED <<zone, todo, sample, age, ticked, controller, history>>

\* A stop, a crash, or a kill, also between two writes.
Stop ==
  /\ phase \in {"starting", "running"}
  /\ phase' = "stopping" /\ todo' = <<>>
  /\ UNCHANGED <<zone, sample, age, ticked, controller, history>>

\* restore_stock, from ExecStopPost; it is not tried again.
RestoreStock ==
  /\ phase = "stopping"
  /\ \/ phase' = "restoring" /\ BeginWrite(Stock) /\ UNCHANGED trouble
     \/ phase' = "stopped" /\ trouble' = 0 /\ UNCHANGED <<todo, inOrder>>
  /\ UNCHANGED <<zone, sample, age, ticked, controller, unsafeFor, warmAgo>>

-----------------------------------------------------------------------------
(* What happens around it. *)

\* Nobody can say that no sensor is critical.
Untrusted == sample \notin {"Warm", "Cool"} \/ age > StaleAfter

Watched(d) ==
  unsafeFor' = IF ~Untrusted' THEN Never
               ELSE IF unsafeFor = Never THEN 0
               ELSE IF unsafeFor > 0 THEN unsafeFor ELSE unsafeFor + d

Sweep(s) ==
  /\ phase \in {"starting", "running"}
  /\ sample' = s /\ age' = 0
  /\ Watched(0)
  /\ UNCHANGED <<phase, zone, todo, ticked, controller, warmAgo, trouble, inOrder>>

\* Firmware or another tool writes one of the files.
Meddle(file, l) ==
  /\ l[file] # zone[file]
  /\ zone' = [zone EXCEPT ![file] = l[file]]
  /\ trouble' = 0
  /\ inOrder' = (inOrder /\ todo = <<>> /\ zone'.pl1 <= zone'.pl2)
  /\ UNCHANGED <<phase, todo, sample, age, ticked, controller, unsafeFor, warmAgo>>

LastAge == IF StaleAfter < FirstSweepWait THEN FirstSweepWait ELSE StaleAfter

Older(t, last) == IF t = Never \/ t > last THEN t ELSE t + 1

\* A second goes by; the control thread ticks in each.
Elapse ==
  /\ todo = <<>>
  /\ \/ phase = "running" /\ ticked
     \/ phase = "starting" /\ ~FirstSweepAwaited
     \/ phase = "stopped"
  /\ ticked' = FALSE
  /\ age' = Older(age, LastAge)
  /\ coolFor' = Older(coolFor, Rearm)
  /\ verifiedFor' = Older(verifiedFor, VerifyEvery)
  /\ warmAgo' = Older(warmAgo, Rearm)
  /\ trouble' = Older(trouble, VerifyEvery)
  /\ UNCHANGED <<phase, zone, todo, sample, tripped, applied, problem, inOrder>>
  /\ Watched(1)

Init ==
  /\ phase = "starting" /\ zone \in Others \cup {Stock} /\ todo = <<>>
  /\ sample = "NotYet" /\ age = 0 /\ ticked = FALSE
  /\ tripped = FALSE /\ coolFor = Never
  /\ applied = "None" /\ verifiedFor = Never /\ problem = FALSE
  /\ unsafeFor = Never /\ warmAgo = Never /\ trouble = Never
  /\ inOrder = (zone.pl1 <= zone.pl2)

Next ==
  \/ Tick \/ WriteFile \/ WriteFails
  \/ Start \/ Begin \/ Stop \/ RestoreStock
  \/ \E s \in Samples : Sweep(s)
  \/ \E file \in Files, l \in Others : Meddle(file, l)
  \/ Elapse

Spec == Init /\ [][Next]_vars

\* Both threads run; time passes.
FairSpec ==
  Spec /\ WF_vars(Tick) /\ WF_vars(WriteFile) /\ WF_vars(Begin) /\ WF_vars(Elapse)

-----------------------------------------------------------------------------
(* Properties. *)

TypeOK ==
  /\ phase \in Phases
  /\ zone \in Limits
  /\ todo \in Seq(Files) /\ (todo # <<>> => phase \in {"running", "restoring"})
  /\ sample \in Samples \cup {"NotYet"} /\ age \in Nat
  /\ ticked \in BOOLEAN /\ tripped \in BOOLEAN /\ problem \in BOOLEAN
  /\ applied \in Modes \cup {"None"}
  /\ {coolFor, verifiedFor, unsafeFor, warmAgo, trouble} \subseteq Timer
  /\ inOrder \in BOOLEAN
  /\ (coolFor # Never => tripped) /\ (applied # "None" => verifiedFor # Never)

\* PL1 never exceeds PL2 in between: between any two writes of the daemon and
\* the fail-safe, whichever of them fail or are cut off by a crash, unless
\* somebody else wrote the zone into that state or during a write.
PL1BelowPL2 == inOrder => zone.pl1 <= zone.pl2

\* Nothing has failed, and nobody else has written, since before the last time
\* the zone was verified.
Calm == trouble = Never \/ trouble > VerifyEvery

Settled == Calm /\ phase = "running" /\ ticked /\ todo = <<>>

\* The zone has the limits the guard asks for, also after a write of which a
\* part failed and after somebody else's: they are put right when the zone is
\* next verified.
AsAsked == Settled => Matches(LimitsOf(Mode), zone)

\* A critical sensor, or no reading, for as long as a second has the limits at
\* stock: also when the sweeps have stopped while all was well.
HotIsStock == Settled /\ unsafeFor >= 1 => Matches(Stock, zone)

\* The configured limits come back only after every tick for Rearm has seen
\* every sensor cool.
RearmsLate ==
  [][phase = "running" /\ tripped /\ ~tripped' => warmAgo >= Rearm]_vars

\* As long as all is calm the controller writes only to change the limits, and
\* not because the hardware rounded what it wrote.
LeavesItAlone ==
  [][Calm' /\ phase = "running" /\ todo = <<>> /\ todo' # <<>>
     => applied # Mode']_vars

\* Stock comes back whenever the daemon stops, also in the middle of a write,
\* unless the fail-safe's own writes fail or somebody gets in between.
StopsAtStock ==
  [][phase = "restoring" /\ phase' = "stopped" /\ trouble' # 0
     => Matches(Stock, zone')]_vars

\* When the sensors are cool for good, the writes work and nobody interferes,
\* the configured limits come back and stay.
ComesBack ==
  <>[](phase = "running" /\ Reading = "Cool" /\ trouble # 0)
    => <>[]Matches(Configured, zone)

\* What README.md says: STATUS shows the current limits.  But when writing
\* stock fails until the sensors have been cool for Rearm, applied still says
\* "Configured": nothing is written and the problem stays for good.
StatusIsRight == Settled => ~problem
=============================================================================
