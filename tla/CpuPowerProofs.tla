--------------------------- MODULE CpuPowerProofs ---------------------------
(***************************************************************************)
(* Theorems about CpuPower for any two settings, any others somebody else  *)
(* may write, and any times: type correctness, the order of PL1 and PL2,   *)
(* the late re-arming, the stock limits after a stop and while it is hot,  *)
(* and that the zone is as the guard asks for and otherwise left alone.    *)
(***************************************************************************)
EXTENDS CpuPower, TLAPS

\* What write_plan leaves to be written: raising PL2, or lowering it.
Raise == <<"pl2", "pl1", "tau">>
Raised == <<"pl1", "tau">>
Lower == <<"pl1", "pl2", "tau">>
Lowered == <<"pl2", "tau">>
Last == <<"tau">>
Plans == {<<>>, Raise, Raised, Lower, Lowered, Last}

\* Where a write is, and what that says of PL1 and PL2.
Ordered ==
  inOrder =>
    /\ zone.pl1 <= zone.pl2
    /\ todo = Raise => zone.pl2 <= Writing.pl2
    /\ todo = Raised => zone.pl2 = Writing.pl2
    /\ todo = Lower => Writing.pl2 <= zone.pl2
    /\ todo = Lowered => zone.pl1 = Writing.pl1

\* What the fail-safe has written so far is still there.
Restored ==
  phase = "restoring" =>
    /\ todo # <<>>
    /\ trouble # 0 =>
         /\ todo \in {Raised, Last} => zone.pl2 = Stock.pl2
         /\ todo \in {Lowered, Last} => zone.pl1 = Stock.pl1

\* The guard's clock does not run ahead of what the ticks have seen.
CoolSince == tripped => warmAgo # Never /\ coolFor <= warmAgo

Busy == /\ todo \in Plans
        /\ phase = "running" /\ todo # <<>> => ticked

IInv == TypeOK /\ Busy /\ Ordered /\ Restored /\ CoolSince

\* What the controller has written so far is still there.
Written ==
  phase = "running" /\ trouble # 0 =>
    /\ todo \in {Raised, Last} => zone.pl2 = Writing.pl2
    /\ todo \in {Lowered, Last} => zone.pl1 = Writing.pl1

\* What was applied is still there, if it has been verified since anything
\* went wrong; and it is verified again in time.
AsVerified ==
  phase = "running" /\ todo = <<>> /\ applied # "None"
    /\ (trouble = Never \/ verifiedFor < trouble) => Matches(LimitsOf(applied), zone)
InTime ==
  phase = "running" /\ applied # "None" =>
    verifiedFor < VerifyEvery \/ (~ticked /\ verifiedFor = VerifyEvery)

\* A tick that went well leaves what the guard asks for applied.
UpToDate ==
  /\ phase = "running" /\ ticked /\ todo = <<>> /\ trouble # 0 => applied = Mode
  /\ phase = "starting" => ~ticked /\ applied = "None"

\* Within the second, a tick sees that the sensors are critical or unknown.
HotTrips ==
  /\ unsafeFor # Never => Untrusted
  /\ unsafeFor >= 1 /\ ticked => tripped

Kept == Written /\ AsVerified /\ InTime /\ UpToDate /\ HotTrips

-----------------------------------------------------------------------------
(* Lemmas. *)

\* The plans differ, and each file written leaves the next one.
LEMMA PlanFacts ==
  /\ Plans \subseteq Seq(Files)
  /\ Raise # <<>> /\ Head(Raise) = "pl2" /\ Tail(Raise) = Raised
  /\ Raised # <<>> /\ Head(Raised) = "pl1" /\ Tail(Raised) = Last
  /\ Lower # <<>> /\ Head(Lower) = "pl1" /\ Tail(Lower) = Lowered
  /\ Lowered # <<>> /\ Head(Lowered) = "pl2" /\ Tail(Lowered) = Last
  /\ Last # <<>> /\ Head(Last) = "tau" /\ Tail(Last) = <<>>
<1>1. Plans \subseteq Seq(Files)
  BY DEF Plans, Raise, Raised, Lower, Lowered, Last, Files
<1>2. QED
  BY <1>1 DEF Raise, Raised, Lower, Lowered, Last

LEMMA PlansDiffer ==
  /\ Raise # Raised /\ Raise # Lower /\ Raise # Lowered /\ Raise # Last
  /\ Raised # Lower /\ Raised # Lowered /\ Raised # Last
  /\ Lower # Lowered /\ Lower # Last /\ Lowered # Last
<1>1. /\ Len(Raise) = 3 /\ Len(Lower) = 3 /\ Len(Raised) = 2
      /\ Len(Lowered) = 2 /\ Len(Last) = 1
  BY DEF Raise, Raised, Lower, Lowered, Last
<1>2. Raise # Lower /\ Raised # Lowered
  BY PlanFacts
<1>3. QED
  BY <1>1, <1>2

\* The settings are limits with PL1 at most PL2.
LEMMA SettingsFact ==
  \A l \in {Configured, Stock} : l \in Limits /\ l.pl1 <= l.pl2
BY LimitsAssumption

\* What is being written is one of the two settings.
LEMMA WritingFact == Writing \in {Configured, Stock}
BY DEF Writing, LimitsOf, Mode

\* An older clock is a clock, and does not go back.
LEMMA OlderFact ==
  ASSUME NEW t \in Timer, NEW last \in Nat
  PROVE  Older(t, last) \in Timer /\ (t = Never <=> Older(t, last) = Never)
BY DEF Older, Timer, Never

LEMMA LastAgeFact == LastAge \in Nat
BY TimesAssumption DEF LastAge

LEMMA WatchedFact ==
  ASSUME unsafeFor \in Timer, NEW d \in {0, 1}, Watched(d)
  PROVE  unsafeFor' \in Timer
BY DEF Watched, Timer, Never

\* A plan has only just begun.
LEMMA BeginFact ==
  ASSUME NEW new, zone \in Limits, new \in Limits, BeginWrite(new)
  PROVE  /\ todo' \in {Raise, Lower}
         /\ inOrder' = (zone.pl1 <= zone.pl2)
         /\ todo' = Raise => zone.pl2 <= new.pl2
         /\ todo' = Lower => new.pl2 <= zone.pl2
<1>1. zone.pl2 \in Int /\ new.pl2 \in Int
  BY DEF Limits
<1>2. CASE new.pl2 >= zone.pl2
  BY <1>1, <1>2, PlansDiffer DEF BeginWrite, WritePlan, Raise, Lower
<1>3. CASE ~(new.pl2 >= zone.pl2)
  BY <1>1, <1>3, PlansDiffer DEF BeginWrite, WritePlan, Raise, Lower
<1>4. QED
  BY <1>2, <1>3

-----------------------------------------------------------------------------
(* The guard. *)

\* A tick's observation keeps the guard's types, and re-arms only late.
LEMMA ObserveStep ==
  ASSUME TypeOK, CoolSince, Observe,
         warmAgo' = IF Reading = "Cool" THEN warmAgo ELSE 0
  PROVE  /\ tripped' \in BOOLEAN /\ coolFor' \in Timer /\ warmAgo' \in Timer
         /\ coolFor' # Never => tripped'
         /\ CoolSince'
         /\ tripped /\ ~tripped' => warmAgo' >= Rearm
<1>1. /\ Rearm \in Nat /\ coolFor \in Timer /\ warmAgo \in Timer
      /\ tripped \in BOOLEAN /\ (coolFor # Never => tripped)
  BY TimesAssumption DEF TypeOK
<1>2. CASE Unsafe /\ tripped' = TRUE /\ coolFor' = Never
  <2>1. Reading # "Cool"
    BY <1>2 DEF Unsafe
  <2>2. QED
    BY <1>1, <1>2, <2>1 DEF CoolSince, Timer, Never
<1>3. CASE ~Unsafe /\ ~tripped /\ UNCHANGED guard
  BY <1>1, <1>3 DEF guard, CoolSince, Timer, Never
<1>4. CASE Reading = "Warm" /\ tripped /\ coolFor' = Never /\ UNCHANGED tripped
  BY <1>1, <1>4 DEF CoolSince, Timer, Never
<1>5. CASE /\ Reading = "Cool" /\ tripped
           /\ LET since == IF coolFor = Never THEN 0 ELSE coolFor IN
              /\ tripped' = (since < Rearm)
              /\ coolFor' = IF since < Rearm THEN since ELSE Never
  <2> DEFINE since == IF coolFor = Never THEN 0 ELSE coolFor
  <2>1. since \in Timer /\ since <= warmAgo
    BY <1>1, <1>5 DEF CoolSince, Timer, Never
  <2>2. warmAgo' = warmAgo
    BY <1>5
  <2>3. tripped' = (since < Rearm) /\ coolFor' = IF since < Rearm THEN since ELSE Never
    BY <1>5
  <2> HIDE DEF since
  <2>4. CASE since < Rearm
    <3>1. tripped' = TRUE /\ coolFor' = since
      BY <2>3, <2>4
    <3>2. since \in Timer /\ warmAgo' \in Timer /\ since <= warmAgo' /\ warmAgo' # Never
      BY <1>1, <1>5, <2>1, <2>2 DEF CoolSince
    <3>3. QED
      BY <3>1, <3>2 DEF CoolSince
  <2>5. CASE ~(since < Rearm)
    BY <1>1, <2>1, <2>2, <2>3, <2>5 DEF CoolSince, Timer, Never
  <2>6. QED
    BY <2>4, <2>5
<1>6. QED
  BY <1>2, <1>3, <1>4, <1>5 DEF Observe

-----------------------------------------------------------------------------
(* The steps. *)

\* At a tick nothing is being written yet.
LEMMA TickStep ==
  ASSUME IInv, Tick
  PROVE  IInv' /\ (tripped /\ ~tripped' => warmAgo >= Rearm)
<1>1. TypeOK /\ Busy /\ Ordered /\ CoolSince
  BY DEF IInv
<1>2. PICK readable \in BOOLEAN :
        /\ applied' = Verified(readable)
        /\ TickStays(readable) \/ TickWrites(readable) \/ TickRefused(readable)
  BY DEF Tick
<1>3. /\ phase = "running" /\ phase' = "running" /\ todo = <<>> /\ ticked'
      /\ UNCHANGED <<zone, sample, age, unsafeFor>>
  BY <1>1 DEF Tick, Busy
<1>4. /\ tripped' \in BOOLEAN /\ coolFor' \in Timer /\ warmAgo' \in Timer
      /\ coolFor' # Never => tripped'
      /\ CoolSince'
      /\ tripped /\ ~tripped' => warmAgo' >= Rearm
  BY <1>1, ObserveStep DEF Tick
<1>5. applied' \in Modes \cup {"None"} /\ (applied' # "None" => applied' = applied)
  BY <1>1, <1>2 DEF Verified, TypeOK
<1>6. verifiedFor' \in Timer /\ (applied # "None" => verifiedFor' # Never)
  BY <1>1 DEF Tick, TypeOK, Timer, Never
<1>7. /\ todo' \in {<<>>, Raise, Lower}
      /\ trouble' \in Timer /\ problem' \in BOOLEAN /\ inOrder' \in BOOLEAN
      /\ Ordered'
  <2>1. CASE TickStays(readable)
    BY <1>1, <1>3, <2>1, PlanFacts DEF TickStays, TypeOK, Ordered
  <2>2. CASE TickWrites(readable)
    <3>1. Writing' = LimitsOf(Mode')
      BY <1>3 DEF Writing, LimitsOf, Mode
    <3>2. Writing' \in Limits
      BY <3>1, SettingsFact DEF LimitsOf
    <3>3. BeginWrite(Writing')
      BY <2>2, <3>1 DEF TickWrites
    <3>4. /\ todo' \in {Raise, Lower}
          /\ inOrder' = (zone.pl1 <= zone.pl2)
          /\ todo' = Raise => zone.pl2 <= Writing'.pl2
          /\ todo' = Lower => Writing'.pl2 <= zone.pl2
      BY <1>1, <3>2, <3>3, BeginFact DEF TypeOK
    <3>5. trouble' \in Timer /\ problem' \in BOOLEAN
      BY <1>1, <2>2 DEF TickWrites, TypeOK, Timer, Never
    <3>6. inOrder' \in BOOLEAN
      BY <3>4
    <3>7. Ordered'
      BY <1>3, <3>4, PlansDiffer DEF Ordered
    <3>8. QED
      BY <3>4, <3>5, <3>6, <3>7
  <2>3. CASE TickRefused(readable)
    BY <1>1, <1>3, <2>3, PlanFacts DEF TickRefused, TypeOK, Ordered, Timer, Never
  <2>4. QED
    BY <1>2, <2>1, <2>2, <2>3
<1>8. TypeOK'
  <2>1. todo' \in Seq(Files)
    BY <1>7, PlanFacts DEF Plans
  <2>2. QED
    BY <1>1, <1>3, <1>4, <1>5, <1>6, <1>7, <2>1 DEF TypeOK, Phases
<1>9. Busy' /\ Restored'
  BY <1>3, <1>7 DEF Busy, Restored, Plans
<1>10. tripped /\ ~tripped' => warmAgo >= Rearm
  <2>1. SUFFICES ASSUME tripped, ~tripped' PROVE warmAgo >= Rearm
    OBVIOUS
  <2>2. Reading = "Cool"
    BY <2>1 DEF Tick, Observe, guard
  <2>3. QED
    BY <1>4, <2>1, <2>2 DEF Tick
<1>11. QED
  BY <1>4, <1>7, <1>8, <1>9, <1>10 DEF IInv

\* One file is written: the plan moves on, and PL1 stays below PL2.
LEMMA WriteFileStep ==
  ASSUME IInv, WriteFile
  PROVE  /\ IInv' /\ UNCHANGED tripped
         /\ phase = "restoring" /\ phase' = "stopped" /\ trouble' # 0
              => Matches(Stock, zone')
<1>1. TypeOK /\ Busy /\ Ordered /\ Restored /\ CoolSince
  BY DEF IInv
<1>2. PICK v \in Stored(Head(todo)) : zone' = [zone EXCEPT ![Head(todo)] = v]
  BY DEF WriteFile
<1>3. /\ todo \in {Raise, Raised, Lower, Lowered, Last}
      /\ todo' = Tail(todo) /\ phase \in {"running", "restoring"}
      /\ UNCHANGED <<sample, age, ticked, tripped, coolFor>>
      /\ UNCHANGED <<unsafeFor, warmAgo, trouble, inOrder>>
  BY <1>1 DEF WriteFile, Busy, Plans, TypeOK, guard, history
<1>4. /\ Writing \in Limits /\ Writing.pl1 <= Writing.pl2
      /\ Rounds(Writing.tau) \subseteq Nat
  BY WritingFact, SettingsFact, LimitsAssumption
<1>5. Head(todo) \in Files /\ v \in Nat
      /\ (Head(todo) # "tau" => v = Writing[Head(todo)])
  <2>1. Head(todo) \in Files
    BY <1>3, PlanFacts DEF Files
  <2>2. CASE Head(todo) = "tau"
    BY <1>2, <1>4, <2>1, <2>2 DEF Stored
  <2>3. CASE Head(todo) # "tau"
    BY <1>2, <1>4, <2>1, <2>3 DEF Stored, Limits, Files
  <2>4. QED
    BY <2>1, <2>2, <2>3
<1>6. /\ zone' \in Limits /\ zone'[Head(todo)] = v
      /\ \A g \in Files : g # Head(todo) => zone'[g] = zone[g]
  <2> DEFINE f == Head(todo)
  <2>1. f \in Files /\ v \in Nat
    BY <1>5
  <2>2. zone \in Limits
    BY <1>1 DEF TypeOK
  <2>3. zone' = [zone EXCEPT ![f] = v]
    BY <1>2
  <2> HIDE DEF f
  <2>4. /\ zone' \in Limits /\ zone'[f] = v
        /\ \A g \in Files : g # f => zone'[g] = zone[g]
    BY <2>1, <2>2, <2>3 DEF Limits, Files
  <2>5. QED
    BY <2>4 DEF f
<1>7. /\ phase' = IF todo' = <<>> /\ phase = "restoring" THEN "stopped" ELSE phase
      /\ todo' # <<>> => phase' = phase
  BY DEF WriteFile
<1>8. todo' # <<>> => Writing' = Writing
  BY <1>3, <1>7 DEF Writing, LimitsOf, Mode
<1>9. /\ todo = Raise => todo' = Raised /\ zone'.pl2 = Writing.pl2 /\ zone'.pl1 = zone.pl1
      /\ todo = Raised => todo' = Last /\ zone'.pl1 = Writing.pl1 /\ zone'.pl2 = zone.pl2
      /\ todo = Lower => todo' = Lowered /\ zone'.pl1 = Writing.pl1 /\ zone'.pl2 = zone.pl2
      /\ todo = Lowered => todo' = Last /\ zone'.pl2 = Writing.pl2 /\ zone'.pl1 = zone.pl1
      /\ todo = Last => todo' = <<>> /\ zone'.pl1 = zone.pl1 /\ zone'.pl2 = zone.pl2
  BY <1>3, <1>5, <1>6, PlanFacts DEF Files
<1>10. todo' \in {Raised, Lowered, Last, <<>>}
  BY <1>3, <1>9
<1>11. TypeOK'
  <2>1. phase' \in Phases /\ (todo' # <<>> => phase' \in {"running", "restoring"})
    BY <1>3, <1>7 DEF Phases
  <2>2. todo' \in Seq(Files)
    BY <1>10, PlanFacts DEF Plans
  <2>3. /\ applied' \in Modes \cup {"None"} /\ verifiedFor' \in Timer
        /\ problem' \in BOOLEAN /\ (applied' # "None" => verifiedFor' # Never)
    <3>1. CASE todo' = <<>> /\ phase = "running"
      <4>1. applied' = Mode /\ verifiedFor' = 0 /\ problem' = FALSE
        BY <3>1 DEF WriteFile, WriteDone
      <4>2. applied' \in Modes
        BY <4>1 DEF Mode, Modes
      <4>3. verifiedFor' \in Timer /\ verifiedFor' # Never
        BY <4>1 DEF Timer, Never
      <4>4. QED
        BY <4>1, <4>2, <4>3
    <3>2. CASE ~(todo' = <<>> /\ phase = "running")
      <4>1. UNCHANGED <<applied, verifiedFor, problem>>
        BY <3>2 DEF WriteFile
      <4>2. QED
        BY <1>1, <4>1 DEF TypeOK
    <3>3. QED
      BY <3>1, <3>2
  <2>4. QED
    BY <1>1, <1>3, <1>6, <2>1, <2>2, <2>3 DEF TypeOK
<1>12. Busy'
  BY <1>1, <1>3, <1>7, <1>10 DEF Busy, Plans
<1>13. Ordered'
  <2>1. SUFFICES ASSUME inOrder PROVE Ordered'
    BY <1>3 DEF Ordered
  <2>2. /\ zone.pl1 \in Nat /\ zone.pl2 \in Nat
        /\ Writing.pl1 \in Nat /\ Writing.pl2 \in Nat
    BY <1>1, <1>4 DEF TypeOK, Limits
  <2>3. CASE todo = Raise
    BY <1>1, <1>8, <1>9, <2>1, <2>2, <2>3, PlansDiffer, PlanFacts DEF Ordered
  <2>4. CASE todo = Raised
    BY <1>1, <1>4, <1>8, <1>9, <2>1, <2>2, <2>4, PlansDiffer, PlanFacts DEF Ordered
  <2>5. CASE todo = Lower
    BY <1>1, <1>4, <1>8, <1>9, <2>1, <2>2, <2>5, PlansDiffer, PlanFacts DEF Ordered
  <2>6. CASE todo = Lowered
    BY <1>1, <1>4, <1>8, <1>9, <2>1, <2>2, <2>6, PlansDiffer, PlanFacts DEF Ordered
  <2>7. CASE todo = Last
    BY <1>1, <1>9, <2>1, <2>2, <2>7, PlansDiffer, PlanFacts DEF Ordered
  <2>8. QED
    BY <1>3, <2>3, <2>4, <2>5, <2>6, <2>7
<1>14. phase = "restoring" => Writing = Stock
  BY DEF Writing
<1>15. Restored'
  <2>1. SUFFICES ASSUME phase' = "restoring" PROVE Restored'
    BY DEF Restored
  <2>2. phase = "restoring" /\ todo' # <<>>
    BY <1>3, <1>7, <2>1
  <2>3. QED
    BY <1>1, <1>3, <1>9, <1>14, <2>2, PlansDiffer, PlanFacts DEF Restored
<1>16. phase = "restoring" /\ phase' = "stopped" /\ trouble' # 0
         => Matches(Stock, zone')
  <2>1. SUFFICES ASSUME phase = "restoring", phase' = "stopped", trouble' # 0
                 PROVE  Matches(Stock, zone')
    OBVIOUS
  <2>2. todo = Last
    BY <1>3, <1>7, <1>9, <2>1, PlanFacts
  <2>3. zone'.pl1 = Stock.pl1 /\ zone'.pl2 = Stock.pl2
    BY <1>1, <1>3, <1>9, <2>1, <2>2 DEF Restored
  <2>4. zone'.tau \in Rounds(Stock.tau)
    BY <1>2, <1>6, <1>14, <2>1, <2>2, PlanFacts DEF Stored
  <2>5. QED
    BY <2>3, <2>4, RoundsAssumption DEF Matches
<1>17. CoolSince'
  BY <1>1, <1>3 DEF CoolSince
<1>18. QED
  BY <1>3, <1>11, <1>12, <1>13, <1>15, <1>16, <1>17 DEF IInv

\* A write fails: nothing is left to write.
LEMMA WriteFailsStep ==
  ASSUME IInv, WriteFails
  PROVE  IInv' /\ UNCHANGED tripped /\ trouble' = 0
<1>1. TypeOK /\ Busy /\ Ordered /\ Restored /\ CoolSince
  BY DEF IInv
<1>2. /\ todo' = <<>> /\ trouble' = 0
      /\ UNCHANGED <<zone, sample, age, ticked, tripped, coolFor>>
      /\ UNCHANGED <<unsafeFor, warmAgo, inOrder, applied, verifiedFor>>
      /\ phase' \in {"running", "stopped"} /\ problem' \in {problem, TRUE}
  BY DEF WriteFails, WriteFailed, guard
<1>3. TypeOK'
  <2>1. todo' \in Seq(Files) /\ phase' \in Phases /\ trouble' \in Timer
    BY <1>2, PlanFacts DEF Plans, Phases, Timer, Never
  <2>2. QED
    BY <1>1, <1>2, <2>1 DEF TypeOK
<1>4. Ordered'
  BY <1>1, <1>2, PlanFacts DEF Ordered
<1>5. Busy' /\ Restored' /\ CoolSince'
  BY <1>1, <1>2 DEF Busy, Plans, Restored, CoolSince
<1>6. QED
  BY <1>2, <1>3, <1>4, <1>5 DEF IInv

\* The unit's other steps: nothing has been written.
LEMMA LifeStep ==
  ASSUME IInv, Start \/ Begin \/ Stop
  PROVE  /\ IInv' /\ ~(phase = "restoring" /\ phase' = "stopped")
         /\ ~(phase = "running" /\ tripped /\ ~tripped')
<1>1. TypeOK /\ Busy /\ Ordered /\ Restored /\ CoolSince
  BY DEF IInv
<1>2. CASE Start
  <2>1. /\ phase = "stopped" /\ phase' = "starting" /\ tripped' = FALSE
        /\ coolFor' = Never /\ applied' = "None" /\ verifiedFor' = Never
        /\ problem' = FALSE /\ sample' = "NotYet" /\ age' = 0
        /\ ticked' = FALSE /\ unsafeFor' = Never /\ warmAgo' = Never
        /\ UNCHANGED <<zone, todo, trouble, inOrder>>
    BY <1>2 DEF Start, NewController
  <2>2. todo = <<>>
    BY <1>1, <2>1 DEF TypeOK
  <2>3. TypeOK'
    <3>1. todo' \in Seq(Files) /\ phase' \in Phases
      BY <1>1, <2>1 DEF TypeOK, Phases
    <3>2. /\ {coolFor', verifiedFor', unsafeFor', warmAgo', trouble'} \subseteq Timer
          /\ age' \in Nat
      BY <1>1, <2>1 DEF TypeOK, Timer, Never
    <3>3. QED
      BY <1>1, <2>1, <2>2, <3>1, <3>2 DEF TypeOK
  <2>4. Ordered'
    BY <1>1, <2>1, <2>2, PlanFacts DEF Ordered
  <2>5. Busy' /\ Restored' /\ CoolSince'
    BY <1>1, <2>1, <2>2 DEF Busy, Restored, CoolSince
  <2>6. QED
    BY <2>1, <2>3, <2>4, <2>5 DEF IInv
<1>3. CASE Begin \/ Stop
  <2>1. /\ UNCHANGED <<zone, sample, age, ticked, tripped, coolFor>>
        /\ UNCHANGED <<applied, verifiedFor, problem>>
        /\ UNCHANGED <<unsafeFor, warmAgo, trouble, inOrder>>
    BY <1>3 DEF Begin, Stop, controller, guard, history
  <2>2. /\ phase \in {"starting", "running"} /\ phase' \in {"running", "stopping"}
        /\ todo' = <<>>
    BY <1>1, <1>3 DEF Begin, Stop, TypeOK
  <2>3. TypeOK'
    <3>1. todo' \in Seq(Files) /\ phase' \in Phases
      BY <2>2, PlanFacts DEF Plans, Phases
    <3>2. QED
      BY <1>1, <2>1, <2>2, <3>1 DEF TypeOK
  <2>4. Ordered'
    BY <1>1, <2>1, <2>2, PlanFacts DEF Ordered
  <2>5. Busy' /\ Restored' /\ CoolSince'
    BY <1>1, <2>1, <2>2 DEF Busy, Plans, Restored, CoolSince
  <2>6. QED
    BY <2>1, <2>2, <2>3, <2>4, <2>5 DEF IInv
<1>4. QED
  BY <1>2, <1>3

\* The fail-safe begins, or fails before its first write.
LEMMA RestoreStockStep ==
  ASSUME IInv, RestoreStock
  PROVE  IInv' /\ UNCHANGED tripped /\ phase # "restoring"
<1>1. TypeOK /\ Busy /\ Ordered /\ CoolSince
  BY DEF IInv
<1>2. /\ phase = "stopping" /\ todo = <<>>
      /\ UNCHANGED <<zone, sample, age, ticked, tripped, coolFor>>
      /\ UNCHANGED <<applied, verifiedFor, problem, unsafeFor, warmAgo>>
  BY <1>1 DEF RestoreStock, TypeOK, controller, guard
<1>3. CASE phase' = "restoring" /\ BeginWrite(Stock) /\ UNCHANGED trouble
  <2>1. Writing' = Stock
    BY <1>3 DEF Writing
  <2>2. /\ todo' \in {Raise, Lower}
        /\ inOrder' = (zone.pl1 <= zone.pl2)
        /\ todo' = Raise => zone.pl2 <= Stock.pl2
        /\ todo' = Lower => Stock.pl2 <= zone.pl2
    BY <1>1, <1>3, SettingsFact, BeginFact DEF TypeOK
  <2>3. TypeOK'
    <3>1. todo' \in Seq(Files) /\ phase' \in Phases /\ inOrder' \in BOOLEAN
      BY <1>3, <2>2, PlanFacts DEF Plans, Phases
    <3>2. QED
      BY <1>1, <1>2, <1>3, <2>2, <3>1 DEF TypeOK
  <2>4. Ordered'
    BY <1>2, <2>1, <2>2, PlansDiffer DEF Ordered
  <2>5. Busy' /\ Restored' /\ CoolSince'
    BY <1>1, <1>2, <1>3, <2>2, PlansDiffer, PlanFacts
       DEF Busy, Plans, Restored, CoolSince
  <2>6. QED
    BY <1>2, <2>3, <2>4, <2>5 DEF IInv
<1>4. CASE phase' = "stopped" /\ trouble' = 0 /\ UNCHANGED <<todo, inOrder>>
  <2>1. TypeOK'
    BY <1>1, <1>2, <1>4 DEF TypeOK, Phases, Timer, Never
  <2>2. Ordered'
    BY <1>1, <1>2, <1>4, PlanFacts DEF Ordered
  <2>3. Busy' /\ Restored' /\ CoolSince'
    BY <1>1, <1>2, <1>4 DEF Busy, Restored, CoolSince
  <2>4. QED
    BY <1>2, <2>1, <2>2, <2>3 DEF IInv
<1>5. QED
  BY <1>3, <1>4 DEF RestoreStock

\* A sweep, somebody else's write, and time.
LEMMA SurroundingsStep ==
  ASSUME IInv,
         \/ \E s \in Samples : Sweep(s)
         \/ \E file \in Files, l \in Others : Meddle(file, l)
         \/ Elapse
  PROVE  IInv' /\ UNCHANGED tripped /\ UNCHANGED phase
<1>1. TypeOK /\ Busy /\ Ordered /\ Restored /\ CoolSince
  BY DEF IInv
<1>2. ASSUME NEW s \in Samples, Sweep(s)
      PROVE  IInv' /\ UNCHANGED tripped /\ UNCHANGED phase
  <2>1. /\ sample' = s /\ age' = 0
        /\ UNCHANGED <<phase, zone, todo, ticked, tripped, coolFor>>
        /\ UNCHANGED <<applied, verifiedFor, problem, warmAgo, trouble, inOrder>>
    BY <1>2 DEF Sweep, controller, guard
  <2>2. unsafeFor' \in Timer
    BY <1>1, <1>2, WatchedFact DEF Sweep, TypeOK
  <2>3. TypeOK'
    BY <1>1, <2>1, <2>2 DEF TypeOK
  <2>4. Ordered'
    BY <1>1, <2>1 DEF Ordered, Writing, LimitsOf, Mode
  <2>5. Busy' /\ Restored' /\ CoolSince'
    BY <1>1, <2>1 DEF Busy, Restored, CoolSince
  <2>6. QED
    BY <2>1, <2>3, <2>4, <2>5 DEF IInv
<1>3. ASSUME NEW file \in Files, NEW l \in Others, Meddle(file, l)
      PROVE  IInv' /\ UNCHANGED tripped /\ UNCHANGED phase
  <2>1. /\ zone' = [zone EXCEPT ![file] = l[file]] /\ trouble' = 0
        /\ inOrder' = (inOrder /\ todo = <<>> /\ zone'.pl1 <= zone'.pl2)
        /\ UNCHANGED <<phase, todo, sample, age, ticked, tripped, coolFor>>
        /\ UNCHANGED <<applied, verifiedFor, problem, unsafeFor, warmAgo>>
    BY <1>3 DEF Meddle, controller, guard
  <2>2. l[file] \in Nat
    BY LimitsAssumption DEF Limits, Files
  <2>3. zone' \in Limits
    <3>1. zone \in Limits /\ zone' = [zone EXCEPT ![file] = l[file]]
      BY <1>1, <2>1 DEF TypeOK
    <3>2. QED
      BY <2>2, <3>1 DEF Limits, Files
  <2>4. TypeOK'
    <3>1. inOrder' \in BOOLEAN /\ trouble' \in Timer
      BY <2>1 DEF Timer, Never
    <3>2. QED
      BY <1>1, <2>1, <2>3, <3>1 DEF TypeOK
  <2>5. Ordered'
    BY <2>1, PlanFacts DEF Ordered
  <2>6. Busy' /\ Restored' /\ CoolSince'
    BY <1>1, <2>1 DEF Busy, Restored, CoolSince
  <2>7. QED
    BY <2>1, <2>4, <2>5, <2>6 DEF IInv
<1>4. ASSUME Elapse
      PROVE  IInv' /\ UNCHANGED tripped /\ UNCHANGED phase
  <2>1. /\ todo = <<>> /\ ticked' = FALSE /\ phase # "restoring"
        /\ age' = Older(age, LastAge) /\ coolFor' = Older(coolFor, Rearm)
        /\ verifiedFor' = Older(verifiedFor, VerifyEvery)
        /\ warmAgo' = Older(warmAgo, Rearm) /\ trouble' = Older(trouble, VerifyEvery)
        /\ UNCHANGED <<phase, zone, todo, sample, tripped, applied, problem, inOrder>>
    BY <1>4 DEF Elapse
  <2>2. age \in Timer /\ age # Never
    BY <1>1 DEF TypeOK, Timer, Never
  <2>3. /\ {coolFor', verifiedFor', warmAgo', trouble'} \subseteq Timer
        /\ coolFor = Never <=> coolFor' = Never
        /\ verifiedFor = Never <=> verifiedFor' = Never
        /\ warmAgo = Never <=> warmAgo' = Never
        /\ age' \in Timer /\ age' # Never
    <3>1. {coolFor, verifiedFor, warmAgo, trouble} \subseteq Timer
      BY <1>1 DEF TypeOK
    <3>2. {LastAge, Rearm, VerifyEvery} \subseteq Nat
      BY LastAgeFact, TimesAssumption
    <3>3. coolFor' \in Timer /\ (coolFor = Never <=> coolFor' = Never)
      BY <2>1, <3>1, <3>2, OlderFact
    <3>4. verifiedFor' \in Timer /\ (verifiedFor = Never <=> verifiedFor' = Never)
      BY <2>1, <3>1, <3>2, OlderFact
    <3>5. warmAgo' \in Timer /\ (warmAgo = Never <=> warmAgo' = Never)
      BY <2>1, <3>1, <3>2, OlderFact
    <3>6. trouble' \in Timer /\ (trouble = Never <=> trouble' = Never)
      BY <2>1, <3>1, <3>2, OlderFact
    <3>7. age' \in Timer /\ age' # Never
      BY <2>1, <2>2, <3>2, OlderFact
    <3>8. QED
      BY <3>3, <3>4, <3>5, <3>6, <3>7
  <2>4. age' \in Nat
    BY <2>3 DEF Timer, Never
  <2>5. unsafeFor' \in Timer
    BY <1>1, <1>4, WatchedFact DEF Elapse, TypeOK
  <2>6. TypeOK'
    BY <1>1, <2>1, <2>3, <2>4, <2>5 DEF TypeOK
  <2>7. Ordered'
    BY <1>1, <2>1, PlanFacts DEF Ordered
  <2>8. Busy' /\ Restored'
    BY <1>1, <2>1 DEF Busy, Restored
  <2>9. CoolSince'
    <3>1. Rearm \in Nat /\ coolFor \in Timer /\ warmAgo \in Timer
      BY <1>1, TimesAssumption DEF TypeOK
    <3>2. SUFFICES ASSUME tripped PROVE coolFor' <= warmAgo'
      BY <1>1, <2>1, <2>3 DEF CoolSince
    <3>3. coolFor <= warmAgo /\ warmAgo # Never
      BY <1>1, <3>2 DEF CoolSince
    <3>4. QED
      BY <2>1, <3>1, <3>3 DEF Older, Timer, Never
  <2>10. QED
    BY <2>1, <2>6, <2>7, <2>8, <2>9 DEF IInv
<1>5. QED
  BY <1>2, <1>3, <1>4

-----------------------------------------------------------------------------
(* What is kept of the controller's work. *)

\* Two clocks that count alike keep their order.
LEMMA OlderOrder ==
  ASSUME NEW s \in Timer, NEW t \in Timer, s # Never, t # Never,
         Older(s, VerifyEvery) < Older(t, VerifyEvery)
  PROVE  s < t
BY TimesAssumption DEF Older, Timer, Never

\* A sample that nobody can trust is one the guard takes for unsafe.
LEMMA UntrustedFact ==
  ASSUME TypeOK, Untrusted
  PROVE  Unsafe
BY DEF Untrusted, Unsafe, Reading, TypeOK, Samples

\* A tick writes what is not applied, and only while something is wrong what is.
LEMMA TickKept ==
  ASSUME IInv, IInv', Kept, Tick
  PROVE  Kept' /\ (Calm' /\ todo' # <<>> => applied # Mode')
<1>1. PICK readable \in BOOLEAN :
        /\ applied' = Verified(readable)
        /\ TickStays(readable) \/ TickWrites(readable) \/ TickRefused(readable)
  BY DEF Tick
<1>2. /\ phase = "running" /\ phase' = "running" /\ todo = <<>> /\ ~ticked /\ ticked' = TRUE
      /\ verifiedFor' = (IF VerifyDue THEN 0 ELSE verifiedFor)
      /\ UNCHANGED <<zone, sample, age, unsafeFor>>
  BY DEF Tick, IInv, Busy
<1>3. /\ verifiedFor \in Timer /\ trouble \in Timer /\ ticked \in BOOLEAN
      /\ VerifyEvery \in Nat \ {0} /\ (applied # "None" => verifiedFor # Never)
  BY TimesAssumption DEF IInv, TypeOK
<1>4. todo' \in {<<>>, Raise, Lower} /\ trouble' \in {0, trouble}
  <2>1. CASE TickWrites(readable)
    <3>1. todo' = WritePlan(LimitsOf(Mode')) /\ trouble' \in {0, trouble}
      BY <2>1 DEF TickWrites, BeginWrite
    <3> QED
      BY <3>1 DEF WritePlan, Raise, Lower
  <2>2. CASE TickStays(readable) \/ TickRefused(readable)
    BY <1>2, <2>2 DEF TickStays, TickRefused
  <2> QED
    BY <1>1, <2>1, <2>2
<1>5. applied' \in {applied, "None"} /\ (~VerifyDue => applied' = applied)
  BY <1>1 DEF Verified
<1>6. Written'
  BY <1>4, PlansDiffer, PlanFacts DEF Written
<1>7. AsVerified'
  <2> SUFFICES ASSUME applied' # "None", trouble' = Never \/ verifiedFor' < trouble'
               PROVE  Matches(LimitsOf(applied'), zone)
    BY <1>2 DEF AsVerified
  <2>1. applied' = applied
    BY <1>5
  <2>2. CASE VerifyDue
    BY <1>1, <2>1, <2>2 DEF Verified
  <2>3. CASE ~VerifyDue
    <3>1. trouble = Never \/ verifiedFor < trouble
      BY <1>2, <1>3, <1>4, <2>1, <2>3 DEF Timer, Never
    <3> QED
      BY <1>2, <2>1, <3>1 DEF Kept, AsVerified
  <2> QED
    BY <2>2, <2>3
<1>8. InTime'
  BY <1>2, <1>3, <1>5 DEF InTime, VerifyDue, Timer, Never
<1>9. UpToDate'
  <2> SUFFICES ASSUME todo' = <<>>, trouble' # 0 PROVE applied' = Mode'
    BY <1>2 DEF UpToDate
  <2>1. TickStays(readable)
    BY <1>1, PlanFacts DEF TickWrites, TickRefused, BeginWrite, WritePlan, Raise, Lower
  <2> QED
    BY <1>1, <2>1 DEF TickStays
<1>10. HotTrips'
  <2>1. (unsafeFor # Never => Untrusted) /\ unsafeFor \in Timer
    BY DEF Kept, HotTrips, IInv, TypeOK
  <2>2. Untrusted' <=> Untrusted
    BY <1>2 DEF Untrusted
  <2>3. ASSUME unsafeFor >= 1 PROVE tripped'
    <3>1. Unsafe
      <4>1. Untrusted
        BY <2>1, <2>3 DEF Timer, Never
      <4> QED
        BY <4>1, UntrustedFact DEF IInv
    <3> QED
      BY <3>1 DEF Tick, Observe, Unsafe
  <2> QED
    BY <1>2, <2>1, <2>2, <2>3 DEF HotTrips
<1>11. ASSUME Calm', todo' # <<>> PROVE applied # Mode'
  <2> SUFFICES ASSUME applied = Mode' PROVE FALSE
    OBVIOUS
  <2>1. TickWrites(readable)
    BY <1>1, <1>2, <1>11 DEF TickStays, TickRefused
  <2>2. trouble' # 0
    BY <1>3, <1>11 DEF Calm, Never
  <2>3. Verified(readable) # applied
    BY <2>1 DEF TickWrites
  <2>4. VerifyDue /\ ~(readable /\ Matches(LimitsOf(applied), zone))
    BY <2>3 DEF Verified
  <2>5. readable /\ trouble' = trouble
    BY <2>1, <2>2, <2>4 DEF TickWrites
  <2>6. applied # "None" /\ verifiedFor <= VerifyEvery
    BY <1>2, <1>3, <2>4 DEF VerifyDue, Kept, InTime, Timer, Never
  <2>7. trouble = Never \/ verifiedFor < trouble
    BY <1>3, <1>11, <2>5, <2>6 DEF Calm, Timer, Never
  <2> QED
    BY <1>2, <2>4, <2>5, <2>6, <2>7 DEF Kept, AsVerified
<1> QED
  BY <1>6, <1>7, <1>8, <1>9, <1>10, <1>11 DEF Kept

\* The last file written leaves the limits the guard asks for.
LEMMA WriteFileKept ==
  ASSUME IInv, IInv', Kept, WriteFile
  PROVE  Kept'
<1>1. PICK v \in Stored(Head(todo)) : zone' = [zone EXCEPT ![Head(todo)] = v]
  BY DEF WriteFile
<1>2. /\ todo \in {Raise, Raised, Lower, Lowered, Last}
      /\ todo' = Tail(todo) /\ phase \in {"running", "restoring"}
      /\ UNCHANGED <<sample, age, ticked, tripped, coolFor>>
      /\ UNCHANGED <<unsafeFor, warmAgo, trouble, inOrder>>
  BY DEF WriteFile, IInv, Busy, Plans, TypeOK, guard, history
<1>3. /\ phase' = (IF todo' = <<>> /\ phase = "restoring" THEN "stopped" ELSE phase)
      /\ IF todo' = <<>> /\ phase = "running"
         THEN applied' = Mode /\ verifiedFor' = 0
         ELSE UNCHANGED <<applied, verifiedFor>>
  BY DEF WriteFile, WriteDone
<1>4. zone \in Limits
  BY DEF IInv, TypeOK
<1>5. /\ todo = Raise => todo' = Raised /\ zone'.pl2 = Writing.pl2
      /\ todo = Raised => todo' = Last /\ zone'.pl1 = Writing.pl1 /\ zone'.pl2 = zone.pl2
      /\ todo = Lower => todo' = Lowered /\ zone'.pl1 = Writing.pl1
      /\ todo = Lowered => todo' = Last /\ zone'.pl2 = Writing.pl2 /\ zone'.pl1 = zone.pl1
      /\ todo = Last => /\ todo' = <<>> /\ zone'.pl1 = zone.pl1 /\ zone'.pl2 = zone.pl2
                        /\ zone'.tau \in Rounds(Writing.tau)
  <2>1. Head(todo) \in Files
    BY <1>2, PlanFacts DEF Files
  <2>2. Head(todo) # "tau" => v = Writing[Head(todo)]
    BY <1>1 DEF Stored
  <2>3. zone'[Head(todo)] = v /\ \A g \in Files : g # Head(todo) => zone'[g] = zone[g]
    <3> DEFINE f == Head(todo)
    <3>1. f \in Files /\ zone' = [zone EXCEPT ![f] = v]
      BY <1>1, <2>1
    <3> HIDE DEF f
    <3>2. zone'[f] = v /\ \A g \in Files : g # f => zone'[g] = zone[g]
      BY <1>4, <3>1 DEF Limits, Files
    <3> QED
      BY <3>2 DEF f
  <2>4. Head(todo) = "tau" => v \in Rounds(Writing.tau)
    BY <1>1 DEF Stored
  <2> QED
    BY <1>2, <2>2, <2>3, <2>4, PlanFacts DEF Files
<1>6. todo' # <<>> => Writing' = Writing
  BY <1>2, <1>3 DEF Writing, LimitsOf, Mode
<1>7. phase' = "running" => phase = "running" /\ ticked
  <2>1. todo # <<>>
    BY <1>2, PlanFacts
  <2> QED
    BY <1>3, <2>1 DEF IInv, Busy
<1>8. Written'
  <2> SUFFICES ASSUME phase' = "running", trouble # 0
               PROVE  /\ todo' \in {Raised, Last} => zone'.pl2 = Writing'.pl2
                      /\ todo' \in {Lowered, Last} => zone'.pl1 = Writing'.pl1
    BY <1>2 DEF Written
  <2>1. /\ todo \in {Raised, Last} => zone.pl2 = Writing.pl2
        /\ todo \in {Lowered, Last} => zone.pl1 = Writing.pl1
    BY <1>7 DEF Kept, Written
  <2> QED
    BY <1>2, <1>5, <1>6, <2>1, PlansDiffer, PlanFacts
<1>9. Mode' = Mode
  BY <1>2 DEF Mode
<1>10. AsVerified'
  <2> SUFFICES ASSUME phase' = "running", todo' = <<>>, applied' # "None",
                      trouble = Never \/ verifiedFor' < trouble
               PROVE  Matches(LimitsOf(applied'), zone')
    BY <1>2 DEF AsVerified
  <2>1. phase = "running" /\ todo = Last
    BY <1>2, <1>5, <1>7, PlanFacts
  <2>2. applied' = Mode /\ verifiedFor' = 0
    BY <1>3, <2>1
  <2>3. trouble # 0
    BY <2>2 DEF Never
  <2>4. zone.pl2 = Writing.pl2 /\ zone.pl1 = Writing.pl1
    BY <2>1, <2>3 DEF Kept, Written
  <2>5. Writing = LimitsOf(Mode) /\ Writing \in {Configured, Stock}
    BY <2>1, WritingFact DEF Writing
  <2>6. /\ zone'.pl1 = Writing.pl1 /\ zone'.pl2 = Writing.pl2
        /\ zone'.tau \in Rounds(Writing.tau)
    BY <1>5, <2>1, <2>4
  <2>7. Matches(Writing, zone')
    BY <2>5, <2>6, RoundsAssumption DEF Matches
  <2> QED
    BY <2>2, <2>5, <2>7
<1>11. InTime'
  <2>1. CASE todo' = <<>> /\ phase = "running"
    BY <1>3, <2>1, TimesAssumption DEF InTime
  <2>2. CASE ~(todo' = <<>> /\ phase = "running")
    BY <1>2, <1>3, <1>7, <2>2 DEF InTime, Kept
  <2> QED
    BY <2>1, <2>2
<1>12. UpToDate'
  <2>1. phase' # "starting"
    BY <1>2, <1>3
  <2>2. phase' = "running" /\ todo' = <<>> => applied' = Mode
    BY <1>3, <1>7
  <2> QED
    BY <1>9, <2>1, <2>2 DEF UpToDate
<1>13. HotTrips'
  BY <1>2 DEF Kept, HotTrips, Untrusted
<1> QED
  BY <1>8, <1>10, <1>11, <1>12, <1>13 DEF Kept

\* What the other steps of the program and its unit leave of it.
LEMMA OthersKept ==
  ASSUME IInv, IInv', Kept, WriteFails \/ Start \/ Begin \/ Stop \/ RestoreStock
  PROVE  Kept' /\ (phase = "running" => todo' = <<>>)
<1>1. /\ verifiedFor \in Timer /\ trouble \in Timer
      /\ applied # "None" => verifiedFor # Never
      /\ todo # <<>> => phase \in {"running", "restoring"}
  BY DEF IInv, TypeOK
<1>2. CASE WriteFails
  <2>1. /\ todo' = <<>> /\ trouble' = 0 /\ phase' \in {"running", "stopped"}
        /\ phase' = "running" => phase = "running"
        /\ UNCHANGED <<zone, sample, age, ticked, tripped, coolFor>>
        /\ UNCHANGED <<unsafeFor, warmAgo, inOrder, applied, verifiedFor>>
    BY <1>2 DEF WriteFails, WriteFailed, guard
  <2>2. Written' /\ UpToDate'
    BY <2>1 DEF Written, UpToDate
  <2>3. AsVerified'
    BY <1>1, <2>1 DEF AsVerified, Timer, Never
  <2>4. InTime' /\ HotTrips'
    BY <2>1 DEF Kept, InTime, HotTrips, Untrusted
  <2> QED
    BY <2>1, <2>2, <2>3, <2>4 DEF Kept
<1>3. CASE Start
  <2>1. /\ phase = "stopped" /\ phase' = "starting" /\ applied' = "None" /\ ticked' = FALSE
        /\ unsafeFor' = Never
    BY <1>3 DEF Start, NewController
  <2>2. Written' /\ AsVerified' /\ InTime' /\ UpToDate'
    BY <2>1 DEF Written, AsVerified, InTime, UpToDate
  <2>3. HotTrips'
    BY <2>1 DEF HotTrips, Never
  <2> QED
    BY <2>1, <2>2, <2>3 DEF Kept
<1>4. CASE Begin
  <2>1. /\ phase = "starting" /\ phase' = "running"
        /\ UNCHANGED <<zone, todo, sample, age, ticked, tripped, applied, unsafeFor>>
    BY <1>4 DEF Begin, controller, guard, history
  <2>2. ~ticked /\ applied = "None" /\ todo = <<>>
    BY <1>1, <2>1 DEF Kept, UpToDate
  <2>3. Written' /\ AsVerified' /\ InTime' /\ UpToDate'
    BY <2>1, <2>2, PlanFacts DEF Written, AsVerified, InTime, UpToDate
  <2>4. HotTrips'
    BY <2>1 DEF Kept, HotTrips, Untrusted
  <2> QED
    BY <2>1, <2>3, <2>4 DEF Kept
<1>5. CASE Stop \/ RestoreStock
  <2>1. /\ phase' \notin {"running", "starting"} /\ (phase = "running" => todo' = <<>>)
        /\ UNCHANGED <<sample, age, ticked, tripped, unsafeFor>>
    BY <1>5 DEF Stop, RestoreStock, controller, guard, history
  <2>2. Written' /\ AsVerified' /\ InTime' /\ UpToDate'
    BY <2>1 DEF Written, AsVerified, InTime, UpToDate
  <2>3. HotTrips'
    BY <2>1 DEF Kept, HotTrips, Untrusted
  <2> QED
    BY <2>1, <2>2, <2>3 DEF Kept
<1> QED
  BY <1>2, <1>3, <1>4, <1>5

\* A sweep, somebody else's write, and time.
LEMMA SurroundingsKept ==
  ASSUME IInv, IInv', Kept,
         \/ \E s \in Samples : Sweep(s)
         \/ \E file \in Files, l \in Others : Meddle(file, l)
         \/ Elapse
  PROVE  Kept' /\ UNCHANGED todo
<1>1. /\ verifiedFor \in Timer /\ trouble \in Timer /\ unsafeFor \in Timer
      /\ applied # "None" => verifiedFor # Never
      /\ VerifyEvery \in Nat \ {0} /\ ticked \in BOOLEAN
  BY TimesAssumption DEF IInv, TypeOK
<1>2. ASSUME NEW s \in Samples, Sweep(s)
      PROVE  Kept' /\ UNCHANGED todo
  <2>1. /\ UNCHANGED <<phase, zone, todo, ticked, tripped, applied, verifiedFor, trouble>>
        /\ Watched(0)
    BY <1>2 DEF Sweep, controller, guard
  <2>2. Written' /\ AsVerified' /\ InTime' /\ UpToDate'
    BY <2>1 DEF Kept, Written, Writing, LimitsOf, Mode, AsVerified, InTime, UpToDate
  <2>3. /\ unsafeFor' # Never => Untrusted'
        /\ unsafeFor' >= 1 => unsafeFor >= 1
    BY <1>1, <2>1 DEF Watched, Timer, Never
  <2> QED
    BY <2>1, <2>2, <2>3 DEF Kept, HotTrips
<1>3. ASSUME NEW file \in Files, NEW l \in Others, Meddle(file, l)
      PROVE  Kept' /\ UNCHANGED todo
  <2>1. /\ trouble' = 0
        /\ UNCHANGED <<phase, todo, sample, age, ticked, tripped, applied, verifiedFor, unsafeFor>>
    BY <1>3 DEF Meddle, controller, guard
  <2>2. Written' /\ UpToDate' /\ InTime'
    BY <2>1 DEF Kept, Written, UpToDate, InTime
  <2>3. AsVerified'
    BY <1>1, <2>1 DEF AsVerified, Timer, Never
  <2>4. HotTrips'
    BY <2>1 DEF Kept, HotTrips, Untrusted
  <2> QED
    BY <2>1, <2>2, <2>3, <2>4 DEF Kept
<1>4. ASSUME Elapse
      PROVE  Kept' /\ UNCHANGED todo
  <2>1. /\ todo = <<>> /\ ticked' = FALSE /\ (phase = "running" => ticked)
        /\ verifiedFor' = Older(verifiedFor, VerifyEvery)
        /\ trouble' = Older(trouble, VerifyEvery)
        /\ UNCHANGED <<phase, zone, todo, tripped, applied>> /\ Watched(1)
    BY <1>4 DEF Elapse
  <2>2. Written' /\ UpToDate'
    BY <2>1, PlanFacts DEF Kept, Written, UpToDate
  <2>3. AsVerified'
    <3> SUFFICES ASSUME phase = "running", applied # "None",
                        trouble' = Never \/ verifiedFor' < trouble'
                 PROVE  trouble = Never \/ verifiedFor < trouble
      BY <2>1 DEF Kept, AsVerified
    <3>1. trouble' = Never => trouble = Never
      BY <1>1, <2>1, OlderFact
    <3> QED
      BY <1>1, <2>1, <3>1, OlderOrder
  <2>4. InTime'
    BY <1>1, <2>1 DEF Kept, InTime, Older, Timer, Never
  <2>5. unsafeFor' # Never => Untrusted'
    BY <2>1 DEF Watched
  <2> QED
    BY <2>1, <2>2, <2>3, <2>4, <2>5 DEF Kept, HotTrips
<1> QED
  BY <1>2, <1>3, <1>4

-----------------------------------------------------------------------------
(* The theorems. *)

\* What no step of the program does: re-arm too early, or stop elsewhere than
\* at stock.
Keeps ==
  /\ phase = "running" /\ tripped /\ ~tripped' => warmAgo >= Rearm
  /\ phase = "restoring" /\ phase' = "stopped" /\ trouble' # 0
       => Matches(Stock, zone')

LEMMA InitIInv ==
  ASSUME Init
  PROVE  IInv
<1>1. zone \in Limits
  BY LimitsAssumption DEF Init
<1>2. TypeOK
  <2>1. todo \in Seq(Files) /\ phase \in Phases /\ inOrder \in BOOLEAN
    BY PlanFacts DEF Init, Plans, Phases
  <2>2. {coolFor, verifiedFor, unsafeFor, warmAgo, trouble} \subseteq Timer
    BY DEF Init, Timer, Never
  <2>3. QED
    BY <1>1, <2>1, <2>2 DEF Init, TypeOK
<1>3. Ordered
  BY PlanFacts DEF Init, Ordered
<1>4. Busy /\ Restored /\ CoolSince
  BY DEF Init, Busy, Plans, Restored, CoolSince
<1>5. QED
  BY <1>2, <1>3, <1>4 DEF IInv

LEMMA NextIInv ==
  ASSUME IInv, [Next]_vars
  PROVE  IInv' /\ (~UNCHANGED vars => Keeps)
<1>1. CASE Tick
  BY <1>1, TickStep DEF Tick, Keeps
<1>2. CASE WriteFile
  BY <1>2, WriteFileStep DEF Keeps
<1>3. CASE WriteFails
  BY <1>3, WriteFailsStep DEF Keeps
<1>4. CASE Start \/ Begin \/ Stop
  BY <1>4, LifeStep DEF Keeps
<1>5. CASE RestoreStock
  BY <1>5, RestoreStockStep DEF Keeps
<1>6. CASE \/ \E s \in Samples : Sweep(s)
           \/ \E file \in Files, l \in Others : Meddle(file, l)
           \/ Elapse
  <2>1. IInv' /\ UNCHANGED tripped /\ UNCHANGED phase
    BY <1>6, SurroundingsStep
  <2>2. QED
    BY <2>1 DEF Keeps
<1>7. CASE UNCHANGED vars
  BY <1>7 DEF vars, controller, guard, history, IInv, TypeOK, Busy, Ordered,
              Restored, CoolSince, Writing, LimitsOf, Mode
<1>8. QED
  BY <1>1, <1>2, <1>3, <1>4, <1>5, <1>6, <1>7 DEF Next

\* The inductive invariant: types, where a write is and what it has done so
\* far, and the guard's clock.
THEOREM InductiveInvariant == Spec => []IInv
BY InitIInv, NextIInv, PTL DEF Spec

\* Type correctness.
THEOREM TypeCorrect == Spec => []TypeOK
<1>1. IInv => TypeOK
  BY DEF IInv
<1>2. QED
  BY <1>1, InductiveInvariant, PTL

\* PL1 never exceeds PL2 in between, whatever the settings, wherever a write
\* is cut off, and whoever writes: the comment of write_plan.
THEOREM NeverAbove == Spec => []PL1BelowPL2
<1>1. IInv => PL1BelowPL2
  BY DEF IInv, Ordered, PL1BelowPL2
<1>2. QED
  BY <1>1, InductiveInvariant, PTL

\* The configured limits come back only after Rearm without a tick that saw a
\* sensor that was not cool.
THEOREM RearmsOnlyLate == Spec => RearmsLate
<1>1. IInv /\ [Next]_vars =>
        [phase = "running" /\ tripped /\ ~tripped' => warmAgo >= Rearm]_vars
  BY NextIInv DEF Keeps
<1>2. QED
  BY <1>1, InductiveInvariant, PTL DEF Spec, RearmsLate

\* The fail-safe leaves stock limits behind, wherever it found the zone.
THEOREM StockAfterStop == Spec => StopsAtStock
<1>1. IInv /\ [Next]_vars =>
        [phase = "restoring" /\ phase' = "stopped" /\ trouble' # 0
           => Matches(Stock, zone')]_vars
  BY NextIInv DEF Keeps
<1>2. QED
  BY <1>1, InductiveInvariant, PTL DEF Spec, StopsAtStock

LEMMA InitKept ==
  ASSUME Init
  PROVE  Kept
BY PlanFacts DEF Init, Kept, Written, AsVerified, InTime, UpToDate, HotTrips, Never

\* What a tick does not write: what is applied, while nothing is wrong.
WritesToChange == Calm' /\ phase = "running" /\ todo = <<>> /\ todo' # <<>> => applied # Mode'

LEMMA NextKept ==
  ASSUME IInv, Kept, [Next]_vars
  PROVE  IInv' /\ Kept' /\ (~UNCHANGED vars => WritesToChange)
<1>1. IInv'
  BY NextIInv
<1>2. CASE Tick
  BY <1>1, <1>2, TickKept DEF WritesToChange
<1>3. CASE WriteFile
  <2>1. todo # <<>>
    BY <1>3 DEF WriteFile
  <2> QED
    BY <1>1, <1>3, <2>1, WriteFileKept DEF WritesToChange
<1>4. CASE WriteFails \/ Start \/ Begin \/ Stop \/ RestoreStock
  BY <1>1, <1>4, OthersKept DEF WritesToChange
<1>5. CASE \/ \E s \in Samples : Sweep(s)
           \/ \E file \in Files, l \in Others : Meddle(file, l)
           \/ Elapse
  BY <1>1, <1>5, SurroundingsKept DEF WritesToChange
<1>6. CASE UNCHANGED vars
  BY <1>1, <1>6 DEF vars, controller, guard, history, Kept, Written, Writing, LimitsOf, Mode,
                    AsVerified, InTime, UpToDate, HotTrips, Untrusted
<1> QED
  BY <1>1, <1>2, <1>3, <1>4, <1>5, <1>6 DEF Next

\* The second part of the inductive invariant: what has been written and
\* verified is still there while nothing has gone wrong since, and the guard
\* has seen what is critical.
THEOREM WorkIsKept == Spec => [](IInv /\ Kept)
BY InitIInv, InitKept, NextKept, PTL DEF Spec

\* The zone has the limits the guard asks for, within the time of verifying
\* after anything that went wrong (Controller::tick, verify).
THEOREM LimitsAsAsked == Spec => []AsAsked
<1>1. IInv /\ Kept => AsAsked
  <2> SUFFICES ASSUME IInv, Kept, Settled PROVE Matches(LimitsOf(Mode), zone)
    BY DEF AsAsked
  <2>1. /\ Calm /\ phase = "running" /\ ticked /\ todo = <<>>
        /\ verifiedFor \in Timer /\ trouble \in Timer /\ VerifyEvery \in Nat \ {0}
    BY TimesAssumption DEF Settled, IInv, TypeOK
  <2>2. trouble # 0
    BY <2>1 DEF Calm, Never
  <2>3. applied = Mode /\ applied # "None"
    BY <2>1, <2>2 DEF Kept, UpToDate, Mode
  <2>4. trouble = Never \/ verifiedFor < trouble
    BY <2>1, <2>3 DEF Kept, InTime, Calm, Timer, Never
  <2> QED
    BY <2>1, <2>3, <2>4 DEF Kept, AsVerified
<1> QED
  BY <1>1, WorkIsKept, PTL

\* A second of a critical sensor, or of no reading, has the limits at stock
\* (Guard::observe).
THEOREM StockWhenHot == Spec => []HotIsStock
<1>1. IInv /\ Kept /\ AsAsked => HotIsStock
  <2> SUFFICES ASSUME Kept, AsAsked, Settled, unsafeFor >= 1 PROVE Matches(Stock, zone)
    BY DEF HotIsStock
  <2>1. tripped
    BY DEF Kept, HotTrips, Settled
  <2>2. LimitsOf(Mode) = Stock
    BY <2>1 DEF LimitsOf, Mode
  <2> QED
    BY <2>2 DEF AsAsked
<1> QED
  BY <1>1, WorkIsKept, LimitsAsAsked, PTL

\* While all is calm the controller writes only to change the limits, whatever
\* the hardware made of the last ones (Limits::matches).
THEOREM WritesOnlyToChange == Spec => LeavesItAlone
<1>1. IInv /\ Kept /\ [Next]_vars =>
        [Calm' /\ phase = "running" /\ todo = <<>> /\ todo' # <<>>
           => applied # Mode']_vars
  BY NextKept DEF WritesToChange
<1> QED
  BY <1>1, WorkIsKept, PTL DEF Spec, LeavesItAlone
=============================================================================
