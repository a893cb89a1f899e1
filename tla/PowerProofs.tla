----------------------------- MODULE PowerProofs -----------------------------
(***************************************************************************)
(* Proofs about PowerSchedule, for every schedule, every local time and    *)
(* every way the clock is stepped, and about Settings: whatever the file   *)
(* says, the schedule, the limits and the fans that the daemon works with  *)
(* afterwards are what the other modules assume of their constants.        *)
(***************************************************************************)
EXTENDS PowerSchedule, Settings, TLAPS, FiniteSetTheorems

-----------------------------------------------------------------------------
(* The inductive invariant. *)

\* Once there is a mark, no minute after it counts as spent, and looking
\* began no later than it.
MarkCovers ==
  checkedUntil # Never =>
    /\ since \in Times /\ since <= checkedUntil
    /\ \A k \in spent : k * Minute <= checkedUntil

IInv == TypeOK /\ MarkCovers

\* What a step that returns something must not return.
FiresFresh ==
  \A d \in fired' : /\ d.at \notin spent
                    /\ d.at * Minute > since
                    /\ d.at * Minute > now - MaxGap

USE DEF Never

-----------------------------------------------------------------------------
(* What is due. *)

LEMMA TimesFact ==
  /\ Times \subseteq Int /\ Minutes \subseteq Int
  /\ \A t \in Times : t >= 0
  /\ Minute \in Int /\ Minute > 0
  /\ MaxGap \in Int /\ Recheck \in Int
  BY ClockAssumption DEF Times, Minutes

\* At most one thing is returned, and it lies in the gap.
LEMMA DueInFact ==
  ASSUME NEW a, NEW u
  PROVE  /\ DueIn(a, u) \subseteq Due
         /\ Cardinality(DueIn(a, u)) <= 1
         /\ \A d \in DueIn(a, u) : d.at \in Boundaries(a, u)
<1> DEFINE due == {k \in Boundaries(a, u) : Matching(k, PowerOff) # {}}
           last == {k \in due : \A l \in due : l <= k}
           win(k) == IF Matching(k, {"Shutdown"}) # {} THEN "Shutdown"
                                                       ELSE "Restart"
<1>1. DueIn(a, u) = {[at |-> k, action |-> win(k)] : k \in last}
  BY DEF DueIn
<1>2. last \subseteq Minutes /\ last \subseteq Boundaries(a, u)
  BY DEF Boundaries
<1>3. \A k \in last : win(k) \in {"Shutdown", "Restart"}
  OBVIOUS
<1>4. \A k, l \in last : k = l
  <2>1. \A k, l \in last : l <= k
    OBVIOUS
  <2>2. \A k \in last : k \in Int
    BY <1>2, TimesFact
  <2> HIDE DEF last
  <2>3. QED
    BY <2>1, <2>2
<1> HIDE DEF last, win
<1>5. DueIn(a, u) \subseteq Due
  BY <1>1, <1>2, <1>3 DEF Due
<1>6. \A d \in DueIn(a, u) : d.at \in Boundaries(a, u)
  BY <1>1, <1>2
<1>7. CASE last = {}
  <2>1. DueIn(a, u) = {}
    BY <1>1, <1>7
  <2>2. QED
    BY <2>1, <1>5, <1>6, FS_EmptySet
<1>8. CASE last # {}
  <2>1. PICK k : k \in last
    BY <1>8
  <2>2. last = {k}
    BY <2>1, <1>4
  <2>3. DueIn(a, u) = {[at |-> k, action |-> win(k)]}
    BY <1>1, <2>2
  <2>4. Cardinality(DueIn(a, u)) = 1
    BY <2>3, FS_Singleton
  <2>5. QED
    BY <2>4, <1>5, <1>6
<1>9. QED
  BY <1>7, <1>8

\* The next power on is a time of the clock, or there is none.
LEMMA NextOnFact ==
  ASSUME NEW t \in Times
  PROVE  NextOn(t) \in Times \cup {Never}
<1> DEFINE on == {k \in Boundaries(t, Horizon) : Matching(k, {"PowerOn"}) # {}}
           First(k) == \A l \in on : k <= l
           first == CHOOSE k \in on : First(k)
<1>1. NextOn(t) = IF \E k \in on : First(k) THEN Minute * first ELSE Never
  BY DEF NextOn
<1>2. CASE ~ \E k \in on : First(k)
  BY <1>1, <1>2
<1>3. CASE \E k \in on : First(k)
  <2>1. first \in on
    BY <1>3
  <2>2. \A k \in on : k \in Minutes /\ t < k * Minute /\ k * Minute <= Horizon
    BY DEF Boundaries
  <2>3. NextOn(t) = Minute * first
    BY <1>1, <1>3
  <2> HIDE DEF on, first
  <2>4. first \in Int /\ t < first * Minute /\ first * Minute <= Horizon
    BY <2>1, <2>2, TimesFact
  <2>5. Minute * first = first * Minute
    BY <2>4, TimesFact
  <2>6. t \in Int /\ t >= 0 /\ Horizon \in Int
    BY TimesFact, ClockAssumption
  <2>7. first * Minute \in Int
    BY <2>4, TimesFact
  <2>8. QED
    BY <2>3, <2>4, <2>5, <2>6, <2>7 DEF Times
<1>4. QED
  BY <1>2, <1>3

-----------------------------------------------------------------------------
(* The steps. *)

\* What the end of a poll leaves of the alarm.
LEMMA SyncFact ==
  ASSUME TypeOK, Sync
  PROVE  /\ alarm' \in Times \cup {Never} /\ armed' \in Times \cup {Never}
         /\ nextCheck' \in Int /\ doubt' \in Int
<1>1. now \in Times /\ alarm \in Times \cup {Never}
  BY DEF TypeOK
<1>2. nextCheck' \in Int
  BY <1>1, TimesFact DEF Sync
<1>3. CASE SyncSucceeds
  BY <1>1, <1>2, <1>3, NextOnFact DEF SyncSucceeds
<1>4. CASE SyncFails
  BY <1>1, <1>2, <1>4 DEF SyncFails
<1>5. QED
  BY <1>3, <1>4 DEF Sync

LEMMA KeepAlarmFact ==
  ASSUME TypeOK, NEW check \in Int, KeepAlarm(check)
  PROVE  /\ alarm' \in Times \cup {Never} /\ armed' \in Times \cup {Never}
         /\ nextCheck' \in Int /\ doubt' \in Int
<1>1. CASE Sync
  BY <1>1, SyncFact
<1>2. CASE nextCheck' = check /\ UNCHANGED <<alarm, armed, doubt>>
  BY <1>2 DEF TypeOK
<1>3. QED
  BY <1>1, <1>2 DEF KeepAlarm

LEMMA NothingFired ==
  ASSUME fired' = {}
  PROVE  fired' \subseteq Due /\ Cardinality(fired') <= 1 /\ FiresFresh
  BY FS_EmptySet DEF FiresFresh

LEMMA PollBlindStep ==
  ASSUME IInv, PollBlind, polled' = TRUE, UNCHANGED now
  PROVE  IInv' /\ FiresFresh
<1>1. TypeOK /\ now \in Times
  BY DEF IInv, TypeOK
<1>2. KeepAlarm(Never)
  BY DEF PollBlind
<1>3. TypeOK'
  BY <1>1, <1>2, KeepAlarmFact, NothingFired DEF TypeOK, PollBlind
<1>4. MarkCovers'
  <2>1. \A k \in spent' : k * Minute <= now
    BY DEF PollBlind
  <2>2. now <= now
    BY <1>1, TimesFact
  <2>3. checkedUntil' = now /\ since' = now
    BY DEF PollBlind
  <2>4. QED
    BY <1>1, <2>1, <2>2, <2>3 DEF MarkCovers
<1>5. QED
  BY <1>3, <1>4, NothingFired DEF IInv, PollBlind

LEMMA PollAgainStep ==
  ASSUME IInv, PollAgain, polled' = TRUE, UNCHANGED now
  PROVE  IInv' /\ FiresFresh
<1>1. TypeOK /\ nextCheck \in Int /\ KeepAlarm(nextCheck)
  BY DEF IInv, TypeOK, PollAgain
<1>2. TypeOK'
  BY <1>1, KeepAlarmFact, NothingFired DEF TypeOK, PollAgain
<1>3. MarkCovers'
  BY DEF IInv, MarkCovers, PollAgain
<1>4. QED
  BY <1>2, <1>3, NothingFired DEF IInv, PollAgain

\* Everything fired lies after the mark and not after now, which is at most
\* MaxGap further.
LEMMA PollForwardStep ==
  ASSUME IInv, PollForward, polled' = TRUE, UNCHANGED now
  PROVE  IInv' /\ FiresFresh
<1> DEFINE due == DueIn(checkedUntil, now)
<1>1. TypeOK /\ MarkCovers /\ nextCheck \in Int /\ KeepAlarm(nextCheck)
  BY DEF IInv, TypeOK, PollForward
<1>2. /\ now \in Int /\ now \in Times
      /\ checkedUntil \in Int /\ checkedUntil \in Times
      /\ checkedUntil < now /\ checkedUntil >= now - MaxGap
  BY <1>1, TimesFact DEF TypeOK, PollForward, Jumped, Distance
<1>3. /\ since \in Int /\ since \in Times /\ since <= checkedUntil
      /\ \A k \in spent : k * Minute <= checkedUntil
  <2>1. checkedUntil # Never
    BY <1>2, TimesFact
  <2>2. /\ since \in Times /\ since <= checkedUntil
        /\ \A k \in spent : k * Minute <= checkedUntil
    BY <1>1, <2>1 DEF MarkCovers
  <2>3. QED
    BY <2>2, TimesFact
<1>4. \A k \in Minutes : k * Minute \in Int
  BY TimesFact
<1>5. /\ checkedUntil' = now /\ fired' = due
      /\ ran' = ran \cup {d.at : d \in due}
      /\ spent' = spent \cup {d.at : d \in due}
      /\ since' = since
  BY DEF PollForward
<1>6. /\ due \subseteq Due /\ Cardinality(due) <= 1
      /\ \A d \in due : d.at \in Boundaries(checkedUntil, now)
  BY DueInFact
<1> HIDE DEF due
<1>7. \A d \in due : /\ d.at \in Minutes
                     /\ checkedUntil < d.at * Minute
                     /\ d.at * Minute <= now
  BY <1>6 DEF Boundaries
<1>8. TypeOK'
  BY <1>1, <1>2, <1>5, <1>6, <1>7, KeepAlarmFact DEF TypeOK
<1>9. MarkCovers'
  <2>1. \A k \in spent' : k \in Minutes /\ k * Minute <= now
    BY <1>1, <1>2, <1>3, <1>4, <1>5, <1>7 DEF TypeOK
  <2>2. since' \in Times /\ since' <= checkedUntil'
    BY <1>2, <1>3, <1>5
  <2>3. QED
    BY <2>1, <2>2, <1>5 DEF MarkCovers
<1>10. FiresFresh
  <2>1. ASSUME NEW d \in due
        PROVE  /\ d.at \notin spent
               /\ d.at * Minute > since
               /\ d.at * Minute > now - MaxGap
    <3>1. d.at * Minute \in Int /\ checkedUntil < d.at * Minute
      BY <1>4, <1>7
    <3>2. QED
      BY <3>1, <1>2, <1>3, TimesFact
  <2>2. QED
    BY <2>1, <1>5 DEF FiresFresh
<1>11. QED
  BY <1>8, <1>9, <1>10 DEF IInv

LEMMA SyncRtcStep ==
  ASSUME IInv, SyncRtc
  PROVE  IInv' /\ FiresFresh
<1>1. TypeOK'
  BY SyncFact, NothingFired DEF IInv, TypeOK, SyncRtc
<1>2. QED
  BY <1>1, NothingFired DEF IInv, MarkCovers, SyncRtc

LEMMA ClockStep ==
  ASSUME IInv, NEW t \in Times, ClockMoves(t)
  PROVE  IInv' /\ FiresFresh
<1>1. doubt' \in Int
  <2>1. now \in Int /\ t \in Int /\ doubt \in Int
    BY TimesFact DEF IInv, TypeOK
  <2>2. QED
    BY <2>1 DEF ClockMoves, Aged
<1>2. TypeOK'
  BY <1>1, NothingFired DEF IInv, TypeOK, ClockMoves
<1>3. QED
  BY <1>2, NothingFired DEF IInv, MarkCovers, ClockMoves

LEMMA OthersStep ==
  ASSUME IInv, NEW t \in Times, OthersSetAlarm(t)
  PROVE  IInv' /\ FiresFresh
<1>1. TypeOK'
  BY NothingFired DEF IInv, TypeOK, OthersSetAlarm
<1>2. QED
  BY <1>1, NothingFired DEF IInv, MarkCovers, OthersSetAlarm

LEMMA RestartStep ==
  ASSUME IInv, Restart
  PROVE  IInv' /\ FiresFresh
<1>1. TypeOK'
  <2>1. alarm' \in Times \cup {Never}
    BY DEF IInv, TypeOK, Restart
  <2>2. nextCheck' \in Int /\ armed' = Never /\ checkedUntil' = Never
    BY DEF Restart
  <2>3. ran' = {} /\ polled' = FALSE
    BY DEF Restart
  <2>4. fired' \subseteq Due /\ Cardinality(fired') <= 1
    BY NothingFired DEF Restart
  <2>5. QED
    BY <2>1, <2>2, <2>3, <2>4 DEF IInv, TypeOK, Restart
<1>2. QED
  BY <1>1, NothingFired DEF IInv, MarkCovers, Restart

LEMMA NextStep == IInv /\ Next => IInv' /\ FiresFresh
<1> SUFFICES ASSUME IInv, Next PROVE IInv' /\ FiresFresh
  OBVIOUS
<1>1. CASE Poll
  BY <1>1, PollBlindStep, PollAgainStep, PollForwardStep DEF Poll
<1>2. CASE SyncRtc
  BY <1>2, SyncRtcStep
<1>3. CASE \E t \in Times : ClockMoves(t) \/ OthersSetAlarm(t)
  BY <1>3, ClockStep, OthersStep
<1>4. CASE Restart
  BY <1>4, RestartStep
<1>5. QED
  BY <1>1, <1>2, <1>3, <1>4 DEF Next

-----------------------------------------------------------------------------
(* The theorems. *)

\* The inductive invariant holds in every state the schedule can reach.
THEOREM InductiveInvariant == Spec => []IInv
<1>1. Init => IInv
  <2> SUFFICES ASSUME Init PROVE IInv
    OBVIOUS
  <2>1. fired \subseteq Due /\ Cardinality(fired) <= 1
    BY FS_EmptySet DEF Init
  <2>2. checkedUntil = Never /\ nextCheck \in Int /\ doubt \in Int
    BY DEF Init
  <2>3. QED
    BY <2>1, <2>2 DEF Init, IInv, TypeOK, MarkCovers
<1>2. IInv /\ UNCHANGED vars => IInv'
  BY DEF IInv, TypeOK, MarkCovers, vars, marks, rtc, history
<1>3. QED
  BY <1>1, <1>2, NextStep, PTL DEF Spec

\* Every variable keeps its type, and a poll returns one thing at most.
THEOREM TypeCorrect == Spec => []TypeOK
  BY InductiveInvariant, PTL DEF IInv

\* No minute fires again unless the clock was set back before it and jumped.
THEOREM FiresOnce == Spec => OnceUntilSetBack
<1>1. IInv /\ [Next]_vars => [\A d \in fired' : d.at \notin spent]_vars
  BY NextStep DEF FiresFresh
<1>2. QED
  BY <1>1, InductiveInvariant, PTL DEF Spec, OnceUntilSetBack

\* Nothing fires that the clock did not run over while the daemon watched.
THEOREM SkipsJumps == Spec => NothingSkipped
<1>1. IInv /\ [Next]_vars => [FiresWatched]_vars
  BY NextStep DEF FiresFresh, FiresWatched
<1>2. QED
  BY <1>1, InductiveInvariant, PTL DEF Spec, NothingSkipped

-----------------------------------------------------------------------------
(* The first and the last of finitely many minutes. *)

\* A finite set of integers that is not empty has a least element: of the
\* sets "up to x" a smallest one exists, because strict inclusion of finite
\* sets is well-founded.
LEMMA LeastExists ==
  ASSUME NEW S \in SUBSET Int, IsFiniteSet(S), S # {}
  PROVE  \E m \in S : \A k \in S : m <= k
<1> DEFINE UpTo(x) == {y \in S : y <= x}
           T == {UpTo(x) : x \in S}
<1>1. \A x \in S : UpTo(x) \in FiniteSubsetsOf(S)
  <2>1. ASSUME NEW x \in S PROVE IsFiniteSet(UpTo(x))
    BY FS_Subset
  <2>2. QED
    BY <2>1 DEF FiniteSubsetsOf
<1>2. T \subseteq FiniteSubsetsOf(S) /\ T # {}
  BY <1>1
<1>3. IsWellFoundedOn(StrictSubsetOrdering(S), FiniteSubsetsOf(S))
  BY FS_StrictSubsetOrderingWellFounded
<1>4. \E U \in T : \A V \in T : <<V, U>> \notin StrictSubsetOrdering(S)
  <2> HIDE DEF T
  <2>1. QED
    BY <1>2, <1>3, WFMin
<1>5. PICK m \in S : \A V \in T : <<V, UpTo(m)>> \notin StrictSubsetOrdering(S)
  BY <1>4
<1>6. ASSUME NEW k \in S, k < m PROVE FALSE
  <2>0. /\ \A y \in S : y <= k => y <= m
        /\ m <= m /\ ~(m <= k)
    BY <1>6
  <2>1. UpTo(k) \subseteq UpTo(m) /\ m \in UpTo(m) /\ m \notin UpTo(k)
    BY <2>0
  <2>2. UpTo(k) \in T /\ UpTo(k) \in SUBSET S /\ UpTo(m) \in SUBSET S
    OBVIOUS
  <2>3. <<UpTo(k), UpTo(m)>> \in StrictSubsetOrdering(S)
    BY <2>1, <2>2 DEF StrictSubsetOrdering
  <2> HIDE DEF T, UpTo
  <2>4. QED
    BY <1>5, <2>2, <2>3
<1>7. QED
  BY <1>6

\* And a greatest one.
LEMMA GreatestExists ==
  ASSUME NEW S \in SUBSET Int, IsFiniteSet(S), S # {}
  PROVE  \E m \in S : \A k \in S : k <= m
<1> DEFINE From(x) == {y \in S : x <= y}
           T == {From(x) : x \in S}
<1>1. \A x \in S : From(x) \in FiniteSubsetsOf(S)
  <2>1. ASSUME NEW x \in S PROVE IsFiniteSet(From(x))
    BY FS_Subset
  <2>2. QED
    BY <2>1 DEF FiniteSubsetsOf
<1>2. T \subseteq FiniteSubsetsOf(S) /\ T # {}
  BY <1>1
<1>3. IsWellFoundedOn(StrictSubsetOrdering(S), FiniteSubsetsOf(S))
  BY FS_StrictSubsetOrderingWellFounded
<1>4. \E U \in T : \A V \in T : <<V, U>> \notin StrictSubsetOrdering(S)
  <2> HIDE DEF T
  <2>1. QED
    BY <1>2, <1>3, WFMin
<1>5. PICK m \in S : \A V \in T : <<V, From(m)>> \notin StrictSubsetOrdering(S)
  BY <1>4
<1>6. ASSUME NEW k \in S, m < k PROVE FALSE
  <2>0. /\ \A y \in S : k <= y => m <= y
        /\ m <= m /\ ~(k <= m)
    BY <1>6
  <2>1. From(k) \subseteq From(m) /\ m \in From(m) /\ m \notin From(k)
    BY <2>0
  <2>2. From(k) \in T /\ From(k) \in SUBSET S /\ From(m) \in SUBSET S
    OBVIOUS
  <2>3. <<From(k), From(m)>> \in StrictSubsetOrdering(S)
    BY <2>1, <2>2 DEF StrictSubsetOrdering
  <2> HIDE DEF T, From
  <2>4. QED
    BY <1>5, <2>2, <2>3
<1>7. QED
  BY <1>6

\* The minutes of the clock are finitely many.
LEMMA MinutesFinite ==
  ASSUME NEW S \in SUBSET Minutes
  PROVE  IsFiniteSet(S) /\ S \in SUBSET Int
<1>1. Horizon \div Minute \in Int
  BY ClockAssumption
<1>2. IsFiniteSet(Minutes)
  BY <1>1, FS_Interval DEF Minutes
<1>3. QED
  BY <1>2, FS_Subset, TimesFact

-----------------------------------------------------------------------------
(* What is due, and the next power on. *)

\* A gap in which something is due returns the last of it.
LEMMA DueInLast ==
  ASSUME NEW a, NEW u,
         NEW k \in Boundaries(a, u), Matching(k, PowerOff) # {}
  PROVE  \E d \in DueIn(a, u) :
           k <= d.at /\ d.at \in Boundaries(a, u) /\ ~Repeated(d.at)
<1> DEFINE due == {j \in Boundaries(a, u) : Matching(j, PowerOff) # {}}
           win(j) == IF Matching(j, {"Shutdown"}) # {} THEN "Shutdown"
                                                       ELSE "Restart"
<1>1. due \in SUBSET Minutes /\ k \in due
  BY DEF Boundaries
<1>2. \E l \in due : \A j \in due : j <= l
  <2> HIDE DEF due
  <2>1. IsFiniteSet(due) /\ due \in SUBSET Int /\ due # {}
    BY <1>1, MinutesFinite
  <2>2. QED
    BY <2>1, GreatestExists
<1>3. PICK l \in due : \A j \in due : j <= l
  BY <1>2
<1>4. [at |-> l, action |-> win(l)] \in DueIn(a, u)
  <2>1. DueIn(a, u) =
          {[at |-> j, action |-> win(j)] : j \in {m \in due : \A n \in due : n <= m}}
    BY DEF DueIn
  <2>2. l \in {m \in due : \A n \in due : n <= m}
    BY <1>3
  <2> HIDE DEF due, win
  <2>3. QED
    BY <2>1, <2>2
<1>5. k <= l /\ l \in Boundaries(a, u)
  BY <1>1, <1>3
<1>6. ~Repeated(l)
  BY <1>3 DEF Matching
<1> HIDE DEF due, win
<1>7. QED
  BY <1>4, <1>5, <1>6

\* Only a minute that a rule matches, and that is not a repeated one, is
\* returned.
LEMMA DueInFirstTime ==
  ASSUME NEW a, NEW u
  PROVE  \A d \in DueIn(a, u) : ~Repeated(d.at)
  BY DEF DueIn, Matching

\* The minutes to come at which a power on is due.
OnAfter(t) == {k \in Boundaries(t, Horizon) : Matching(k, {"PowerOn"}) # {}}

LEMMA OnAfterFact ==
  ASSUME NEW t \in Times
  PROVE  /\ OnAfter(t) \in SUBSET Minutes /\ OnAfter(t) \in SUBSET Int
         /\ IsFiniteSet(OnAfter(t))
         /\ \A k \in OnAfter(t) : t < k * Minute
         /\ OnAfter(t) = {} => NextOn(t) = Never
<1>1. OnAfter(t) \in SUBSET Minutes
  BY DEF OnAfter, Boundaries
<1>2. \A k \in OnAfter(t) : t < k * Minute
  BY DEF OnAfter, Boundaries
<1>3. OnAfter(t) = {} => NextOn(t) = Never
  BY DEF NextOn, OnAfter
<1>4. QED
  BY <1>1, <1>2, <1>3, MinutesFinite

\* The next power on is the first of them.
LEMMA NextOnFirst ==
  ASSUME NEW t \in Times, NEW m \in OnAfter(t),
         \A k \in OnAfter(t) : m <= k
  PROVE  NextOn(t) = Minute * m
<1> DEFINE First(k) == \A l \in OnAfter(t) : k <= l
<1>1. NextOn(t) = IF \E k \in OnAfter(t) : First(k)
                  THEN Minute * (CHOOSE k \in OnAfter(t) : First(k)) ELSE Never
  BY DEF NextOn, OnAfter
<1>2. \A k \in OnAfter(t) : First(k) => k = m
  <2>1. ASSUME NEW k \in OnAfter(t), First(k) PROVE k = m
    <3>1. k \in Int /\ m \in Int
      BY OnAfterFact
    <3>2. k <= m /\ m <= k
      BY <2>1
    <3>3. QED
      BY <3>1, <3>2
  <2>2. QED
    BY <2>1
<1>3. First(m)
  OBVIOUS
<1> HIDE DEF First
<1>4. (CHOOSE k \in OnAfter(t) : First(k)) = m
  BY <1>2, <1>3
<1>5. QED
  BY <1>1, <1>3, <1>4

\* As the clock runs on, the next power on stays what it is until it is
\* reached.
LEMMA NextOnLasts ==
  ASSUME NEW s \in Times, NEW t \in Times, s < t
  PROVE  \/ NextOn(t) = NextOn(s)
         \/ NextOn(s) # Never /\ NextOn(s) <= t
<1>1. s \in Int /\ t \in Int /\ s >= 0
  BY TimesFact
<1>2. \A k \in Minutes : k * Minute \in Int /\ k * Minute = Minute * k
  BY TimesFact
<1>3. \A k \in OnAfter(t) : k \in OnAfter(s)
  BY <1>1, <1>2 DEF OnAfter, Boundaries
<1>4. CASE OnAfter(s) = {}
  BY <1>3, <1>4, OnAfterFact
<1>5. CASE OnAfter(s) # {}
  <2>1. PICK m \in OnAfter(s) : \A k \in OnAfter(s) : m <= k
    BY <1>5, OnAfterFact, LeastExists
  <2>2. NextOn(s) = Minute * m
    BY <2>1, NextOnFirst
  <2>3. m \in Minutes /\ s < m * Minute
    BY OnAfterFact
  <2>4. CASE m * Minute <= t
    BY <1>1, <1>2, <2>2, <2>3, <2>4
  <2>5. CASE t < m * Minute
    <3>1. m \in OnAfter(t)
      BY <2>5 DEF OnAfter, Boundaries
    <3>2. \A k \in OnAfter(t) : m <= k
      BY <1>3, <2>1
    <3>3. QED
      BY <2>2, <3>1, <3>2, NextOnFirst
  <2>6. QED
    BY <1>1, <1>2, <2>3, <2>4, <2>5
<1>6. QED
  BY <1>4, <1>5

\* Minutes of one gap of the clock are at most MaxGap apart.
LEMMA Distributes ==
  \A a, b, m \in Int : (a - b) * m = a * m - b * m
  OBVIOUS

LEMMA WithinGap ==
  ASSUME NEW k \in Int, NEW l \in Int, NEW a \in Int, NEW u \in Int,
         a < k * Minute, l * Minute <= u, u - a <= MaxGap
  PROVE  l - k <= MaxGap \div Minute
<1> DEFINE q == MaxGap \div Minute
<1>1. Minute \in Int /\ Minute > 0 /\ MaxGap \in Int
  BY TimesFact
<1>2. q \in Int /\ MaxGap < (q + 1) * Minute
  BY <1>1
<1> DEFINE d == l - k
<1> HIDE DEF q
<1>0. d \in Int /\ d * Minute <= MaxGap
  <2>1. d * Minute = l * Minute - k * Minute
    BY <1>1, Distributes
  <2>2. l * Minute \in Int /\ k * Minute \in Int
    BY <1>1
  <2>3. QED
    BY <1>1, <2>1, <2>2
<1> HIDE DEF d
<1>3. ASSUME q + 1 <= d PROVE FALSE
  <2>1. (q + 1) * Minute <= d * Minute
    BY <1>0, <1>1, <1>2, <1>3
  <2>2. (q + 1) * Minute \in Int /\ d * Minute \in Int
    BY <1>0, <1>1, <1>2
  <2>3. QED
    BY <1>0, <1>1, <1>2, <2>1, <2>2
<1>4. d <= q
  BY <1>0, <1>2, <1>3
<1>5. QED
  BY <1>4 DEF d, q

-----------------------------------------------------------------------------
(* What is kept besides. *)

\* MissesNothing, also between a step of the clock and the next poll.
NothingMissed ==
  checkedUntil # Never =>
    \A k \in Boundaries(since, checkedUntil) :
      Matching(k, PowerOff) # {} =>
        \E l \in spent : l \in k .. (k + MaxGap \div Minute)

\* What fired was not a repeated minute.
FirstTimes == \A k \in spent : ~Repeated(k)

\* Right after a poll the mark is at the clock, or MaxGap ahead of it at most.
NearMark == polled => ~Jumped /\ now <= checkedUntil

\* The next look at the alarm is never further off than the recheck time, but
\* for what the clock was stepped back; whatever doubt there is about the
\* alarm began before that.
CheckedSoon ==
  /\ doubt >= Never
  /\ OwnsAlarm /\ ~Jumped =>
       /\ nextCheck <= checkedUntil + Recheck \/ nextCheck <= now + Recheck
       /\ polled => nextCheck <= checkedUntil + Recheck
       /\ doubt # Never => nextCheck - now + doubt <= Recheck + MaxGap

\* An alarm nothing is known to be wrong with is the one that was armed, and
\* right, or the armed one has gone off.
ArmedRight ==
  OwnsAlarm /\ checkedUntil # Never /\ doubt = Never =>
    \/ alarm = armed /\ armed = NextOn(now)
    \/ armed # Never /\ armed <= now

AlarmKept == NearMark /\ CheckedSoon /\ ArmedRight /\ AlarmIsKept

Kept == NothingMissed /\ FirstTimes /\ AlarmKept

\* When the clock has not jumped, it is near a mark there is.
LEMMA NotJumpedFact ==
  ASSUME TypeOK, ~Jumped
  PROVE  /\ checkedUntil \in Int /\ checkedUntil # Never
         /\ checkedUntil - now <= MaxGap /\ now - checkedUntil <= MaxGap
<1>1. checkedUntil \in Int /\ now \in Int /\ checkedUntil # Never
  BY TimesFact DEF TypeOK, Jumped
<1>2. QED
  BY <1>1, TimesFact DEF Jumped, Distance

\* The end of a poll puts the alarm right or looks at it again in time.
LEMMA AlarmAfterPoll ==
  ASSUME IInv, AlarmKept, NEW check \in Int, KeepAlarm(check),
         UNCHANGED now, polled' = TRUE,
         NEW mark \in Times, checkedUntil' = mark,
         now <= mark, mark - now <= MaxGap,
         \/ check = Never
         \/ check = nextCheck /\ ~Jumped /\ checkedUntil <= mark
  PROVE  AlarmKept'
<1>1. /\ now \in Int /\ now >= 0 /\ armed \in Int /\ alarm \in Int
      /\ nextCheck \in Int /\ doubt \in Int /\ checkedUntil \in Int
      /\ mark \in Int /\ mark >= 0
  BY TimesFact DEF IInv, TypeOK
<1>2. MaxGap \in Int /\ Recheck \in Int /\ MaxGap >= 0 /\ Recheck >= 0
  BY ClockAssumption
<1>3. NearMark'
  <2>1. Distance(now, mark) <= MaxGap /\ mark # Never
    BY <1>1, <1>2 DEF Distance
  <2>2. Distance(now, mark) \in Int
    BY <1>1 DEF Distance
  <2>3. ~(Distance(now, mark) > MaxGap)
    BY <1>2, <2>1, <2>2
  <2>4. QED
    BY <2>1, <2>3 DEF NearMark, Jumped
<1>4. CASE ~OwnsAlarm
  <2>1. doubt' = doubt
    BY <1>4 DEF KeepAlarm
  <2>2. doubt' >= Never
    BY <2>1 DEF AlarmKept, CheckedSoon
  <2>3. QED
    BY <1>3, <1>4, <2>2 DEF AlarmKept, CheckedSoon, ArmedRight, AlarmIsKept
<1>5. CASE OwnsAlarm /\ Sync
  <2>1. /\ nextCheck' = now + Recheck
        /\ \/ doubt' = Never /\ alarm' = NextOn(now) /\ armed' = NextOn(now)
           \/ doubt' = 0
    BY <1>5 DEF Sync, SyncSucceeds, SyncFails
  <2>2. /\ nextCheck' <= mark + Recheck
        /\ doubt' # Never => nextCheck' - now + doubt' <= Recheck + MaxGap
        /\ doubt' >= Never /\ doubt' <= Recheck + MaxGap
    BY <1>1, <1>2, <2>1
  <2>3. doubt' = Never => alarm' = NextOn(now) /\ armed' = NextOn(now)
    BY <2>1
  <2>4. CheckedSoon'
    BY <2>2 DEF CheckedSoon
  <2>5. ArmedRight' /\ AlarmIsKept'
    BY <2>2, <2>3 DEF ArmedRight, AlarmIsKept
  <2>6. QED
    BY <1>3, <2>4, <2>5 DEF AlarmKept
<1>6. CASE OwnsAlarm /\ ~CheckDue(check)
  <2>1. /\ nextCheck' = check /\ UNCHANGED <<alarm, armed, doubt>>
        /\ now < check /\ (armed = Never \/ now < armed)
    BY <1>1, <1>6 DEF KeepAlarm, CheckDue
  <2>2. check = nextCheck /\ ~Jumped /\ checkedUntil <= mark
    BY <1>1, <2>1
  <2>3. /\ nextCheck <= checkedUntil + Recheck \/ nextCheck <= now + Recheck
        /\ doubt # Never => nextCheck - now + doubt <= Recheck + MaxGap
        /\ doubt >= Never
    BY <1>6, <2>2 DEF AlarmKept, CheckedSoon
  <2>4. CheckedSoon'
    <3>1. nextCheck' <= mark + Recheck
      BY <1>1, <1>2, <2>1, <2>2, <2>3
    <3>2. /\ doubt' >= Never
          /\ doubt' # Never => nextCheck' - now' + doubt' <= Recheck + MaxGap
      BY <2>1, <2>2, <2>3
    <3>3. QED
      BY <3>1, <3>2 DEF CheckedSoon
  <2>5. doubt = Never => alarm = armed /\ armed = NextOn(now)
    <3>1. checkedUntil # Never
      BY <2>2 DEF Jumped
    <3>2. QED
      BY <1>1, <1>6, <2>1, <3>1 DEF AlarmKept, ArmedRight
  <2>6. ArmedRight' /\ AlarmIsKept'
    <3>1. doubt' <= Recheck + MaxGap
      BY <1>1, <1>2, <2>1, <2>2, <2>3
    <3>2. QED
      BY <2>1, <2>5, <3>1 DEF ArmedRight, AlarmIsKept
  <2>7. QED
    BY <1>3, <2>4, <2>6 DEF AlarmKept
<1>7. QED
  BY <1>4, <1>5, <1>6 DEF KeepAlarm

LEMMA PollBlindKept ==
  ASSUME IInv, Kept, PollBlind, polled' = TRUE, UNCHANGED now
  PROVE  Kept'
<1>1. now \in Times /\ now \in Int /\ MaxGap \in Int /\ MaxGap >= 0
  BY TimesFact, ClockAssumption DEF IInv, TypeOK
<1>2. checkedUntil' = now /\ since' = now /\ KeepAlarm(Never)
  BY DEF PollBlind
<1>3. AlarmKept'
  <2>1. now <= now /\ now - now <= MaxGap
    BY <1>1
  <2>2. Never \in Int
    OBVIOUS
  <2>3. QED
    BY <1>1, <1>2, <2>1, <2>2, AlarmAfterPoll DEF Kept
<1>4. NothingMissed'
  <2>1. \A k \in Minutes : ~(now < k * Minute /\ k * Minute <= now)
    BY <1>1, TimesFact
  <2>2. Boundaries(now, now) = {}
    BY <2>1 DEF Boundaries
  <2>3. QED
    BY <1>2, <2>2 DEF NothingMissed
<1>5. FirstTimes'
  BY DEF Kept, FirstTimes, PollBlind
<1>6. QED
  BY <1>3, <1>4, <1>5 DEF Kept

LEMMA PollAgainKept ==
  ASSUME IInv, Kept, PollAgain, polled' = TRUE, UNCHANGED now
  PROVE  Kept'
<1>1. TypeOK /\ nextCheck \in Int /\ now \in Int
  BY TimesFact DEF IInv, TypeOK
<1>2. /\ checkedUntil' = checkedUntil /\ KeepAlarm(nextCheck)
      /\ ~Jumped /\ now <= checkedUntil
  BY DEF PollAgain
<1>3. AlarmKept'
  <2>1. checkedUntil \in Int /\ checkedUntil # Never /\ checkedUntil - now <= MaxGap
    BY <1>1, <1>2, NotJumpedFact
  <2>2. checkedUntil \in Times /\ checkedUntil <= checkedUntil
    BY <1>1, <1>2, <2>1 DEF TypeOK
  <2>3. QED
    BY <1>1, <1>2, <2>1, <2>2, AlarmAfterPoll DEF Kept
<1>4. NothingMissed' /\ FirstTimes'
  BY DEF Kept, NothingMissed, FirstTimes, PollAgain
<1>5. QED
  BY <1>3, <1>4 DEF Kept

LEMMA PollForwardKept ==
  ASSUME IInv, Kept, PollForward, polled' = TRUE, UNCHANGED now
  PROVE  Kept'
<1> DEFINE due == DueIn(checkedUntil, now)
<1>1. TypeOK /\ nextCheck \in Int /\ now \in Int /\ now \in Times
      /\ MaxGap \in Int /\ MaxGap >= 0 /\ Minute \in Int
  BY TimesFact, ClockAssumption DEF IInv, TypeOK
<1>2. /\ checkedUntil' = now /\ KeepAlarm(nextCheck) /\ since' = since
      /\ ~Jumped /\ now > checkedUntil
      /\ spent' = spent \cup {d.at : d \in due}
  BY DEF PollForward
<1>3. /\ checkedUntil \in Int /\ checkedUntil # Never
      /\ now - checkedUntil <= MaxGap
  BY <1>1, <1>2, NotJumpedFact
<1>4. AlarmKept'
  <2>1. now <= now /\ now - now <= MaxGap /\ checkedUntil <= now
    BY <1>1, <1>2, <1>3
  <2>2. QED
    BY <1>1, <1>2, <2>1, AlarmAfterPoll DEF Kept
<1>5. FirstTimes'
  <2>1. \A d \in due : ~Repeated(d.at)
    BY DueInFirstTime
  <2> HIDE DEF due
  <2>2. QED
    BY <1>2, <2>1 DEF Kept, FirstTimes
<1>6. NothingMissed'
  <2> DEFINE gap == MaxGap \div Minute
  <2>1. SUFFICES ASSUME NEW k \in Boundaries(since, now),
                        Matching(k, PowerOff) # {}
                 PROVE  \E l \in spent' : l \in k .. (k + gap)
    BY <1>2 DEF NothingMissed
  <2>2. k \in Minutes /\ k \in Int /\ k * Minute \in Int
        /\ since < k * Minute /\ k * Minute <= now
    BY TimesFact DEF Boundaries
  <2>3. CASE k * Minute <= checkedUntil
    <3>1. k \in Boundaries(since, checkedUntil)
      BY <2>2, <2>3 DEF Boundaries
    <3>2. \E l \in spent : l \in k .. (k + gap)
      BY <1>3, <2>1, <3>1 DEF Kept, NothingMissed
    <3>3. QED
      BY <1>2, <3>2
  <2>4. CASE checkedUntil < k * Minute
    <3>1. k \in Boundaries(checkedUntil, now)
      BY <2>2, <2>4 DEF Boundaries
    <3>2. \E l \in spent' : k <= l /\ l \in Boundaries(checkedUntil, now)
      BY <1>2, <2>1, <3>1, DueInLast
    <3>3. PICK l \in spent' : k <= l /\ l \in Boundaries(checkedUntil, now)
      BY <3>2
    <3>4. l \in Int /\ l * Minute <= now
      BY <3>3, TimesFact DEF Boundaries
    <3>5. l - k <= gap
      BY <1>1, <1>3, <2>2, <2>4, <3>4, WithinGap
    <3>6. gap \in Int
      BY <1>1, TimesFact
    <3> HIDE DEF gap
    <3>7. l \in k .. (k + gap)
      BY <2>2, <3>3, <3>4, <3>5, <3>6
    <3>8. QED
      BY <3>7
  <2>5. QED
    BY <1>3, <2>2, <2>3, <2>4
<1>7. QED
  BY <1>4, <1>5, <1>6 DEF Kept

LEMMA SyncRtcKept ==
  ASSUME IInv, Kept, SyncRtc
  PROVE  Kept'
<1>1. /\ now \in Int /\ checkedUntil \in Int
      /\ MaxGap \in Int /\ Recheck \in Int /\ MaxGap >= 0 /\ Recheck >= 0
  BY TimesFact, ClockAssumption DEF IInv, TypeOK
<1>2. UNCHANGED <<now, polled, checkedUntil, spent, since>>
  BY DEF SyncRtc
<1>3. NothingMissed' /\ FirstTimes' /\ NearMark'
  BY <1>2 DEF Kept, AlarmKept, NothingMissed, FirstTimes, NearMark, Jumped
<1>4. /\ nextCheck' = now + Recheck
      /\ \/ doubt' = Never /\ alarm' = NextOn(now) /\ armed' = NextOn(now)
         \/ doubt' = 0
  BY DEF SyncRtc, Sync, SyncSucceeds, SyncFails
<1>5. polled => now <= checkedUntil
  BY DEF Kept, AlarmKept, NearMark
<1>6. CheckedSoon'
  BY <1>1, <1>2, <1>4, <1>5 DEF CheckedSoon
<1>7. ArmedRight' /\ AlarmIsKept'
  BY <1>1, <1>2, <1>4 DEF ArmedRight, AlarmIsKept
<1>8. QED
  BY <1>3, <1>6, <1>7 DEF Kept, AlarmKept

LEMMA ClockKept ==
  ASSUME IInv, Kept, NEW t \in Times, ClockMoves(t)
  PROVE  Kept'
<1> DEFINE aged == doubt'
<1>1. /\ now \in Int /\ now \in Times /\ t \in Int /\ checkedUntil \in Int
      /\ armed \in Int /\ alarm \in Times \cup {Never}
      /\ nextCheck \in Int /\ doubt \in Int
      /\ MaxGap \in Int /\ Recheck \in Int /\ MaxGap >= 0 /\ Recheck >= 0
  BY TimesFact, ClockAssumption DEF IInv, TypeOK
<1>2. /\ polled /\ t # now /\ now' = t /\ polled' = FALSE
      /\ alarm' \in {alarm} \cup IF alarm <= t THEN {Never} ELSE {}
      /\ aged = IF t > now THEN Aged(t - now) ELSE 0
      /\ UNCHANGED <<checkedUntil, armed, nextCheck, spent, since>>
  BY DEF ClockMoves
<1>3. NothingMissed' /\ FirstTimes' /\ NearMark' /\ AlarmIsKept'
  BY <1>2 DEF Kept, AlarmKept, NothingMissed, FirstTimes, NearMark, AlarmIsKept
<1>4. ~Jumped /\ doubt >= Never
  BY <1>2 DEF Kept, AlarmKept, NearMark, CheckedSoon
<1> HIDE DEF aged
<1>5. /\ aged \in Int
      /\ t > now => /\ doubt = Never => aged = Never
                    /\ doubt # Never => aged >= 0
      /\ ~(t > now) => aged = 0
  BY <1>1, <1>2, <1>4 DEF Aged
<1>6. CheckedSoon'
  <2>1. aged >= Never
    BY <1>1, <1>5
  <2>2. SUFFICES ASSUME OwnsAlarm, ~Jumped'
                 PROVE  /\ nextCheck <= checkedUntil + Recheck
                        /\ aged # Never => nextCheck - t + aged <= Recheck + MaxGap
    BY <1>2, <2>1 DEF CheckedSoon, aged
  <2>3. /\ nextCheck <= checkedUntil + Recheck
        /\ doubt # Never => nextCheck - now + doubt <= Recheck + MaxGap
    BY <1>2, <1>4, <2>2 DEF Kept, AlarmKept, CheckedSoon
  <2>4. checkedUntil - t <= MaxGap
    BY <1>1, <1>2, <2>2 DEF Jumped, Distance
  <2>5. CASE t > now
    <3>1. doubt <= Recheck + MaxGap
      BY <1>2, <2>2 DEF Kept, AlarmKept, AlarmIsKept
    <3>2. doubt # Never => aged = doubt + (t - now)
      BY <1>1, <1>2, <2>5, <3>1 DEF Aged
    <3>3. QED
      BY <1>1, <1>5, <2>3, <2>5, <3>2
  <2>6. CASE ~(t > now)
    BY <1>1, <1>5, <2>3, <2>4, <2>6
  <2>7. QED
    BY <2>5, <2>6
<1>7. ArmedRight'
  <2>1. SUFFICES ASSUME OwnsAlarm, aged = Never
                 PROVE  \/ alarm' = armed /\ armed = NextOn(t)
                        \/ armed # Never /\ armed <= t
    BY <1>2 DEF ArmedRight, aged
  <2>2. now < t /\ doubt = Never
    BY <1>1, <1>2, <1>5, <2>1
  <2>3. \/ alarm = armed /\ armed = NextOn(now)
        \/ armed # Never /\ armed <= now
    <3>1. checkedUntil # Never
      BY <1>4 DEF Jumped
    <3>2. ArmedRight
      BY DEF Kept, AlarmKept
    <3>3. QED
      BY <2>1, <2>2, <3>1, <3>2 DEF ArmedRight
  <2>4. CASE armed # Never /\ armed <= now
    BY <1>1, <2>2, <2>4
  <2>5. CASE alarm = armed /\ armed = NextOn(now)
    <3>1. NextOn(t) = armed \/ (armed # Never /\ armed <= t)
      <4>1. NextOn(t) = NextOn(now) \/ (NextOn(now) # Never /\ NextOn(now) <= t)
        BY <1>1, <2>2, NextOnLasts
      <4>2. QED
        BY <2>5, <4>1
    <3>2. CASE armed # Never /\ armed <= t
      BY <3>2
    <3>3. CASE NextOn(t) = armed /\ ~(armed # Never /\ armed <= t)
      <4>1. armed = Never \/ ~(armed <= t)
        BY <3>3
      <4>2. alarm' = armed
        BY <1>2, <2>5, <4>1
      <4>3. QED
        BY <3>3, <4>2
    <3>4. QED
      BY <3>1, <3>2, <3>3
  <2>6. QED
    BY <2>3, <2>4, <2>5
<1>8. QED
  BY <1>3, <1>6, <1>7 DEF Kept, AlarmKept

LEMMA OthersKept ==
  ASSUME IInv, Kept, NEW t \in Times, OthersSetAlarm(t)
  PROVE  Kept'
<1>1. /\ TypeOK /\ now \in Int /\ checkedUntil \in Int /\ nextCheck \in Int
      /\ MaxGap \in Int /\ Recheck \in Int /\ MaxGap >= 0 /\ Recheck >= 0
  BY TimesFact, ClockAssumption DEF IInv, TypeOK
<1>2. doubt' = 0 /\ UNCHANGED <<now, polled, checkedUntil, nextCheck, spent, since>>
  BY DEF OthersSetAlarm
<1>3. NothingMissed' /\ FirstTimes' /\ NearMark'
  BY <1>2 DEF Kept, AlarmKept, NothingMissed, FirstTimes, NearMark, Jumped
<1>4. CheckedSoon'
  <2>1. SUFFICES ASSUME OwnsAlarm, ~Jumped
                 PROVE  /\ nextCheck <= checkedUntil + Recheck \/ nextCheck <= now + Recheck
                        /\ polled => nextCheck <= checkedUntil + Recheck
                        /\ nextCheck - now <= Recheck + MaxGap
    BY <1>1, <1>2 DEF CheckedSoon, Jumped
  <2>2. checkedUntil - now <= MaxGap
    BY <1>1, <2>1, NotJumpedFact
  <2>3. /\ nextCheck <= checkedUntil + Recheck \/ nextCheck <= now + Recheck
        /\ polled => nextCheck <= checkedUntil + Recheck
    BY <2>1 DEF Kept, AlarmKept, CheckedSoon
  <2>4. nextCheck - now <= Recheck + MaxGap
    BY <1>1, <2>2, <2>3
  <2>5. QED
    BY <2>3, <2>4
<1>5. ArmedRight' /\ AlarmIsKept'
  BY <1>1, <1>2 DEF ArmedRight, AlarmIsKept
<1>6. QED
  BY <1>3, <1>4, <1>5 DEF Kept, AlarmKept

LEMMA RestartKept ==
  ASSUME Kept, Restart
  PROVE  Kept'
  BY DEF Kept, AlarmKept, NothingMissed, FirstTimes, NearMark, CheckedSoon,
         ArmedRight, AlarmIsKept, Jumped, Restart

LEMMA NextKept == IInv /\ Kept /\ Next => Kept'
<1> SUFFICES ASSUME IInv, Kept, Next PROVE Kept'
  OBVIOUS
<1>1. CASE Poll
  BY <1>1, PollBlindKept, PollAgainKept, PollForwardKept DEF Poll
<1>2. CASE SyncRtc
  BY <1>2, SyncRtcKept
<1>3. CASE \E t \in Times : ClockMoves(t) \/ OthersSetAlarm(t)
  BY <1>3, ClockKept, OthersKept
<1>4. CASE Restart
  BY <1>4, RestartKept
<1>5. QED
  BY <1>1, <1>2, <1>3, <1>4 DEF Next

-----------------------------------------------------------------------------
(* The theorems that need it. *)

\* Nothing due is lost, no repeated minute fires, and the alarm is looked
\* after, in every state the schedule can reach.
THEOREM AllIsKept == Spec => []Kept
<1>1. Init => Kept
  BY DEF Init, Kept, AlarmKept, NothingMissed, FirstTimes, NearMark, CheckedSoon,
         ArmedRight, AlarmIsKept, Jumped
<1>2. Kept /\ UNCHANGED vars => Kept'
  BY DEF Kept, AlarmKept, NothingMissed, FirstTimes, NearMark, CheckedSoon,
         ArmedRight, AlarmIsKept, Jumped, vars, marks, rtc, history
<1>3. QED
  BY <1>1, <1>2, NextKept, InductiveInvariant, PTL DEF Spec

\* Every minute the clock ran over while the daemon watched, and at which a
\* shutdown or restart was due, has fired, or a later one in the same gap.
THEOREM NothingIsMissed == Spec => []MissesNothing
<1>1. Kept => MissesNothing
  BY DEF Kept, NothingMissed, MissesNothing
<1>2. QED
  BY <1>1, AllIsKept, PTL

\* The wake alarm is right at every poll, or looked at again in time.
THEOREM AlarmRight == Spec => []AlarmIsKept
<1>1. Kept => AlarmIsKept
  BY DEF Kept, AlarmKept
<1>2. QED
  BY <1>1, AllIsKept, PTL

\* What is_repeated_wall_time is for: of two minutes that show the same on the
\* wall, the later one is a repeated one.
LEMMA LaterIsRepeated ==
  ASSUME NEW k \in Minutes, NEW l \in Minutes, k < l, Wall(k) = Wall(l)
  PROVE  Repeated(l)
<1>1. k \in Int /\ l \in Int /\ k >= 0 /\ l >= 0 /\ Lookback \in Int /\ Lookback >= 0
  BY TimesFact, ClockAssumption DEF Minutes
<1>2. l <= Horizon
  <2>1. Horizon \in Nat /\ Minute \in Nat /\ Minute >= 1 /\ l <= Horizon \div Minute
    BY ClockAssumption DEF Minutes
  <2>2. Horizon \div Minute <= Horizon
    BY <2>1
  <2>3. Horizon \div Minute \in Int
    BY <2>1
  <2>4. QED
    BY <1>1, <2>1, <2>2, <2>3
<1>3. \A j \in (l - Lookback) .. l : Offset(j) \in Int
  <2>1. \A j \in (l - Lookback) .. l : j \in -Lookback .. Horizon
    BY <1>1, <1>2, ClockAssumption
  <2>2. QED
    BY <2>1, ClockAssumption
<1>4. l - k <= Lookback
  BY ShiftsAssumption
<1>5. /\ k \in (l - Lookback) .. l /\ l \in (l - Lookback) .. l
      /\ l - Lookback \in (l - Lookback) .. l
  BY <1>1, <1>4
<1>6. Offset(k) \in Int /\ Offset(l) \in Int /\ Offset(l - Lookback) \in Int
  BY <1>3, <1>5
<1>7. Offset(k) - Offset(l) = l - k
  BY <1>1, <1>6 DEF Wall
<1>8. Offset(k) = Offset(l - Lookback)
  <2>1. PICK c \in (l - Lookback) .. (l + 1) : \A j \in (l - Lookback) .. l :
          Offset(j) = IF j < c THEN Offset(l - Lookback) ELSE Offset(l)
    BY ShiftsAssumption
  <2>2. Offset(k) # Offset(l)
    BY <1>1, <1>6, <1>7
  <2>3. QED
    BY <1>5, <2>1, <2>2
<1>9. Offset(l - Lookback) - Offset(l) = l - k /\ l - k > 0 /\ l - (l - k) = k
  BY <1>1, <1>7, <1>8
<1>10. QED
  BY <1>9 DEF Repeated

\* In the hour that comes twice, a time of day fires once.
THEOREM OnceInTheNight == Spec => []OnceThatNight
<1>1. TypeOK /\ Kept => OnceThatNight
  <2> SUFFICES ASSUME TypeOK, Kept, NEW k \in spent, NEW l \in spent,
                      Wall(k) = Wall(l), k # l
               PROVE  FALSE
    BY DEF OnceThatNight
  <2>1. k \in Minutes /\ l \in Minutes /\ k \in Int /\ l \in Int
    BY TimesFact DEF TypeOK
  <2>2. ~Repeated(k) /\ ~Repeated(l)
    BY DEF Kept, FirstTimes
  <2>3. CASE k < l
    BY <2>1, <2>2, <2>3, LaterIsRepeated
  <2>4. CASE l < k
    BY <2>1, <2>2, <2>4, LaterIsRepeated
  <2>5. QED
    BY <2>1, <2>3, <2>4
<1>2. QED
  BY <1>1, TypeCorrect, AllIsKept, PTL

-----------------------------------------------------------------------------
(* What the configuration guarantees. *)


\* Two finite numbers of which the first is not at least the other.
LEMMA NotAtLeast ==
  ASSUME NEW a \in Int, NEW b \in Int, ~AtLeast(a, b)
  PROVE  a < b
BY NumbersAssumption DEF AtLeast

\* A sanitized profile has finite temperatures and an interval within bounds;
\* the rest of it, as far as it matters, is as it was.
LEMMA SanitizedFanFacts ==
  ASSUME NEW f \in RawFans, NEW g, g = SanitizedFan(f)
  PROVE  /\ g.every \in 1 .. 60 /\ g.min \in Int /\ g.max \in Int
         /\ g.minPwm \in Int /\ g.minStop \in Int /\ g.maxPwm \in Int
         /\ g.fixed \in Int \cup {None}
         /\ \A s \in g.sensors : s.min \in Int \cup {None} /\ s.max \in Int \cup {None}
<1>1. /\ f.every \in Int /\ f.min \in Degrees /\ f.max \in Degrees
      /\ f.minPwm \in Int /\ f.minStop \in Int /\ f.maxPwm \in Int
      /\ f.fixed \in Int \cup {None} /\ f.sensors \subseteq Selectors
  BY DEF RawFans
<1>2. /\ g.every = Clamp(f.every, 1, 60)
      /\ g.min = Finite(f.min, DefaultMin) /\ g.max = Finite(f.max, DefaultMax)
      /\ g.minPwm = f.minPwm /\ g.minStop = f.minStop /\ g.maxPwm = f.maxPwm
      /\ g.fixed = f.fixed
      /\ g.sensors = {[s EXCEPT !.min = Finite(s.min, None), !.max = Finite(s.max, None)]
                        : s \in f.sensors}
  BY DEF SanitizedFan, RawFans
<1>3. g.every \in 1 .. 60
  <2>1. f.every \in Int /\ g.every = Clamp(f.every, 1, 60)
    BY <1>1, <1>2
  <2> QED
    BY ONLY <2>1 DEF Clamp, ClampTo
<1>4. g.min \in Int /\ g.max \in Int
  <2>1. f.min = NaN \/ f.min \in Int
    BY <1>1 DEF Degrees
  <2>2. f.max = NaN \/ f.max \in Int
    BY <1>1 DEF Degrees
  <2>3. g.min = Finite(f.min, DefaultMin) /\ g.max = Finite(f.max, DefaultMax)
    BY <1>2
  <2> QED
    BY ONLY <2>1, <2>2, <2>3 DEF Finite, DefaultMin, DefaultMax
<1>5. ASSUME NEW t \in g.sensors
      PROVE  t.min \in Int \cup {None} /\ t.max \in Int \cup {None}
  <2>1. PICK s \in f.sensors :
          t = [s EXCEPT !.min = Finite(s.min, None), !.max = Finite(s.max, None)]
    BY <1>2, <1>5
  <2>2. /\ s.min \in Degrees \cup {None} /\ s.max \in Degrees \cup {None}
        /\ t.min = Finite(s.min, None) /\ t.max = Finite(s.max, None)
    BY <1>1, <2>1 DEF Selectors
  <2> QED
    BY <2>2, NumbersAssumption DEF Finite, Degrees
<1> QED
  BY <1>1, <1>2, <1>3, <1>4, <1>5

\* A fan profile that validate leaves enabled is one that FanController can
\* work with, whatever is in the file: in particular no NaN, which passes
\* every comparison, gets as far as a curve (validate, sanitize_fan_temps,
\* FanProfile::problems).
THEOREM EnabledFansAreSane ==
  ASSUME NEW f \in RawFans, ValidFan(f).enabled
  PROVE  FanSane(ValidFan(f))
<1> DEFINE g == SanitizedFan(f)
           v == ValidFan(f)
<1>1. v.enabled = (g.enabled /\ NoProblems(g))
  BY DEF ValidFan, SanitizedFan, RawFans
<1>2. v = [g EXCEPT !.enabled = g.enabled /\ NoProblems(g)]
  BY DEF ValidFan
<1> HIDE DEF g, v
<1>3. /\ v.every = g.every /\ v.min = g.min /\ v.max = g.max
      /\ v.minPwm = g.minPwm /\ v.minStop = g.minStop /\ v.maxPwm = g.maxPwm
      /\ v.fixed = g.fixed /\ v.mode = g.mode /\ v.sensors = g.sensors
  BY <1>2
<1>4. NoProblems(g)
  BY <1>1 DEF v
<1>5. /\ g.every \in 1 .. 60 /\ g.min \in Int /\ g.max \in Int
      /\ g.minPwm \in Int /\ g.minStop \in Int /\ g.maxPwm \in Int
      /\ g.fixed \in Int \cup {None}
      /\ \A s \in g.sensors : s.min \in Int \cup {None} /\ s.max \in Int \cup {None}
  BY SanitizedFanFacts DEF g
<1>6. g.min < g.max
  BY <1>4, <1>5, NotAtLeast DEF NoProblems
<1>7. g.minPwm <= g.maxPwm /\ g.minStop <= g.maxPwm
  BY <1>4, <1>5 DEF NoProblems
<1>8. g.mode = "fixed" => g.fixed \in g.minPwm .. g.maxPwm /\ g.sensors # {}
  BY <1>4, <1>5 DEF NoProblems
<1>9. ASSUME NEW s \in g.sensors
      PROVE  /\ RampMin(g, s) \in Int /\ RampMax(g, s) \in Int
             /\ RampMin(g, s) < RampMax(g, s)
  <2>1. RampMin(g, s) \in Int /\ RampMax(g, s) \in Int
    BY <1>5, <1>9 DEF RampMin, RampMax
  <2>2. ~AtLeast(RampMin(g, s), RampMax(g, s))
    BY <1>4, <1>9 DEF NoProblems
  <2> QED
    BY <2>1, <2>2, NotAtLeast
<1>10. \A s \in v.sensors : RampMin(v, s) = RampMin(g, s) /\ RampMax(v, s) = RampMax(g, s)
  BY <1>3 DEF RampMin, RampMax
<1>11. FanSane(v)
  BY <1>3, <1>5, <1>6, <1>7, <1>8, <1>9, <1>10 DEF FanSane
<1> QED
  BY <1>11 DEF v

\* The limits of an enabled [cpu_power] are what CpuPower assumes: PL1 is not
\* over PL2, and no limit or window is zero (CpuPowerConfig::problems).
THEOREM EnabledLimitsAreSane ==
  ASSUME NEW c \in RawCpu, ValidCpu(c).enabled
  PROVE  CpuSane(ValidCpu(c))
<1> DEFINE v == ValidCpu(c)
<1>1. CpuFine(c) /\ v.own = c.own /\ v.stock = c.stock
  BY DEF ValidCpu, RawCpu
<1> HIDE DEF v
<1>2. ASSUME NEW l \in {c.own, c.stock}
      PROVE  /\ 0 < InMicro(l).pl1 /\ InMicro(l).pl1 <= InMicro(l).pl2
             /\ 0 < InMicro(l).tau
  <2> DEFINE pl1 == l.pl1
             pl2 == l.pl2
             tau == l.tau
  <2>1. LimitsFine(l)
    BY <1>1, <1>2 DEF CpuFine
  <2>2. pl1 \in 1 .. 100 /\ pl2 \in 1 .. 100 /\ ~(pl2 < pl1) /\ tau \in 1 .. 3600
    BY ONLY <2>1 DEF LimitsFine
  <2>3. InMicro(l) = [pl1 |-> pl1 * Million, pl2 |-> pl2 * Million, tau |-> tau * Million]
    BY DEF InMicro
  <2> HIDE DEF pl1, pl2, tau
  <2>4. /\ 0 < pl1 * Million /\ pl1 * Million <= pl2 * Million
        /\ 0 < tau * Million
    BY ONLY <2>2 DEF Million
  <2> QED
    BY ONLY <2>3, <2>4
<1>3. CpuSane(v)
  BY <1>1, <1>2 DEF CpuSane
<1> QED
  BY <1>3 DEF v

\* A time of the day that parses is one of its minutes.
LEMMA ParsedTime ==
  ASSUME NEW t \in ClockTimes, ParseTime(t) # None
  PROVE  ParseTime(t) \in 0 .. 1439
<1>1. t # None /\ t.hour < 24 /\ t.minute < 60
  BY DEF ParseTime
<1>2. t.hour \in Nat /\ t.minute \in Nat
  BY <1>1 DEF ClockTimes
<1> QED
  BY <1>1, <1>2 DEF ParseTime

\* Every rule of the schedule has days of the week, a minute of the day and a
\* countdown of at most an hour (Rule::parse, parse_rules).
THEOREM ParsedRulesAreSane ==
  ASSUME NEW raw \in SUBSET RawRules, NEW r \in ParseRules(raw)
  PROVE  RuleSane(r)
<1>1. PICK q \in raw : RuleFine(q) /\ r = Parsed(q)
  BY DEF ParseRules
<1>2. /\ q.action \in Actions \cup {None} /\ q.time \in ClockTimes /\ q.countdown \in Nat
  BY <1>1 DEF RawRules
<1>3. /\ r.action = q.action /\ r.days = ParseDays(q.days)
      /\ r.minute = ParseTime(q.time) /\ r.countdown = q.countdown
  BY <1>1 DEF Parsed
<1>4. r.minute \in 0 .. 1439
  BY <1>1, <1>2, <1>3, ParsedTime DEF RuleFine
<1>5. \A w \in DOMAIN DayWords : DayWords[w] \subseteq 0 .. 6 /\ DayWords[w] # {}
  BY DEF DayWords
<1>6. r.days \subseteq 0 .. 6 /\ r.days # {}
  BY <1>1, <1>3, <1>5 DEF RuleFine, ParseDays
<1>7. r.action \in Actions
  BY <1>1, <1>2, <1>3 DEF RuleFine
<1>8. r.countdown \in 0 .. MaxCountdown
  <2>1. r.countdown \in Nat /\ ~(r.countdown > MaxCountdown)
    BY <1>1, <1>2, <1>3 DEF RuleFine
  <2>2. \A k \in Nat : ~(k > MaxCountdown) => k \in 0 .. MaxCountdown
    BY DEF MaxCountdown
  <2> QED
    BY <2>1, <2>2
<1> QED
  BY <1>4, <1>6, <1>7, <1>8 DEF RuleSane

\* The lint's arithmetic is right for every pair of minutes of the week: the
\* power-on is in the window after the shutdown, this week or the next (lint).
THEOREM LintIsExactForAll ==
  ASSUME NEW m \in 0 .. Week - 1, NEW n \in 0 .. Week - 1, NEW window \in 1 .. Week
  PROVE  TooSoon(m, n, window)
           <=> n \in m .. m + window - 1 \/ n + Week \in m .. m + window - 1
<1>1. m \in Int /\ n \in Int /\ window \in Int /\ Week \in Int
  BY DEF Week
<1>2. 0 <= m /\ m < Week /\ 0 <= n /\ n < Week /\ 1 <= window /\ window <= Week
  BY DEF Week
<1>3. (n + Week - m) % Week = IF n < m THEN n + Week - m ELSE n - m
  <2>1. /\ \A k \in 0 .. Week - 1 : k % Week = k
        /\ \A k \in 0 .. Week - 1 : (k + Week) % Week = k
    BY DEF Week
  <2>2. CASE n < m
    <3>1. n + Week - m \in 0 .. Week - 1
      BY ONLY <1>1, <1>2, <2>2
    <3> QED
      BY ONLY <3>1, <2>1, <2>2, Zenon
  <2>3. CASE m <= n
    <3>1. n - m \in 0 .. Week - 1 /\ n + Week - m = (n - m) + Week /\ ~(n < m)
      BY ONLY <1>1, <1>2, <2>3
    <3> QED
      BY ONLY <3>1, <2>1, Zenon
  <2> QED
    BY ONLY <1>1, <2>2, <2>3
<1>4. TooSoon(m, n, window) <=> (IF n < m THEN n + Week - m ELSE n - m) < window
  BY ONLY <1>3 DEF TooSoon
<1>5. CASE m <= n
  BY ONLY <1>1, <1>2, <1>4, <1>5
<1>6. CASE n < m
  BY ONLY <1>1, <1>2, <1>4, <1>6
<1> QED
  BY ONLY <1>1, <1>5, <1>6

\* Night mode's window is the interval from its start up to its end, over
\* midnight if need be, and empty if they are the same (SleepConfig::contains).
THEOREM NightIsAnIntervalForAll ==
  ASSUME NEW start \in 0 .. 1439, NEW end \in 0 .. 1439, NEW minute \in 0 .. 1439
  PROVE  Contains(start, end, minute) <=> (minute - start) % 1440 < (end - start) % 1440
<1>1. (minute - start) % 1440 = IF minute < start THEN minute - start + 1440 ELSE minute - start
  OBVIOUS
<1>2. (end - start) % 1440 = IF end < start THEN end - start + 1440 ELSE end - start
  OBVIOUS
<1>3. minute \in Int /\ start \in Int /\ end \in Int /\ minute < 1440 /\ 0 <= end
  OBVIOUS
<1>4. CASE start <= end
  BY ONLY <1>1, <1>2, <1>3, <1>4 DEF Contains
<1>5. CASE end < start
  BY ONLY <1>1, <1>2, <1>3, <1>5 DEF Contains
<1> QED
  BY ONLY <1>3, <1>4, <1>5
=============================================================================
