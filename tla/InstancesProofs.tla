---------------------------- MODULE InstancesProofs ----------------------------
(***************************************************************************)
(* Proofs about Instances: for any number of daemons, outputs and fans, of *)
(* any kind, and whatever company there is.                                *)
(***************************************************************************)
EXTENDS Instances, SequenceTheorems, TLAPS

-----------------------------------------------------------------------------
(* The inductive invariant of the socket's file. *)

SocketTypes ==
  /\ at \in [Daemons -> DaemonPlaces] /\ listening \subseteq Daemons
  /\ file \in Daemons \cup {"none", "stale"}
  /\ guard \in [Daemons -> Daemons \cup {"none", "stale", "gone"}]
  /\ estranged \subseteq Daemons

Bound == {"bound", "spawning", "opening", "up"}

\* Only a daemon that has bound its socket listens, and the file at the path,
\* if it is a daemon's, is that of one that listens.
ListensOnceBound ==
  /\ \A d \in listening : at[d] \in Bound \cup {"removing", "closing"}
  /\ file \in Daemons => file \in listening

\* Whoever starts while another starts, or removes a file, is estranged.
OverlapsKnown ==
  \A d, e \in Daemons :
    d # e /\ at[d] \in Starting \cup {"removing"} /\ at[e] \in Starting => e \in estranged

\* Whoever is about to replace or remove the file, or to remember it, finds
\* there none but an estranged daemon's, its own apart.
OthersAreEstranged ==
  \A d, e \in Daemons :
    d # e /\ at[d] \in {"binding", "clearing", "bound", "removing"} /\ file = e
      => e \in estranged

\* Nor does it remember another's; and no one remembers a daemon that is off.
RemembersOwn ==
  \A d, e \in Daemons :
    guard[d] = e => at[e] # "off" /\ (d # e => e \in estranged)

\* What StaysReachable says holds from when the socket is bound.
FileIsKept ==
  \A d \in listening : at[d] \in Bound /\ d \notin estranged => file = d

SocketInv ==
  /\ SocketTypes /\ ListensOnceBound /\ OverlapsKnown /\ OthersAreEstranged
  /\ RemembersOwn /\ FileIsKept

-----------------------------------------------------------------------------
(* The inductive invariant of the sweep. *)

ProfileTypes ==
  /\ tool \in ToolPlaces /\ cur \in 1 .. Outputs
  /\ out \in [1 .. Outputs -> {"found", "daemon", "safe", "sweep"}]
  /\ saved \in {"found", "daemon", "safe", "sweep", "unread", "skipped", "none"}
  /\ {pwm, minStop} \subseteq 0 .. Full /\ seen \in Seq(Nat)
  /\ kind \in FanKinds /\ spins \subseteq Fans /\ muddled \in BOOLEAN
  /\ leftover \subseteq 1 .. Outputs
  /\ tool \in Sleeping \cup {"restoring"} => saved # "none"

\* There is a proposal only once the sweep has made it.
ProposedLast == proposal # NoProposal => tool = "restoring"

\* While nothing disturbs it, the fan turns as the last command and its kind
\* have it.
FanObeys ==
  tool \in Sleeping /\ ~muddled =>
    /\ out[cur] = "sweep"
    /\ cur \in Fans => /\ cur \in spins => pwm >= kind.stall
                       /\ cur \notin spins => pwm < kind.start

\* The probe has its readings: two of them at full speed, and of an output
\* without a fan nothing.
ProbeReads ==
  /\ tool \in {"high", "again"} => pwm = Full
  /\ tool \in {"low", "again"} =>
       /\ Len(seen) = (IF tool = "low" THEN 1 ELSE 2)
       /\ cur \notin Fans => \A i \in DOMAIN seen : seen[i] = 0
       /\ seen[1] > 0 /\ ~muddled => Full >= kind.stall

\* A ramp is that of a fan, which the last speed but one kept turning; on the
\* way up it stood still before.
RampIsTrue ==
  /\ tool \in {"down", "up"} => cur \in Fans
  /\ tool \in {"down", "up"} /\ ~muddled => minStop >= kind.stall
  /\ tool = "up" /\ ~muddled /\ cur \in spins => pwm >= kind.start

ProfileInv ==
  /\ ProfileTypes /\ SweepIsUndone /\ ProposedLast /\ FanObeys /\ ProbeReads
  /\ RampIsTrue /\ ProposalIsTrue

IInv == SocketInv /\ ProfileInv

-----------------------------------------------------------------------------
(* What the steps of the daemons do to the socket's file. *)

\* A daemon starts: whoever starts beside it is estranged with it, and no
\* guard or path knows it.
LEMMA LaunchKeepsFile ==
  ASSUME SocketInv, NEW d \in Daemons, Launches(d)
  PROVE  SocketInv'
<1> USE DaemonsAssumption DEF Launches, Moves, SocketInv, SocketTypes, DaemonPlaces, Starting
<1>1. SocketTypes'
  OBVIOUS
<1>2. ListensOnceBound'
  BY DEF ListensOnceBound, Bound
<1>3. OverlapsKnown'
  BY DEF OverlapsKnown
<1>4. OthersAreEstranged'
  BY DEF OthersAreEstranged, ListensOnceBound, Bound
<1>5. RemembersOwn'
  BY DEF RemembersOwn
<1>6. FileIsKept'
  BY DEF FileIsKept, ListensOnceBound, Bound
<1> QED
  BY <1>1, <1>2, <1>3, <1>4, <1>5, <1>6

\* It finds nobody who answers: the file is no daemon's.
LEMMA NobodyThere ==
  ASSUME SocketInv, NEW d \in Daemons, FindsNobody(d)
  PROVE  SocketInv'
<1> USE DaemonsAssumption DEF FindsNobody, Moves, Answered, SocketInv, SocketTypes, DaemonPlaces, Starting
<1>1. SocketTypes'
  OBVIOUS
<1>2. ListensOnceBound'
  BY DEF ListensOnceBound, Bound
<1>3. OverlapsKnown'
  BY DEF OverlapsKnown
<1>4. OthersAreEstranged'
  BY DEF OthersAreEstranged, ListensOnceBound, Bound
<1>5. RemembersOwn'
  BY DEF RemembersOwn
<1>6. FileIsKept'
  BY DEF FileIsKept, Bound
<1> QED
  BY <1>1, <1>2, <1>3, <1>4, <1>5, <1>6

\* Steps that change nothing of this but where the daemon is.
LEMMA GoesOnAlone ==
  ASSUME SocketInv, NEW d \in Daemons,
         BindFails(d) \/ SpawnsAccept(d) \/ OpensPort(d)
  PROVE  SocketInv'
<1> USE DaemonsAssumption DEF BindFails, SpawnsAccept, OpensPort, Moves, SocketInv, SocketTypes, DaemonPlaces, Starting
<1>1. SocketTypes'
  OBVIOUS
<1>2. ListensOnceBound'
  BY DEF ListensOnceBound, Bound
<1>3. OverlapsKnown'
  BY DEF OverlapsKnown
<1>4. OthersAreEstranged'
  BY DEF OthersAreEstranged
<1>5. RemembersOwn'
  BY DEF RemembersOwn
<1>6. FileIsKept'
  BY DEF FileIsKept, ListensOnceBound, Bound
<1> QED
  BY <1>1, <1>2, <1>3, <1>4, <1>5, <1>6

\* It puts its own file at the path: who had one there is estranged.
LEMMA BindKeepsFile ==
  ASSUME SocketInv, NEW d \in Daemons, BindsPrivately(d)
  PROVE  SocketInv'
<1> USE DaemonsAssumption DEF BindsPrivately, Moves, Put, SocketInv, SocketTypes, DaemonPlaces, Starting
<1>1. SocketTypes'
  OBVIOUS
<1>2. ListensOnceBound'
  BY DEF ListensOnceBound, Bound
<1>3. OverlapsKnown'
  BY DEF OverlapsKnown
<1>4. OthersAreEstranged'
  BY DEF OthersAreEstranged, OverlapsKnown
<1>5. RemembersOwn'
  BY DEF RemembersOwn
<1>6. FileIsKept'
  BY DEF FileIsKept, OthersAreEstranged, Bound
<1> QED
  BY <1>1, <1>2, <1>3, <1>4, <1>5, <1>6

\* It removes what is there, to bind in place.
LEMMA ClearKeepsFile ==
  ASSUME SocketInv, NEW d \in Daemons, ClearsPlace(d)
  PROVE  SocketInv'
<1> USE DaemonsAssumption DEF ClearsPlace, Moves, Put, SocketInv, SocketTypes, DaemonPlaces, Starting
<1>1. SocketTypes'
  OBVIOUS
<1>2. ListensOnceBound'
  BY DEF ListensOnceBound, Bound
<1>3. OverlapsKnown'
  BY DEF OverlapsKnown
<1>4. OthersAreEstranged'
  BY DEF OthersAreEstranged
<1>5. RemembersOwn'
  BY DEF RemembersOwn
<1>6. FileIsKept'
  BY DEF FileIsKept, OthersAreEstranged, Bound
<1> QED
  BY <1>1, <1>2, <1>3, <1>4, <1>5, <1>6

\* It ends.
LEMMA GoneKeepsFile ==
  ASSUME SocketInv, NEW d \in Daemons, Gone(d)
  PROVE  SocketInv'
<1> USE DaemonsAssumption DEF Gone, SocketInv, SocketTypes, DaemonPlaces, Starting
<1>1. SocketTypes'
  OBVIOUS
<1>2. ListensOnceBound'
  BY DEF ListensOnceBound, Bound
<1>3. OverlapsKnown'
  BY DEF OverlapsKnown
<1>4. OthersAreEstranged'
  BY DEF OthersAreEstranged
<1>5. RemembersOwn'
  BY DEF RemembersOwn
<1>6. FileIsKept'
  BY DEF FileIsKept, Bound
<1> QED
  BY <1>1, <1>2, <1>3, <1>4, <1>5, <1>6

\* It binds in place, or runs without a socket.
LEMMA BindInPlaceKeepsFile ==
  ASSUME SocketInv, NEW d \in Daemons, BindsInPlace(d), file = "none"
  PROVE  SocketInv'
<1> USE DaemonsAssumption DEF BindsInPlace, Moves, Put, SocketInv, SocketTypes, DaemonPlaces, Starting
<1>1. SocketTypes'
  OBVIOUS
<1>2. ListensOnceBound'
  BY DEF ListensOnceBound, Bound
<1>3. OverlapsKnown'
  BY DEF OverlapsKnown
<1>4. OthersAreEstranged'
  BY DEF OthersAreEstranged, OverlapsKnown
<1>5. RemembersOwn'
  BY DEF RemembersOwn
<1>6. FileIsKept'
  BY DEF FileIsKept, ListensOnceBound, Bound
<1> QED
  BY <1>1, <1>2, <1>3, <1>4, <1>5, <1>6

\* Its guard remembers the file: its own, or that of an estranged daemon.
LEMMA IdentityKeepsFile ==
  ASSUME SocketInv, NEW d \in Daemons, TakesIdentity(d)
  PROVE  SocketInv'
<1> USE DaemonsAssumption DEF TakesIdentity, Moves, SocketInv, SocketTypes, DaemonPlaces, Starting
<1>1. SocketTypes'
  OBVIOUS
<1>2. ListensOnceBound'
  BY DEF ListensOnceBound, Bound
<1>3. OverlapsKnown'
  BY DEF OverlapsKnown
<1>4. OthersAreEstranged'
  BY DEF OthersAreEstranged
<1>5. RemembersOwn'
  BY DEF RemembersOwn, ListensOnceBound, OthersAreEstranged, Bound
<1>6. FileIsKept'
  BY DEF FileIsKept, Bound
<1> QED
  BY <1>1, <1>2, <1>3, <1>4, <1>5, <1>6

\* Its guard is dropped again.
LEMMA SpawnFailureKeepsFile ==
  ASSUME SocketInv, NEW d \in Daemons, SpawnFails(d)
  PROVE  SocketInv'
<1> USE DaemonsAssumption DEF SpawnFails, Moves, Mine, SocketInv, SocketTypes, DaemonPlaces, Starting
<1>1. SocketTypes'
  OBVIOUS
<1>2. ListensOnceBound'
  BY DEF ListensOnceBound, Bound
<1>3. OverlapsKnown'
  BY DEF OverlapsKnown
<1>4. OthersAreEstranged'
  BY DEF OthersAreEstranged
<1>5. RemembersOwn'
  BY DEF RemembersOwn
<1>6. FileIsKept'
  BY DEF FileIsKept, RemembersOwn, Bound
<1> QED
  BY <1>1, <1>2, <1>3, <1>4, <1>5, <1>6

\* Its guard is about to remove the file, or not to.
LEMMA GuardKeepsFile ==
  ASSUME SocketInv, NEW d \in Daemons, DropsGuard(d)
  PROVE  SocketInv'
<1> USE DaemonsAssumption DEF DropsGuard, Moves, Mine, SocketInv, SocketTypes, DaemonPlaces, Starting
<1>1. SocketTypes'
  OBVIOUS
<1>2. ListensOnceBound'
  BY DEF ListensOnceBound, Bound
<1>3. OverlapsKnown'
  BY DEF OverlapsKnown
<1>4. OthersAreEstranged'
  BY DEF OthersAreEstranged, RemembersOwn
<1>5. RemembersOwn'
  BY DEF RemembersOwn
<1>6. FileIsKept'
  BY DEF FileIsKept, Bound
<1> QED
  BY <1>1, <1>2, <1>3, <1>4, <1>5, <1>6

\* It removes the file: who had it is estranged.
LEMMA RemovalKeepsFile ==
  ASSUME SocketInv, NEW d \in Daemons, RemovesFile(d)
  PROVE  SocketInv'
<1> USE DaemonsAssumption DEF RemovesFile, Moves, Put, SocketInv, SocketTypes, DaemonPlaces, Starting
<1>1. SocketTypes'
  OBVIOUS
<1>2. ListensOnceBound'
  BY DEF ListensOnceBound, Bound
<1>3. OverlapsKnown'
  BY DEF OverlapsKnown
<1>4. OthersAreEstranged'
  BY DEF OthersAreEstranged
<1>5. RemembersOwn'
  BY DEF RemembersOwn
<1>6. FileIsKept'
  BY DEF FileIsKept, OthersAreEstranged, Bound
<1> QED
  BY <1>1, <1>2, <1>3, <1>4, <1>5, <1>6

\* Someone removes it: all there are estranged.
LEMMA UnlinkKeepsFile ==
  ASSUME SocketInv, Unlinks
  PROVE  SocketInv'
<1> USE DaemonsAssumption DEF Unlinks, Put, SocketInv, SocketTypes, DaemonPlaces, Starting
<1>1. SocketTypes'
  OBVIOUS
<1>2. ListensOnceBound'
  BY DEF ListensOnceBound, Bound
<1>3. OverlapsKnown'
  BY DEF OverlapsKnown
<1>4. OthersAreEstranged'
  BY DEF OthersAreEstranged
<1>5. RemembersOwn'
  BY DEF RemembersOwn
<1>6. FileIsKept'
  BY DEF FileIsKept, ListensOnceBound, Bound
<1> QED
  BY <1>1, <1>2, <1>3, <1>4, <1>5, <1>6

\* Steps that change none of it.
LEMMA RestKeepsFile ==
  ASSUME SocketInv, UNCHANGED <<at, listening, file, guard, estranged>>
  PROVE  SocketInv'
<1> USE DaemonsAssumption DEF SocketInv, SocketTypes, DaemonPlaces, Starting
<1>1. SocketTypes'
  OBVIOUS
<1>2. ListensOnceBound'
  BY DEF ListensOnceBound, Bound
<1>3. OverlapsKnown'
  BY DEF OverlapsKnown
<1>4. OthersAreEstranged'
  BY DEF OthersAreEstranged
<1>5. RemembersOwn'
  BY DEF RemembersOwn
<1>6. FileIsKept'
  BY DEF FileIsKept, Bound
<1> QED
  BY <1>1, <1>2, <1>3, <1>4, <1>5, <1>6

-----------------------------------------------------------------------------
(* The two halves of a step of the sweep. *)

\* The constants of a fan.
LEMMA KindOfFan ==
  ASSUME NEW k \in FanKinds
  PROVE  k.stall \in Nat /\ k.start \in Nat /\ k.stall <= k.start
BY SweepAssumption

\* What the tach says, while nothing else writes to the output: that the fan
\* turns, or that it does not.
LEMMA ReadingIsTrue ==
  ASSUME ProfileTypes, FanObeys, tool \in Sleeping, NEW r \in Readings
  PROVE  /\ r \in Nat
         /\ cur \notin Fans => r = 0
         /\ ~muddled => /\ r > 0 => cur \in Fans /\ cur \in spins /\ pwm >= kind.stall
                        /\ r = 0 /\ cur \in Fans => cur \notin spins
<1>1. pwm \in Nat /\ Full \in Nat
  BY SweepAssumption DEF ProfileTypes
<1> QED
  BY <1>1 DEF Readings, FanObeys

\* What a command does to the output and to its fan.
LEMMA CommandActs ==
  ASSUME ProfileTypes, NEW v \in 0 .. Full, Commands(v)
  PROVE  /\ pwm' = v
         /\ out' \in [1 .. Outputs -> {"found", "daemon", "safe", "sweep"}]
         /\ spins' \subseteq Fans /\ muddled' \in BOOLEAN
         /\ muddled => muddled'
         /\ \A o \in 1 .. Outputs : o # cur => out'[o] = out[o]
         /\ ~muddled' =>
              /\ out'[cur] = "sweep"
              /\ cur \in Fans =>
                   /\ cur \in spins' => v >= kind.stall
                   /\ cur \notin spins' => v < kind.start
                   /\ cur \in spins' /\ cur \notin spins => v >= kind.start
<1>1. v \in Int /\ kind.stall \in Nat /\ kind.start \in Nat /\ kind.stall <= kind.start
  BY SweepAssumption, KindOfFan DEF ProfileTypes
<1>2. cur \in 1 .. Outputs
  BY DEF ProfileTypes
<1>3. CASE out' = [out EXCEPT ![cur] = "sweep"] /\ spins' = Settled(cur, v) /\ muddled' = muddled
  <2>1. out' \in [1 .. Outputs -> {"found", "daemon", "safe", "sweep"}]
        /\ out'[cur] = "sweep" /\ \A o \in 1 .. Outputs : o # cur => out'[o] = out[o]
    BY <1>2, <1>3 DEF ProfileTypes
  <2>2. spins' \subseteq Fans
    BY <1>3 DEF ProfileTypes, Settled
  <2>3. cur \in Fans =>
          /\ cur \in spins' => v >= kind.stall
          /\ cur \notin spins' => v < kind.start
          /\ cur \in spins' /\ cur \notin spins => v >= kind.start
    BY <1>1, <1>3 DEF Settled
  <2>4. pwm' = v
    BY DEF Commands
  <2>5. muddled' \in BOOLEAN /\ (muddled => muddled')
    BY <1>3 DEF ProfileTypes
  <2> QED
    BY <2>1, <2>2, <2>3, <2>4, <2>5
<1>4. CASE muddled' = TRUE /\ UNCHANGED <<out, spins>>
  BY <1>4 DEF ProfileTypes, Commands
<1> QED
  BY <1>3, <1>4 DEF Commands

\* The next value of a ramp is a value of the output.
LEMMA StepsAreValues ==
  ASSUME NEW v \in 0 .. Full
  PROVE  Larger(v - DownStep, 0) \in 0 .. Full /\ Smaller(v + UpStep, Full) \in 0 .. Full
BY SweepAssumption DEF Larger, Smaller

-----------------------------------------------------------------------------
(* What the steps of the sweep do. *)

\* The steps that only go from one place to another.
LEMMA SweepMoves ==
  ASSUME ProfileInv, Asks \/ Declines \/ Confirms \/ Skips \/ Aborts \/ Pauses \/ IsPaused
  PROVE  ProfileInv'
<1> USE SweepAssumption DEF Asks, Declines, Confirms, Skips, Aborts, Pauses, IsPaused, ProfileInv, ProfileTypes, sweep, world
<1> USE DEF Sleeping, ToolPlaces, NoProposal
<1>1. ProfileTypes'
  OBVIOUS
<1>2. SweepIsUndone'
  BY DEF SweepIsUndone
<1>3. ProposedLast'
  BY DEF ProposedLast
<1>4. FanObeys'
  BY DEF FanObeys
<1>5. ProbeReads'
  BY DEF ProbeReads
<1>6. RampIsTrue'
  BY DEF RampIsTrue
<1>7. ProposalIsTrue'
  BY DEF ProposalIsTrue
<1> QED
  BY <1>1, <1>2, <1>3, <1>4, <1>5, <1>6, <1>7

\* It ends, or is killed.
LEMMA SweepEnds ==
  ASSUME ProfileInv, (tool = "resuming" /\ ToolEnds /\ UNCHANGED leftover) \/ IsKilled
  PROVE  ProfileInv'
<1> USE SweepAssumption DEF ToolEnds, IsKilled, ProfileInv, ProfileTypes, sweep, world
<1> USE DEF Sleeping, ToolPlaces, NoProposal
<1>1. ProfileTypes'
  <2>1. <<>> \in Seq(Nat)
    BY EmptySeq
  <2>2. 1 \in 1 .. Outputs /\ 0 \in 0 .. Full
    OBVIOUS
  <2>3. tool' = "none" /\ cur' = 1 /\ saved' = "none" /\ pwm' = 0 /\ minStop' = 0
        /\ seen' = <<>> /\ muddled' = FALSE /\ UNCHANGED <<out, spins, kind>>
    OBVIOUS
  <2>4. leftover' \subseteq 1 .. Outputs
    OBVIOUS
  <2> QED
    BY <2>1, <2>2, <2>3, <2>4
<1>2. SweepIsUndone'
  BY DEF SweepIsUndone
<1>3. ProposedLast'
  BY DEF ProposedLast
<1>4. FanObeys'
  BY DEF FanObeys
<1>5. ProbeReads'
  BY DEF ProbeReads
<1>6. RampIsTrue'
  BY DEF RampIsTrue
<1>7. ProposalIsTrue'
  BY DEF ProposalIsTrue
<1> QED
  BY <1>1, <1>2, <1>3, <1>4, <1>5, <1>6, <1>7

\* It puts the output back.
LEMMA SweepRestores ==
  ASSUME ProfileInv, Restores
  PROVE  ProfileInv'
<1> USE SweepAssumption DEF Restores, ProfileInv, ProfileTypes, sweep, world
<1> USE DEF Sleeping, ToolPlaces, NoProposal
<1>1. ProfileTypes'
  <2>1. <<>> \in Seq(Nat)
    BY EmptySeq
  <2>2. cur' \in 1 .. Outputs /\ tool' \in {"resuming", "capturing"}
    OBVIOUS
  <2>3. saved' = "none" /\ pwm' = 0 /\ minStop' = 0 /\ seen' = <<>> /\ muddled' = FALSE
        /\ UNCHANGED <<spins, kind>>
    OBVIOUS
  <2>4. out' \in [1 .. Outputs -> {"found", "daemon", "safe", "sweep"}]
    OBVIOUS
  <2>5. leftover' \subseteq 1 .. Outputs
    OBVIOUS
  <2>6. 0 \in 0 .. Full
    OBVIOUS
  <2> QED
    BY <2>1, <2>2, <2>3, <2>4, <2>5, <2>6
<1>2. SweepIsUndone'
  BY DEF SweepIsUndone
<1>3. ProposedLast'
  BY DEF ProposedLast
<1>4. FanObeys'
  BY DEF FanObeys
<1>5. ProbeReads'
  BY DEF ProbeReads
<1>6. RampIsTrue'
  BY DEF RampIsTrue
<1>7. ProposalIsTrue'
  BY DEF ProposalIsTrue
<1> QED
  BY <1>1, <1>2, <1>3, <1>4, <1>5, <1>6, <1>7

\* A daemon or the fail-safe writes to the outputs.
LEMMA OthersWrite ==
  ASSUME ProfileInv, UNCHANGED <<tool, paused, sweep, aborted, spins, kind>>,
         NEW d, NEW tried,
         LeftAtFullSpeed(d, tried) \/ \E o \in Configured : WrittenBy(o, "daemon")
  PROVE  ProfileInv'
<1> USE SweepAssumption, InstancesAssumption DEF LeftAtFullSpeed, WrittenBy, ProfileInv, ProfileTypes, sweep, world
<1> USE DEF Sleeping, ToolPlaces, NoProposal
<1>1. ProfileTypes'
  OBVIOUS
<1>2. SweepIsUndone'
  BY DEF SweepIsUndone
<1>3. ProposedLast'
  BY DEF ProposedLast
<1>4. FanObeys'
  BY DEF FanObeys
<1>5. ProbeReads'
  BY DEF ProbeReads
<1>6. RampIsTrue'
  BY DEF RampIsTrue
<1>7. ProposalIsTrue'
  BY DEF ProposalIsTrue
<1> QED
  BY <1>1, <1>2, <1>3, <1>4, <1>5, <1>6, <1>7

\* A second reading leaves the first.
LEMMA SecondReading ==
  ASSUME NEW s \in Seq(Nat), Len(s) = 1, NEW r \in Nat
  PROVE  /\ Append(s, r) \in Seq(Nat) /\ Len(Append(s, r)) = 2
         /\ Append(s, r)[1] = s[1] /\ Append(s, r)[2] = r
<1>1. Append(s, r) \in Seq(Nat)
  BY AppendProperties, Zenon
<1>2. Len(Append(s, r)) = Len(s) + 1
  BY AppendProperties, Zenon
<1>3. Append(s, r)[1] = s[1]
  OBVIOUS
<1>4. Append(s, r)[Len(s) + 1] = r
  BY AppendProperties, Zenon
<1>5. Len(s) + 1 = 2
  OBVIOUS
<1> QED
  BY <1>1, <1>2, <1>3, <1>4, <1>5

\* The first command of an output, and a reading with the next command.
LEMMA SweepProbes ==
  ASSUME ProfileInv, Captures \/ High \/ Lowest
  PROVE  ProfileInv'
<1> USE SweepAssumption DEF ProfileInv, Sleeping
<1>1. Full \in 0 .. Full /\ Low \in 0 .. Full
  OBVIOUS
<1>2. PICK v \in 0 .. Full :
        /\ Commands(v) /\ v = (IF tool = "high" THEN Low ELSE Full)
        /\ UNCHANGED <<paused, cur, minStop, proposal, aborted, kind, leftover>>
  BY <1>1 DEF Captures, High, Lowest, Goes
<1>3. /\ pwm' = v
      /\ out' \in [1 .. Outputs -> {"found", "daemon", "safe", "sweep"}]
      /\ spins' \subseteq Fans /\ muddled' \in BOOLEAN /\ (muddled => muddled')
      /\ \A o \in 1 .. Outputs : o # cur => out'[o] = out[o]
      /\ ~muddled' =>
           /\ out'[cur] = "sweep"
           /\ cur \in Fans => /\ cur \in spins' => v >= kind.stall
                              /\ cur \notin spins' => v < kind.start
  BY <1>2, CommandActs
<1>4. CASE Captures
  <2>1. tool = "capturing" /\ tool' = "high" /\ saved' \in {out[cur], "unread"} /\ seen' = seen
    BY <1>4 DEF Captures
  <2>2. ProfileTypes'
    BY <1>2, <1>3, <2>1 DEF ProfileTypes, ToolPlaces
  <2> QED
    BY <1>2, <1>3, <2>1, <2>2 DEF ProfileTypes, SweepIsUndone, ProposedLast, FanObeys,
       ProbeReads, RampIsTrue, ProposalIsTrue
<1>5. CASE High
  <2>1. PICK r \in Readings :
          tool = "high" /\ tool' = "low" /\ saved' = saved /\ seen' = <<r>>
    BY <1>5 DEF High, Goes
  <2>2. /\ r \in Nat /\ (cur \notin Fans => r = 0)
        /\ ~muddled => (r > 0 => pwm >= kind.stall)
    BY <2>1, ReadingIsTrue
  <2>3. seen' \in Seq(Nat) /\ Len(seen') = 1 /\ seen'[1] = r
    BY <2>1, <2>2
  <2>4. ProfileTypes'
    BY <1>2, <1>3, <2>1, <2>3 DEF ProfileTypes, ToolPlaces
  <2>5. ProbeReads'
    BY <1>2, <1>3, <2>1, <2>2, <2>3 DEF ProbeReads
  <2> QED
    BY <1>2, <1>3, <2>1, <2>4, <2>5 DEF ProfileTypes, SweepIsUndone, ProposedLast, FanObeys,
       RampIsTrue, ProposalIsTrue
<1>6. CASE Lowest
  <2>1. PICK r \in Readings :
          tool = "low" /\ tool' = "again" /\ saved' = saved /\ seen' = Append(seen, r)
    BY <1>6 DEF Lowest, Goes
  <2>2. r \in Nat /\ (cur \notin Fans => r = 0)
    BY <2>1, ReadingIsTrue
  <2>3. seen \in Seq(Nat) /\ Len(seen) = 1
    BY <2>1 DEF ProfileTypes, ProbeReads
  <2>4. seen' \in Seq(Nat) /\ Len(seen') = 2 /\ seen'[1] = seen[1] /\ seen'[2] = r
    BY <2>1, <2>2, <2>3, SecondReading
  <2>5. ProfileTypes'
    BY <1>2, <1>3, <2>1, <2>4 DEF ProfileTypes, ToolPlaces
  <2>6. ProbeReads'
    BY <1>2, <1>3, <2>1, <2>2, <2>3, <2>4 DEF ProbeReads
  <2> QED
    BY <1>2, <1>3, <2>1, <2>5, <2>6 DEF ProfileTypes, SweepIsUndone, ProposedLast, FanObeys,
       RampIsTrue, ProposalIsTrue
<1> QED
  BY <1>4, <1>5, <1>6

\* A step of a ramp that goes on with the next value.
LEMMA RampGoesOn ==
  ASSUME ProfileInv, NEW v \in 0 .. Full, Commands(v),
         tool \in {"again", "down", "up"}, tool' \in {"down", "up"},
         minStop' \in 0 .. Full, cur \in Fans, ~muddled => minStop' >= kind.stall,
         tool' = "up" /\ ~muddled => cur \notin spins,
         UNCHANGED <<paused, cur, saved, seen, proposal, aborted, kind, leftover>>
  PROVE  ProfileInv'
<1> USE DEF ProfileInv, Sleeping
<1>1. /\ pwm' = v
      /\ out' \in [1 .. Outputs -> {"found", "daemon", "safe", "sweep"}]
      /\ spins' \subseteq Fans /\ muddled' \in BOOLEAN /\ (muddled => muddled')
      /\ \A o \in 1 .. Outputs : o # cur => out'[o] = out[o]
      /\ ~muddled' =>
           /\ out'[cur] = "sweep"
           /\ cur \in Fans =>
                /\ cur \in spins' => v >= kind.stall
                /\ cur \notin spins' => v < kind.start
                /\ cur \in spins' /\ cur \notin spins => v >= kind.start
  BY CommandActs
<1>2. proposal' = NoProposal
  BY DEF ProposedLast
<1>3. ProfileTypes'
  BY <1>1 DEF ProfileTypes, ToolPlaces
<1>4. SweepIsUndone'
  BY <1>1 DEF ProfileTypes, SweepIsUndone
<1>5. FanObeys' /\ ProbeReads'
  BY <1>1 DEF FanObeys, ProbeReads
<1>6. RampIsTrue'
  BY <1>1 DEF RampIsTrue
<1>7. ProposedLast' /\ ProposalIsTrue'
  BY <1>2 DEF ProposedLast, ProposalIsTrue
<1> QED
  BY <1>3, <1>4, <1>5, <1>6, <1>7

\* The end of the sweep of an output, with a proposal or without.
LEMMA RampIsOver ==
  ASSUME ProfileInv, tool \in Sleeping, tool' = "restoring", minStop' \in 0 .. Full,
         proposal' # NoProposal /\ ~muddled =>
           /\ cur \in Fans /\ proposal'.stop >= kind.stall
           /\ kind.stall > 0 => proposal'.start >= kind.start \/ proposal'.start = Full,
         UNCHANGED <<paused, cur, saved, pwm, seen, aborted, world, kind, leftover>>
  PROVE  ProfileInv'
<1> USE DEF ProfileInv, Sleeping, world
<1>1. ProfileTypes'
  BY DEF ProfileTypes, ToolPlaces
<1>2. SweepIsUndone' /\ ProposedLast' /\ FanObeys' /\ ProbeReads' /\ RampIsTrue'
  BY DEF SweepIsUndone, ProposedLast, FanObeys, ProbeReads, RampIsTrue
<1>3. ProposalIsTrue'
  BY DEF ProposalIsTrue
<1> QED
  BY <1>1, <1>2, <1>3

\* Judges: whoever answers is a fan, which turns at full speed.
LEMMA SweepJudges ==
  ASSUME ProfileInv, Judges
  PROVE  ProfileInv'
<1> USE SweepAssumption DEF ProfileInv
<1>1. PICK r \in Readings :
        IF Answers(seen[1], seen[2], r)
        THEN /\ tool' = "down" /\ minStop' = Full
             /\ Commands(Larger(Full - DownStep, 0))
        ELSE tool' = "restoring" /\ UNCHANGED <<pwm, minStop, world>>
  BY DEF Judges
<1>2. tool = "again" /\ UNCHANGED <<paused, cur, saved, seen, proposal, aborted, kind, leftover>>
  BY DEF Judges
<1>3. /\ r \in Nat /\ (cur \notin Fans => r = 0)
      /\ ~muddled => (r > 0 => pwm >= kind.stall)
  BY <1>2, ReadingIsTrue DEF Sleeping
<1>4. pwm = Full /\ seen \in Seq(Nat) /\ Len(seen) = 2
      /\ (cur \notin Fans => seen[1] = 0) /\ (seen[1] > 0 /\ ~muddled => Full >= kind.stall)
  <2>1. pwm = Full /\ seen \in Seq(Nat) /\ Len(seen) = 2
        /\ (cur \notin Fans => \A i \in DOMAIN seen : seen[i] = 0)
        /\ (seen[1] > 0 /\ ~muddled => Full >= kind.stall)
    BY <1>2 DEF ProbeReads, ProfileTypes
  <2>2. 1 \in DOMAIN seen
    BY <2>1
  <2> QED
    BY <2>1, <2>2
<1>5. CASE Answers(seen[1], seen[2], r)
  <2>1. seen[1] > 0 \/ r > 0
    <3>1. seen \in Seq(Nat) /\ 1 \in 1 .. Len(seen)
      BY <1>4
    <3>2. seen[1] \in Nat
      BY ONLY <3>1, ElementOfSeq
    <3> QED
      BY <1>3, <1>5, <3>2 DEF Answers, Larger
  <2>2. cur \in Fans /\ (~muddled => Full >= kind.stall)
    BY <1>3, <1>4, <2>1
  <2>3. Full \in 0 .. Full /\ Larger(Full - DownStep, 0) \in 0 .. Full
    BY StepsAreValues
  <2> QED
    BY <1>1, <1>2, <1>5, <2>2, <2>3, RampGoesOn
<1>6. CASE ~Answers(seen[1], seen[2], r)
  <2>1. proposal' = NoProposal
    BY <1>2 DEF ProposedLast
  <2>2. minStop' \in 0 .. Full
    BY <1>1, <1>6 DEF ProfileTypes
  <2> QED
    BY <1>1, <1>2, <1>6, <2>1, <2>2, RampIsOver DEF Sleeping
<1> QED
  BY <1>5, <1>6

\* Down: the last value that it turned at is noted.
LEMMA SweepGoesDown ==
  ASSUME ProfileInv, RampsDown
  PROVE  ProfileInv'
<1> USE SweepAssumption DEF ProfileInv
<1>1. PICK r \in Readings :
        \/ /\ r = 0 /\ tool' = "up" /\ Commands(Smaller(pwm + UpStep, Full))
           /\ UNCHANGED <<minStop, proposal>>
        \/ /\ r > 0 /\ pwm > 0 /\ tool' = "down" /\ minStop' = pwm
           /\ Commands(Larger(pwm - DownStep, 0)) /\ UNCHANGED proposal
        \/ /\ r > 0 /\ pwm = 0 /\ minStop' = pwm /\ Proposes(pwm, pwm)
           /\ UNCHANGED <<pwm, world>>
  BY DEF RampsDown
<1>2. tool = "down" /\ UNCHANGED <<paused, cur, saved, seen, aborted, kind, leftover>>
  BY DEF RampsDown
<1>3. /\ r \in Nat
      /\ ~muddled => /\ r > 0 => cur \in Fans /\ cur \in spins /\ pwm >= kind.stall
                     /\ r = 0 /\ cur \in Fans => cur \notin spins
  BY <1>2, ReadingIsTrue DEF Sleeping
<1>4. /\ cur \in Fans /\ (~muddled => minStop >= kind.stall)
      /\ pwm \in 0 .. Full /\ minStop \in 0 .. Full /\ kind \in FanKinds
  BY <1>2 DEF RampIsTrue, ProfileTypes
<1>5. Larger(pwm - DownStep, 0) \in 0 .. Full /\ Smaller(pwm + UpStep, Full) \in 0 .. Full
  BY <1>4, StepsAreValues
<1>6. CASE /\ r = 0 /\ tool' = "up" /\ Commands(Smaller(pwm + UpStep, Full))
           /\ UNCHANGED <<minStop, proposal>>
  BY <1>2, <1>3, <1>4, <1>5, <1>6, RampGoesOn
<1>7. CASE /\ r > 0 /\ pwm > 0 /\ tool' = "down" /\ minStop' = pwm
           /\ Commands(Larger(pwm - DownStep, 0)) /\ UNCHANGED proposal
  BY <1>2, <1>3, <1>4, <1>5, <1>7, RampGoesOn
<1>8. CASE /\ r > 0 /\ pwm = 0 /\ minStop' = pwm /\ Proposes(pwm, pwm)
           /\ UNCHANGED <<pwm, world>>
  <2>1. tool' = "restoring" /\ proposal'.start = 0 /\ proposal'.stop = 1
    BY <1>8 DEF Proposes, Larger
  <2>2. ~muddled => 1 >= kind.stall /\ ~(kind.stall > 0)
    BY <1>3, <1>4, <1>8, KindOfFan
  <2> QED
    BY <1>2, <1>4, <1>8, <2>1, <2>2, RampIsOver DEF Sleeping
<1> QED
  BY <1>1, <1>6, <1>7, <1>8

\* Up again: the first value that it turns at is the one that started it.
LEMMA SweepGoesUp ==
  ASSUME ProfileInv, RampsUp
  PROVE  ProfileInv'
<1> USE SweepAssumption DEF ProfileInv
<1>1. PICK r \in Readings :
        IF r > 0 \/ pwm = Full
        THEN Proposes(pwm, minStop) /\ UNCHANGED <<pwm, world>>
        ELSE /\ Commands(Smaller(pwm + UpStep, Full)) /\ UNCHANGED <<tool, proposal>>
  BY DEF RampsUp
<1>2. tool = "up" /\ UNCHANGED <<paused, cur, saved, seen, minStop, aborted, kind, leftover>>
  BY DEF RampsUp
<1>3. /\ r \in Nat
      /\ ~muddled => /\ r > 0 => cur \in spins
                     /\ r = 0 /\ cur \in Fans => cur \notin spins
  BY <1>2, ReadingIsTrue DEF Sleeping
<1>4. /\ cur \in Fans /\ (~muddled => minStop >= kind.stall)
      /\ ~muddled /\ cur \in spins => pwm >= kind.start
      /\ pwm \in 0 .. Full /\ minStop \in 0 .. Full /\ kind \in FanKinds
  BY <1>2 DEF RampIsTrue, ProfileTypes
<1>5. CASE r > 0 \/ pwm = Full
  <2>1. /\ tool' = "restoring" /\ proposal'.start = pwm /\ proposal'.stop >= minStop
        /\ proposal'.stop \in Nat
    BY <1>1, <1>4, <1>5 DEF Proposes, Larger
  <2>2. ~muddled => proposal'.stop >= kind.stall
    BY <1>4, <2>1, KindOfFan
  <2>3. ~muddled => proposal'.start >= kind.start \/ proposal'.start = Full
    BY <1>3, <1>4, <1>5, <2>1
  <2> QED
    BY <1>1, <1>2, <1>4, <1>5, <2>1, <2>2, <2>3, RampIsOver DEF Sleeping
<1>6. CASE ~(r > 0 \/ pwm = Full)
  <2>1. r = 0 /\ Smaller(pwm + UpStep, Full) \in 0 .. Full
    BY <1>3, <1>4, <1>6, StepsAreValues
  <2> QED
    BY <1>1, <1>2, <1>3, <1>4, <1>6, <2>1, RampGoesOn
<1> QED
  BY <1>5, <1>6

\* The sweep is left alone.
LEMMA RestKeepsSweep ==
  ASSUME ProfileInv, UNCHANGED profile
  PROVE  ProfileInv'
<1> USE DEF ProfileInv, profile, world, sweep
<1>1. ProfileTypes' /\ SweepIsUndone' /\ ProposedLast' /\ FanObeys'
  BY DEF ProfileTypes, SweepIsUndone, ProposedLast, FanObeys
<1>2. ProbeReads' /\ RampIsTrue' /\ ProposalIsTrue'
  BY DEF ProbeReads, RampIsTrue, ProposalIsTrue
<1> QED
  BY <1>1, <1>2

-----------------------------------------------------------------------------
(* The invariant of the whole. *)

\* The processes as they start.
LEMMA InitHolds == Init => IInv
<1> SUFFICES ASSUME Init PROVE IInv
  OBVIOUS
<1>1. SocketInv
  BY DaemonsAssumption DEF Init, SocketsInit, SocketInv, SocketTypes, DaemonPlaces, Starting,
     ListensOnceBound, OverlapsKnown, OthersAreEstranged, RemembersOwn, FileIsKept
<1>2. ProfileTypes
  <2>1. 1 \in 1 .. Outputs /\ 0 \in 0 .. Full /\ <<>> \in Seq(Nat)
    BY SweepAssumption, EmptySeq
  <2>2. out \in [1 .. Outputs -> {"found", "daemon", "safe", "sweep"}]
    BY DEF Init, ProfileInit
  <2> QED
    BY <2>1, <2>2 DEF Init, ProfileInit, ProfileTypes, ToolPlaces, Sleeping
<1>3. SweepIsUndone /\ ProposedLast /\ FanObeys /\ ProbeReads /\ RampIsTrue /\ ProposalIsTrue
  BY DEF Init, ProfileInit, SweepIsUndone, ProposedLast, FanObeys, ProbeReads, RampIsTrue,
     ProposalIsTrue, Sleeping
<1> QED
  BY <1>1, <1>2, <1>3 DEF IInv, ProfileInv

\* Whatever the processes do, the socket's half is kept.
LEMMA FileNext == SocketInv /\ Acts => SocketInv'
<1> SUFFICES ASSUME SocketInv, Acts PROVE SocketInv'
  OBVIOUS
<1> USE DEF sockets
<1>1. ASSUME NEW d \in Daemons, Gone(d) \/ BindsInPlace(d) PROVE SocketInv'
  <2>1. BindsInPlace(d) => Gone(d) \/ file = "none"
    BY DEF BindsInPlace
  <2> QED
    BY <1>1, <2>1, GoneKeepsFile, BindInPlaceKeepsFile
<1>2. ASSUME NEW d \in Daemons, GoesOn(d) PROVE SocketInv'
  BY <1>2, NobodyThere, GoesOnAlone, BindKeepsFile, ClearKeepsFile, IdentityKeepsFile,
     SpawnFailureKeepsFile, GuardKeepsFile, RemovalKeepsFile DEF GoesOn
<1>3. ASSUME NEW d \in Daemons,
             Fails(d) \/ BindsThere(d) \/ Finishes(d) \/ Dies(d)
      PROVE  SocketInv'
  <2>1. Gone(d) \/ BindsInPlace(d)
    BY <1>3 DEF Fails, BindsThere, Finishes, Dies, FindsAnother, PortFails, Exits, Crashes
  <2> QED
    BY <1>1, <2>1
<1>4. ASSUME NEW d \in Daemons, ByHand(d) \/ GoesFurther(d) \/ Drives(d) PROVE SocketInv'
  BY <1>2, <1>4, LaunchKeepsFile, RestKeepsFile DEF ByHand, GoesFurther, Drives
<1>5. CASE (ProbeOpens \/ ProbeEnds \/ Unlinks) /\ UNCHANGED <<profile, unit>>
  BY <1>5, UnlinkKeepsFile, RestKeepsFile DEF ProbeOpens, ProbeEnds
<1>6. CASE Starts \/ Stops
  BY <1>6, InstancesAssumption, LaunchKeepsFile, RestKeepsFile DEF Starts, Stops
<1>7. CASE Pauses \/ IsPaused \/ Resumes
  BY <1>7, InstancesAssumption, LaunchKeepsFile, RestKeepsFile DEF Pauses, IsPaused, Resumes
<1>8. CASE Sweeps /\ UNCHANGED <<sockets, unit>>
  BY <1>8, RestKeepsFile
<1> QED
  BY <1>3, <1>4, <1>5, <1>6, <1>7, <1>8 DEF Acts

\* And the sweep's.
LEMMA SweepNext == ProfileInv /\ Acts => ProfileInv'
<1> SUFFICES ASSUME ProfileInv, Acts PROVE ProfileInv'
  OBVIOUS
<1>1. ASSUME NEW d \in Daemons,
             ByHand(d) \/ GoesFurther(d) \/ BindsThere(d)
      PROVE  ProfileInv'
  BY <1>1, RestKeepsSweep DEF ByHand, GoesFurther, BindsThere
<1>2. ASSUME NEW d \in Daemons, Fails(d) \/ Finishes(d) \/ Dies(d) PROVE ProfileInv'
  <2>1. PICK tried \in BOOLEAN :
          /\ LeftAtFullSpeed(d, tried)
          /\ UNCHANGED <<tool, paused, sweep, aborted, spins, kind>>
    BY <1>2 DEF Fails, Finishes, Dies, Ends
  <2> QED
    BY <2>1, OthersWrite
<1>3. ASSUME NEW d \in Daemons, Drives(d) PROVE ProfileInv'
  BY <1>3, OthersWrite DEF Drives
<1>4. CASE Starts \/ Stops \/ UNCHANGED profile
  BY <1>4, RestKeepsSweep DEF Starts, Stops
<1>5. CASE Pauses \/ IsPaused \/ Resumes
  BY <1>5, SweepMoves, SweepEnds DEF Resumes
<1>6. CASE Sweeps
  BY <1>6, SweepMoves, SweepEnds, SweepProbes, SweepJudges, SweepGoesDown, SweepGoesUp,
     SweepRestores DEF Sweeps
<1>7. CASE (ProbeOpens \/ ProbeEnds \/ Unlinks) /\ UNCHANGED <<profile, unit>>
  BY <1>7, RestKeepsSweep
<1> QED
  BY <1>1, <1>2, <1>3, <1>4, <1>5, <1>6, <1>7 DEF Acts

\* The inductive invariant: of the socket's file and of the sweep, for any
\* number of daemons, outputs and fans.
THEOREM InductiveInvariant == Spec => []IInv
<1>1. IInv /\ [Next]_vars => IInv'
  <2> SUFFICES ASSUME IInv, [Next]_vars PROVE IInv'
    OBVIOUS
  <2>1. CASE Next
    BY <2>1, FileNext, SweepNext DEF Next, IInv
  <2>2. CASE UNCHANGED vars
    BY <2>2, RestKeepsFile, RestKeepsSweep DEF vars, sockets, IInv
  <2> QED
    BY <2>1, <2>2
<1> QED
  BY InitHolds, <1>1, PTL DEF Spec

\* However many daemons start, end, give up or die at the same time, and
\* wherever each of them is: the file at the path is that of the one that
\* runs, unless its own start overlapped another's or a removal
\* (socket::spawn, bind_private, SocketGuard).
THEOREM Reachable == Spec => []StaysReachable
<1>1. IInv => StaysReachable
  BY DEF IInv, SocketInv, FileIsKept, StaysReachable, Bound
<1> QED
  BY <1>1, InductiveInvariant, PTL

\* Only a kill, or a write that fails, leaves an output at a value of the
\* sweep, whatever else writes to the outputs meanwhile (PwmRestore).
THEOREM SweepUndone == Spec => []SweepIsUndone
<1>1. IInv => SweepIsUndone
  BY DEF IInv, ProfileInv
<1> QED
  BY <1>1, InductiveInvariant, PTL

\* What the sweep proposes is true of the fan, for every fan, every size of
\* its steps and every number of outputs (calibrate_one).
THEOREM ProposalTrue == Spec => []ProposalIsTrue
<1>1. IInv => ProposalIsTrue
  BY DEF IInv, ProfileInv
<1> QED
  BY <1>1, InductiveInvariant, PTL
=============================================================================
