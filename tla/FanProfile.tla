------------------------------ MODULE FanProfile ------------------------------
(***************************************************************************)
(* `lcm-status fan-profile` (fan_calibrate.rs): it stops the daemon,       *)
(* sweeps one pwm output after the other to see which has a fan and what   *)
(* the fan needs, and puts each back. A signal or a panic ends it early, a *)
(* SIGKILL or SIGHUP at once.                                              *)
(*                                                                         *)
(* Each output is known by what was last written to it: "found" before any *)
(* write, a daemon's own command, "safe" (full speed, left by a daemon     *)
(* that ends or by the fail-safe), or "sweep": the tool's `pwm`.  An output *)
(* in Fans has a fan, which stalls below kind.stall and starts again from  *)
(* kind.start, and each pause is long enough for it to settle.  The other  *)
(* fans of the chip keep their speed while one output is swept, so the tool *)
(* never takes theirs for the answer.                                      *)
(***************************************************************************)
EXTENDS Integers, Sequences

CONSTANTS
  Outputs,   \* how many outputs there are: 1 .. Outputs are swept in order
  Fans,      \* those with a fan
  FanKinds,  \* [stall, start] records
  Full, Low, DownStep, UpStep \* 255, 20, 15 and 10

ASSUME SweepAssumption ==
  /\ Outputs \in Nat \ {0} /\ Fans \subseteq 1 .. Outputs
  /\ Full \in Nat /\ {Low, DownStep, UpStep} \subseteq 1 .. Full
  /\ \A k \in FanKinds : {k.stall, k.start} \subseteq Nat /\ k.stall <= k.start

VARIABLES
  tool,     \* where it is: see ToolPlaces
  paused,   \* DaemonPause's was_active
  cur,      \* the output it is at
  saved,    \* PwmRestore: what that had, "unread" if it could not be read
  pwm,      \* what it last commanded, in a sweep
  seen,     \* the readings of the probe
  minStop,  \* min_stop_pwm so far
  proposal, \* what it found about the output: see NoProposal
  aborted,  \* the sweep is cut short
  out,      \* what each output was last told
  kind,     \* what the fans need
  spins,    \* the fans that turn
  muddled,  \* history: something else wrote to `cur` during its sweep
  leftover  \* history: outputs left at a value of a sweep by a kill or a
            \* failing write

sweep == <<cur, saved, pwm, seen, minStop, proposal>>
world == <<out, spins, muddled>>
profile == <<tool, paused, sweep, aborted, world, kind, leftover>>

Sleeping == {"high", "low", "again", "down", "up"} \* and then reading the tach
ToolPlaces == Sleeping \cup {"none", "asking", "pausing", "stopping", "capturing",
                             "restoring", "resuming"}
NoProposal == [start |-> -1, stop |-> -1]

Larger(a, b) == IF a > b THEN a ELSE b
Smaller(a, b) == IF a < b THEN a ELSE b

-----------------------------------------------------------------------------
(* Reading and writing. *)

\* A fan that turns does so at a speed that grows with the pwm.
Settled(o, v) ==
  IF o \in Fans /\ v >= kind.start THEN spins \cup {o}
  ELSE IF v < kind.stall THEN spins \ {o} ELSE spins

\* set_pwm, whose writes may fail unnoticed.
Commands(v) ==
  /\ pwm' = v
  /\ \/ /\ out' = [out EXCEPT ![cur] = "sweep"] /\ spins' = Settled(cur, v)
        /\ UNCHANGED muddled
     \/ muddled' = TRUE /\ UNCHANGED <<out, spins>>

\* What the tach says of the output's fan, if it has one.
Readings ==
  IF cur \notin Fans THEN {0}
  ELSE IF out[cur] # "sweep" \/ muddled THEN {0, Full + 1}
  ELSE {IF cur \in spins THEN pwm + 1 ELSE 0}

-----------------------------------------------------------------------------
(* The tool. *)

\* Its user is asked first; a signal still kills it.
Asks ==
  /\ tool = "none" /\ tool' = "asking"
  /\ UNCHANGED <<paused, sweep, aborted, world, kind, leftover>>
Declines ==
  /\ tool = "asking" /\ tool' = "none"
  /\ UNCHANGED <<paused, sweep, aborted, world, kind, leftover>>
Confirms ==
  /\ tool = "asking" /\ tool' = "pausing"
  /\ UNCHANGED <<paused, sweep, aborted, world, kind, leftover>>

\* PwmRestore::capture, and the first command.  Either attribute may be
\* unreadable.
Captures ==
  /\ tool = "capturing" /\ tool' = "high"
  /\ saved' \in {out[cur], "unread"}
  /\ Commands(Full)
  /\ UNCHANGED <<paused, cur, seen, minStop, proposal, aborted>>
  /\ UNCHANGED <<kind, leftover>>

\* A chip without tachs has nothing to go by: the output is passed over.
Skips ==
  /\ tool = "capturing" /\ tool' = "restoring" /\ saved' = "skipped"
  /\ UNCHANGED <<paused, cur, pwm, seen, minStop, proposal, aborted>>
  /\ UNCHANGED <<world, kind, leftover>>

Goes(from, to) == tool = from /\ tool' = to

High ==
  /\ Goes("high", "low") /\ \E r \in Readings : seen' = <<r>>
  /\ Commands(Low)
  /\ UNCHANGED <<paused, cur, saved, minStop, proposal, aborted, kind, leftover>>

Lowest ==
  /\ Goes("low", "again") /\ \E r \in Readings : seen' = Append(seen, r)
  /\ Commands(Full)
  /\ UNCHANGED <<paused, cur, saved, minStop, proposal, aborted, kind, leftover>>

\* A fan answers if at the low point it is well below its peak.
Answers(high, low, again) ==
  LET peak == Larger(high, again) IN peak > 0 /\ 10 * low < 7 * peak

Judges ==
  /\ tool = "again"
  /\ \E r \in Readings :
       IF Answers(seen[1], seen[2], r)
       THEN /\ tool' = "down" /\ minStop' = Full
            /\ Commands(Larger(Full - DownStep, 0))
       ELSE tool' = "restoring" /\ UNCHANGED <<pwm, minStop, world>>
  /\ UNCHANGED <<paused, cur, saved, seen, proposal, aborted, kind, leftover>>

Proposes(start, stop) ==
  tool' = "restoring" /\ proposal' = [start |-> start, stop |-> Larger(stop, 1)]

\* The value it has just stalled at is taken for the last: ProposalIsTrue.
RampsDown_Slip ==
  /\ tool = "down" /\ minStop' = pwm
  /\ \E r \in Readings :
       \/ /\ r = 0 /\ tool' = "up" /\ Commands(Smaller(pwm + UpStep, Full))
          /\ UNCHANGED proposal
       \/ /\ r > 0 /\ pwm > 0 /\ tool' = "down"
          /\ Commands(Larger(pwm - DownStep, 0)) /\ UNCHANGED proposal
       \/ r > 0 /\ pwm = 0 /\ Proposes(pwm, pwm) /\ UNCHANGED <<pwm, world>>
  /\ UNCHANGED <<paused, cur, saved, seen, aborted, kind, leftover>>

\* Down, until it stalls or is at 0.
RampsDown ==
  /\ tool = "down"
  /\ \E r \in Readings :
       \/ /\ r = 0 /\ tool' = "up" /\ Commands(Smaller(pwm + UpStep, Full))
          /\ UNCHANGED <<minStop, proposal>>
       \/ /\ r > 0 /\ pwm > 0 /\ tool' = "down" /\ minStop' = pwm
          /\ Commands(Larger(pwm - DownStep, 0)) /\ UNCHANGED proposal
       \/ /\ r > 0 /\ pwm = 0 /\ minStop' = pwm /\ Proposes(pwm, pwm)
          /\ UNCHANGED <<pwm, world>>
  /\ UNCHANGED <<paused, cur, saved, seen, aborted, kind, leftover>>

\* Up again, until it restarts.
RampsUp ==
  /\ tool = "up"
  /\ \E r \in Readings :
       IF r > 0 \/ pwm = Full
       THEN Proposes(pwm, minStop) /\ UNCHANGED <<pwm, world>>
       ELSE /\ Commands(Smaller(pwm + UpStep, Full)) /\ UNCHANGED <<tool, proposal>>
  /\ UNCHANGED <<paused, cur, saved, seen, minStop, aborted, kind, leftover>>

\* Its drop is left out: SweepIsUndone.
Aborts_Slip ==
  /\ tool \in Sleeping /\ tool' = "resuming" /\ aborted' = TRUE
  /\ UNCHANGED <<paused, sweep, world, kind, leftover>>

\* A signal, which is only noted from the answer on (shutdown::install), ends
\* the next pause; a panic (the terminal gone under a println) does any time.
Aborts ==
  /\ tool \in Sleeping /\ tool' = "restoring" /\ aborted' = TRUE
  /\ UNCHANGED <<paused, sweep, world, kind, leftover>>

\* PwmRestore's drop.
Restores ==
  /\ tool = "restoring"
  /\ \/ saved \notin {"unread", "skipped"} /\ out' = [out EXCEPT ![cur] = saved]
     \/ UNCHANGED out \* it was not read, or the write fails
  /\ leftover' = IF out'[cur] = "sweep" THEN leftover \cup {cur} ELSE leftover
  /\ IF aborted \/ cur = Outputs
     THEN tool' = "resuming" /\ UNCHANGED cur
     ELSE tool' = "capturing" /\ cur' = cur + 1
  /\ saved' = "none" /\ pwm' = 0 /\ seen' = <<>> /\ minStop' = 0
  /\ proposal' = NoProposal /\ muddled' = FALSE
  /\ UNCHANGED <<paused, aborted, spins, kind>>

\* The tool ends, or is ended.
ToolEnds ==
  /\ tool' = "none" /\ paused' = FALSE /\ cur' = 1
  /\ saved' = "none" /\ pwm' = 0 /\ seen' = <<>> /\ minStop' = 0
  /\ proposal' = NoProposal /\ muddled' = FALSE
  /\ aborted' = FALSE
  /\ UNCHANGED <<out, spins, kind>>

\* SIGKILL, or SIGHUP: no drop runs.
IsKilled ==
  /\ tool # "none" /\ ToolEnds
  /\ leftover' = leftover \cup {o \in 1 .. Outputs : out[o] = "sweep"}

\* A daemon, or the fail-safe, writes to an output.
WrittenBy(o, value) ==
  /\ out' = [out EXCEPT ![o] = value]
  /\ muddled' = (muddled \/ (o = cur /\ tool \in Sleeping))
  /\ leftover' = leftover \ {o}

-----------------------------------------------------------------------------
ProfileInit ==
  /\ tool = "none" /\ paused = FALSE /\ cur = 1 /\ saved = "none" /\ pwm = 0
  /\ seen = <<>> /\ minStop = 0 /\ proposal = NoProposal
  /\ aborted = FALSE
  /\ out = [o \in 1 .. Outputs |-> "found"]
  /\ kind \in FanKinds /\ spins \in SUBSET Fans
  /\ muddled = FALSE /\ leftover = {}

\* The steps of the sweep itself.
Sweeps ==
  \/ Asks \/ Declines \/ Confirms \/ Captures \/ Skips \/ High \/ Lowest
  \/ Judges \/ RampsDown \/ RampsUp \/ Aborts \/ Restores \/ IsKilled

-----------------------------------------------------------------------------
(* Properties. *)

\* Only a kill, or a write that fails, leaves an output at a value the tool
\* commanded for a measurement: its end, a signal at any point of the sweep
\* and a panic all put the output back (PwmRestore).
SweepIsUndone ==
  \A o \in 1 .. Outputs :
    out[o] = "sweep" => o \in leftover \/ (tool \in Sleeping \cup {"restoring"} /\ o = cur)

\* What it proposes is so, if nothing else wrote to the output meanwhile: the
\* output has a fan, which min_stop_pwm keeps turning, and, if it stalled at
\* all, min_start_pwm starts it, or nothing below full speed does
\* (calibrate_one).
ProposalIsTrue ==
  proposal # NoProposal /\ ~muddled =>
    /\ cur \in Fans /\ proposal.stop >= kind.stall
    /\ kind.stall > 0 => proposal.start >= kind.start \/ proposal.start = Full
=============================================================================
