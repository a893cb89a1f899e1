-------------------------------- MODULE Buzzer --------------------------------
(***************************************************************************)
(* The beeper (src/src/buzzer.rs): a bounded queue that never makes its    *)
(* caller wait, the thread that plays it, and the flush before the process *)
(* ends.                                                                   *)
(*                                                                         *)
(* A beep is one item of the queue: long and short ones differ only in     *)
(* their length. What is out of order with the speaker (no gate, no        *)
(* device, a write that fails or never returns) is one flag, and every     *)
(* outcome is possible while it is up.                                     *)
(***************************************************************************)
EXTENDS Naturals, Sequences

CONSTANT BeepQueueDepth \* BEEP_QUEUE_DEPTH

ASSUME QueueAssumption == BeepQueueDepth \in Nat \ {0}

VARIABLES
  queue,   \* the channel: beeps, and the marker of a flush
  worker,  \* what the thread is at: see Workers
  speaker, \* "fine", or "broken" in some way
  flush    \* how far the flush is: see Flushes

buzzer == <<queue, worker, speaker, flush>>

\* pausing: a tone is over, or could not be started; stuck: in a call on the
\* speaker that does not return.
Workers == {"idle", "sounding", "pausing", "stuck"}
\* entering: the marker finds no room; waiting: it is in the queue.
Flushes == {"no", "entering", "waiting", "answered", "gave up"}

\* try_send: a full queue drops the beep.
WithBeep(q) == IF Len(q) < BeepQueueDepth THEN Append(q, "beep") ELSE q

\* The worker takes a beep, looks for the speaker and starts its tone.
StartsBeep ==
  /\ worker = "idle" /\ queue # <<>> /\ Head(queue) = "beep"
  /\ queue' = Tail(queue)
  /\ \/ worker' = "sounding"
     \/ speaker = "broken" /\ worker' \in {"idle", "pausing", "stuck"}
  /\ UNCHANGED <<speaker, flush>>

AnswersFlush ==
  /\ worker = "idle" /\ queue # <<>> /\ Head(queue) = "marker"
  /\ queue' = Tail(queue)
  /\ flush' = "answered"
  /\ UNCHANGED <<worker, speaker>>

\* Tone off, whether or not the tone on worked, and a pause; a call that was
\* stuck returns once the speaker is fine.
GoesOn ==
  /\ \/ worker = "sounding" /\ worker' = "pausing"
     \/ worker = "sounding" /\ speaker = "broken" /\ worker' = "stuck"
     \/ worker = "pausing" /\ worker' = "idle"
     \/ worker = "stuck" /\ speaker = "fine" /\ worker' = "pausing"
  /\ UNCHANGED <<queue, speaker, flush>>

Work == StartsBeep \/ AnswersFlush \/ GoesOn

\* The flush, once entering: the marker is tried until there is room.
EntersMarker ==
  /\ flush = "entering" /\ Len(queue) < BeepQueueDepth
  /\ queue' = Append(queue, "marker")
  /\ flush' = "waiting"
  /\ UNCHANGED <<worker, speaker>>

\* FLUSH_TIMEOUT.  Eight beeps behind one that is playing take less than its
\* five seconds, so only a speaker that is stuck uses them up.
GivesUpFlush ==
  /\ flush \in {"entering", "waiting"} /\ worker = "stuck"
  /\ flush' = "gave up"
  /\ UNCHANGED <<queue, worker, speaker>>

Flushing == EntersMarker \/ GivesUpFlush

SpeakerChanges ==
  /\ speaker' = IF speaker = "fine" THEN "broken" ELSE "fine"
  /\ UNCHANGED <<queue, worker, flush>>

\* Started during boot, the daemon has a beep for that (boot_finished).
BuzzerInit ==
  /\ queue \in {<<>>, <<"beep">>}
  /\ worker = "idle"
  /\ speaker = "fine"
  /\ flush = "no"

\* The thread has nothing to do, or cannot do it.
Rests == \/ worker = "idle" /\ queue = <<>>
         \/ worker = "stuck" /\ speaker = "broken"
=============================================================================
