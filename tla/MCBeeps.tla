------------------------------- MODULE MCBeeps -------------------------------
(* Small instances of AlertBeeps for TLC. *)
EXTENDS AlertBeeps

Msg(level, severity, beep) ==
  [level |-> level, severity |-> severity, beep |-> beep, ttl |-> 0]

\* An error that beeps once and a critical message that repeats its beep.
OnceAndRepeat == {Msg(Error, 3, "once"), Msg(Critical, 4, "repeat")}
AllWell == {NoPattern}
=============================================================================
