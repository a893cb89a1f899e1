----------------------------- MODULE MCAppState -----------------------------
(***************************************************************************)
(* Small instances of AppState for TLC: what clients send and the health   *)
(* checks find.                                                            *)
(***************************************************************************)
EXTENDS AppState

Msg(level, severity, beep, ttl) ==
  [level |-> level, severity |-> severity, beep |-> beep, ttl |-> ttl]

Note == Msg(Info, NoPattern, "none", 1)  \* SHOW info 1
Caution == Msg(Warn, 1, "repeat", 0)     \* SHOW warn 0 beep=repeat
Alert == Msg(Error, 3, "once", 1)        \* SHOW error 1
Siren == Msg(Critical, 4, "repeat", 0)   \* SHOW critical 0

EveryLevel == {Note, Caution, Alert, Siren}
AnyHealth == {NoPattern, 3}
=============================================================================
