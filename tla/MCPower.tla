------------------------------- MODULE MCPower -------------------------------
(***************************************************************************)
(* Small instances of PowerSchedule for TLC: a few minutes, in which       *)
(* summer time may end.  What Settings says of rules is checked beside it. *)
(***************************************************************************)
EXTENDS PowerSchedule, MCSettings

Rule(action, at) == [action |-> action, at |-> at]

\* From minute 4 on local time is two minutes less ahead: minutes 4 and 5 show
\* what 2 and 3 showed.
SummerEnds(k) == IF k < 4 THEN 2 ELSE 0

\* Wall minutes 4 and 5 come twice; at 5 all three are due.
AllRules == {Rule("Restart", {4, 5}), Rule("Shutdown", {5}), Rule("PowerOn", {3, 5})}

AnyStep == -Horizon .. Horizon
=============================================================================
