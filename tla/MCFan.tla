-------------------------------- MODULE MCFan --------------------------------
(***************************************************************************)
(* Small instances of FanController for TLC: a processor and a drive, each *)
(* of them cool, at its warning threshold, or critical.                    *)
(***************************************************************************)
EXTENDS FanController

CONSTANTS cpu, disk

Both == {cpu, disk}
At(degrees) == [s \in Sensors |-> degrees]

\* 2 is the warning threshold, on the processor's ramp and past the drive's;
\* 3 is critical.
EitherMode == {NoPwm, 60}
CoolOrCritical == {0, 2, 3}
Zero == At(0)
Two == At(2)
Three == At(3)
RampEnd == [s \in Sensors |-> IF s = disk THEN 1 ELSE 3]
=============================================================================
