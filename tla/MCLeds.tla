-------------------------------- MODULE MCLeds --------------------------------
(* Small instances of Leds for TLC. *)
EXTENDS Leds

CONSTANT one

\* A warning, and an error about a bay.
Say(level, bay, pattern) == [level |-> level, bay |-> bay, pattern |-> pattern]
WarningOrAlert == {Say(1, NoBay, "WarningFlashing")} \cup {Say(2, b, "Failed") : b \in Bays}
\* The front dark at night, and dimmed from the BIOS's level.
DarkOrDim == {[night |-> FALSE, day |-> TRUE], [night |-> TRUE, day |-> FALSE]}
=============================================================================
