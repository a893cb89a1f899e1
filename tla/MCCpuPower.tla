------------------------------ MODULE MCCpuPower ------------------------------
(***************************************************************************)
(* Small instances of CpuPower for TLC.  The settings lie so far apart     *)
(* that the order of the writes matters; the hardware rounds the long time *)
(* window.                                                                 *)
(***************************************************************************)
EXTENDS CpuPower

Lim(pl1, pl2, tau) == [pl1 |-> pl1, pl2 |-> pl2, tau |-> tau]
Board == Lim(3, 4, 8)
Firmware == Lim(1, 2, 4)
Tool == {Lim(2, 3, 4)}
Nobody == {}
Coarse(t) == IF t = 8 THEN {7} ELSE {t}
=============================================================================
