----------------------------- MODULE MCFanTiming -----------------------------
(* The instances of MCFan, with the clocks of FanTiming. *)
EXTENDS MCFan, FanTiming
=============================================================================
