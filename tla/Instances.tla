------------------------------- MODULE Instances -------------------------------
(***************************************************************************)
(* The processes of this program that may be about at the same time: the   *)
(* daemon that systemd runs, one started by hand, and `fan-profile`. They  *)
(* meet at the socket's file and the serial port (SocketFile), at          *)
(* systemd's unit, and at the pwm outputs (FanProfile).                    *)
(*                                                                         *)
(* A running daemon writes to the outputs of its configuration again and   *)
(* again; when it ends by itself it leaves them at full speed, and when    *)
(* systemd's daemon ends, ExecStopPost's fail-safe does (Supervision has   *)
(* these in detail; here they are one step with the end).                  *)
(***************************************************************************)
EXTENDS SocketFile, FanProfile

CONSTANTS
  Configured, \* the outputs in the daemons' configuration
  Companies   \* bound: who may be about besides systemd's daemon

ASSUME InstancesAssumption ==
  /\ "service" \in Daemons /\ Configured \subseteq 1 .. Outputs
  /\ \A c \in Companies : c \subseteq (Daemons \ {"service"}) \cup {"tool", "hand"}

VARIABLES
  unit,   \* "waiting": Restart=on-failure, for RestartSec
  company \* never changes

vars == <<sockets, profile, unit, company>>

\* The unit's process has ended.
UnitAfter(d, error) ==
  unit' = IF d # "service" THEN unit
          ELSE IF error /\ unit # "stopping" THEN "waiting" ELSE "inactive"

\* Full speed, unless the write fails or it never took control.
LeftAtFullSpeed(d, tried) ==
  \/ /\ tried /\ \A o \in Configured : out[o] # "found"
     /\ out' = [o \in 1 .. Outputs |-> IF o \in Configured THEN "safe" ELSE out[o]]
     /\ muddled' = (muddled \/ (cur \in Configured /\ tool \in Sleeping))
     /\ leftover' = leftover \ Configured
  \/ UNCHANGED <<out, muddled, leftover>>

Ends(d, error, tried) ==
  /\ UnitAfter(d, error) /\ LeftAtFullSpeed(d, tried \/ d = "service")
  /\ UNCHANGED <<tool, paused, sweep, aborted, spins, kind>>

-----------------------------------------------------------------------------
(* The daemons. *)

ByHand(d) == d \in company /\ Launches(d) /\ UNCHANGED <<profile, unit>>

GoesFurther(d) == GoesOn(d) /\ UNCHANGED <<profile, unit>>

Fails(d) ==
  /\ FindsAnother(d) \/ (BindsInPlace(d) /\ at'[d] = "off") \/ PortFails(d)
  /\ Ends(d, TRUE, FALSE)

BindsThere(d) == BindsInPlace(d) /\ at'[d] # "off" /\ UNCHANGED <<profile, unit>>

Finishes(d) == Exits(d) /\ \E error \in BOOLEAN : Ends(d, error, TRUE)

Dies(d) == Crashes(d) /\ Ends(d, TRUE, FALSE)

\* The control thread of a daemon that runs, or is about to stop.
Drives(d) ==
  /\ at[d] \in {"up", "removing", "closing"}
  /\ \E o \in Configured : out[o] # "daemon" /\ WrittenBy(o, "daemon")
  /\ UNCHANGED <<sockets, unit, tool, paused, sweep, aborted, spins, kind>>

-----------------------------------------------------------------------------
(* systemd. *)

\* At boot, by hand, or RestartSec after a failure.
Starts ==
  /\ unit \in {"inactive", "waiting"} /\ unit' = "active" /\ Launches("service")
  /\ UNCHANGED profile

\* TimeoutStopSec is a Crash.
Stops ==
  /\ unit \in {"active", "waiting"}
  /\ unit' = IF unit = "active" THEN "stopping" ELSE "inactive"
  /\ UNCHANGED <<sockets, profile>>

-----------------------------------------------------------------------------
(* The tool and the unit. *)

\* DaemonPause::stop.  `systemctl stop` may fail, or be cut short.
Pauses ==
  /\ tool = "pausing" /\ paused' = (unit = "active")
  /\ tool' = IF unit = "active" THEN "stopping" ELSE "capturing"
  /\ unit' \in IF unit = "active" THEN {"active", "stopping"} ELSE {unit}
  /\ UNCHANGED <<sockets, sweep, aborted, world, kind, leftover>>

\* systemctl waits for the unit to stop, unless a signal ends it.
IsPaused ==
  /\ tool = "stopping" /\ tool' = "capturing"
  /\ UNCHANGED <<sockets, unit, paused, sweep, aborted, world, kind, leftover>>

\* DaemonPause's drop.  `systemctl start` may fail.
Resumes ==
  /\ tool = "resuming" /\ ToolEnds /\ UNCHANGED leftover
  /\ \/ paused /\ unit \in {"inactive", "waiting"} /\ unit' = "active" /\ Launches("service")
     \/ UNCHANGED <<unit, sockets>>

-----------------------------------------------------------------------------
Init == SocketsInit /\ ProfileInit /\ unit = "inactive" /\ company \in Companies

Acts ==
  \/ \E d \in Daemons : \/ ByHand(d) \/ GoesFurther(d) \/ Fails(d) \/ BindsThere(d)
                        \/ Finishes(d) \/ Dies(d) \/ Drives(d)
  \/ "hand" \in company /\ (ProbeOpens \/ ProbeEnds \/ Unlinks) /\ UNCHANGED <<profile, unit>>
  \/ Starts \/ Stops
  \/ Pauses \/ IsPaused \/ Resumes
  \/ "tool" \in company /\ Sweeps /\ UNCHANGED <<sockets, unit>>

Next == Acts /\ UNCHANGED company

Spec == Init /\ [][Next]_vars
=============================================================================
