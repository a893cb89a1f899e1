----------------------------- MODULE PowerGate ------------------------------
(***************************************************************************)
(* What the front panel promises about powering the box off or restarting  *)
(* it: an action is ordered only once somebody has confirmed it, or once   *)
(* it has been announced for its whole countdown without being withdrawn.  *)
(* A running announcement is never put off, brought forward or turned      *)
(* from a shutdown into a restart.  AppState implements it.                *)
(***************************************************************************)
EXTENDS Integers

VARIABLES
  stage,   \* "idle", "asking" somebody to confirm, or "announced"
  target,  \* the action asked about or announced
  left,    \* time left to answer, or to withdraw
  ordered  \* the action the last step ordered

gate == <<stage, target, left, ordered>>

Power == {"Shutdown", "Restart"}
Nothing == "NoAction"

Ask(a) ==
  /\ stage = "idle"
  /\ stage' = "asking" /\ target' = a /\ left' \in Nat
  /\ ordered' = Nothing

Announce(a) ==
  /\ stage \in {"idle", "asking"}
  /\ stage' = "announced" /\ target' = a /\ left' \in Nat
  /\ ordered' = Nothing

Strengthen ==
  /\ stage = "announced"
  /\ target' = "Shutdown"
  /\ ordered' = Nothing
  /\ UNCHANGED <<stage, left>>

Wait ==
  /\ left > 0
  /\ left' = left - 1
  /\ ordered' = Nothing
  /\ UNCHANGED <<stage, target>>

GoIdle == stage' = "idle" /\ target' = Nothing /\ left' = -1

Withdraw ==
  /\ stage # "idle"
  /\ GoIdle
  /\ ordered' = Nothing

Confirm ==
  /\ stage = "asking"
  /\ GoIdle
  /\ ordered' = target

TimeUp ==
  /\ stage = "announced" /\ left = 0
  /\ GoIdle
  /\ ordered' = target

Settle ==
  /\ ordered' = Nothing
  /\ UNCHANGED <<stage, target, left>>

GateInit == stage = "idle" /\ target = Nothing /\ left = -1 /\ ordered = Nothing

GateNext ==
  \/ \E a \in Power : Ask(a) \/ Announce(a)
  \/ Strengthen \/ Wait \/ Withdraw \/ Confirm \/ TimeUp \/ Settle

GateSpec == GateInit /\ [][GateNext]_gate
=============================================================================
