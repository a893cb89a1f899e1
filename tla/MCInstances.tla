------------------------------ MODULE MCInstances ------------------------------
(***************************************************************************)
(* A small instance of Instances for TLC: two daemons and two outputs, the *)
(* first with a fan, of every kind there is in so few steps.               *)
(***************************************************************************)
EXTENDS Instances

SomeFans == {1}
Kinds == {[stall |-> 0, start |-> 1], [stall |-> 1, start |-> 2],
          [stall |-> 2, start |-> 3], [stall |-> 3, start |-> 4]}
=============================================================================
