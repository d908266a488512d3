-------------------------- MODULE MCSpinCondition --------------------------
(* Instances of SpinCondition for TLC: named threads. *)
EXTENDS SpinCondition

CONSTANTS
  w1, w2, w3,   \* waiters
  n1, n2        \* notifiers

=============================================================================
