---------------------------- MODULE BoundedQueue ----------------------------
(***************************************************************************)
(* What a bounded queue of the library promises to the threads of a pool:  *)
(* what a put() accepts enters once, and leaves in the order of entering,  *)
(* and never more than hwm are pending.  BoundedFifo and UnboundedFifo     *)
(* implement it with two locks.                                            *)
(***************************************************************************)
EXTENDS Naturals, Sequences

CONSTANTS Items, HWM

VARIABLES
  pending,      \* the items in the queue, oldest first
  entered       \* the items whose put() was accepted

Init == pending = <<>> /\ entered = {}

Put(x) ==
  /\ x \notin entered
  /\ Len(pending) < HWM
  /\ pending' = Append(pending, x)
  /\ entered' = entered \cup {x}

Take ==
  /\ pending # <<>>
  /\ pending' = Tail(pending)
  /\ UNCHANGED entered

Next == Take \/ \E x \in Items : Put(x)

Spec == Init /\ [][Next]_<<pending, entered>>

=============================================================================
