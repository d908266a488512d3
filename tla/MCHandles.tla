----------------------------- MODULE MCHandles -----------------------------
(***************************************************************************)
(* An instance for TLC of the objects a program holds: promises or         *)
(* packaged_tasks with their futures, and pools.  They share nothing, so a *)
(* behaviour uses one kind of them, and the other stays as it was.         *)
(***************************************************************************)
EXTENDS FutureHandles

CONSTANTS
  Handles, MaxPools, Size, Hwm,   \* the pools
  Roots, k1, k2                   \* tasks of a thread of their own, of a task

VARIABLES
  object,                         \* what is used
  bounded, pool, state, now, left, owner, at, into    \* the pools

poolVars == <<bounded, pool, state, now, left, owner, at, into>>

\* Every child is submitted by another root.
Children == {k1, k2}
Parent   == CHOOSE f \in [Children -> Roots] : f[k1] # f[k2]

Pool == INSTANCE PoolHandles

ASSUME PoolsAssumption == Pool!PoolHandlesConstants

HandlesInit ==
  /\ Init /\ Pool!Init
  /\ \/ object = "futures" /\ bounded
     \/ object = "pools" /\ kind = "promise"

HandlesNext ==
  /\ UNCHANGED object
  /\ \/ object = "futures" /\ Next /\ UNCHANGED poolVars
     \/ object = "pools" /\ Pool!Next /\ UNCHANGED vars

HandlesSpec ==
  /\ HandlesInit
  /\ [][HandlesNext]_<<object, vars, poolVars>>
  /\ Pool!Fairness

----------------------------------------------------------------------------
(* The properties of the pools, under names of their own.                  *)

\* A pool that nobody refers to is shut down, and shutdown() leaves it no task.
NoPoolLeaks == Pool!NoPoolLeaks

\* submit() and a shutdown come back.
CallsReturn == Pool!CallsReturn

=============================================================================
