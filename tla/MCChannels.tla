----------------------------- MODULE MCChannels -----------------------------
(***************************************************************************)
(* An instance for TLC of the two channels.  They share nothing but the    *)
(* roles of their threads, so a behaviour uses one of them, and the other  *)
(* stays as it was constructed.                                            *)
(***************************************************************************)
EXTENDS BoundedChannel

CONSTANTS
  p1, p2,         \* threads that put, p1 may close the unbounded channel, too
  c1, c2,         \* consumers
  t1,             \* a thread that only tries
  k1,             \* a thread that only closes
  FirstClosers    \* who closes the unbounded channel

VARIABLES
  object,                                             \* the channel that is used
  state2, size2, early, head2, tail2, asleep, pc2, calls2   \* the unbounded one

unboundedVars == <<state2, size2, early, head2, tail2, asleep, pc2, calls2>>

Unbounded == INSTANCE UnboundedChannel
  WITH Closers <- FirstClosers, Timed <- Timed \cap Consumers,
       MaxPuts <- MaxCalls, MaxTries <- MaxCalls,
       state <- state2, size <- size2, headMtx <- head2, tailMtx <- tail2,
       pc <- pc2, calls <- calls2

ASSUME UnboundedAssumption == Unbounded!UnboundedChannelConstants

ChannelsInit ==
  /\ object \in {"bounded", "unbounded"}
  /\ Init /\ Unbounded!Init

ChannelsNext ==
  /\ UNCHANGED object
  /\ \/ object = "bounded" /\ Next /\ UNCHANGED unboundedVars
     \/ object = "unbounded" /\ Unbounded!Next /\ UNCHANGED vars

\* Nothing that is asked of the unbounded channel needs fairness.
ChannelsSpec ==
  /\ ChannelsInit
  /\ [][ChannelsNext]_<<object, vars, unboundedVars>>
  /\ Fairness

----------------------------------------------------------------------------
(* The properties of the instance, under names of their own.               *)

\* A take() of the unbounded channel that reports the end leaves nothing that
\* was put before the channel was closed.
EndMeansDrained == Unbounded!EndMeansDrained

\* Nobody is asleep on the unbounded channel once it is closed.
NobodySleepsAtTheEnd == Unbounded!NobodySleepsClosed

=============================================================================
