---------------------------- MODULE MCStaticPool ----------------------------
(* Instances of StaticPool for TLC; every constant is given in the .cfg. *)
EXTENDS StaticPool

CONSTANT s1     \* a thread that shuts the pool down

=============================================================================
