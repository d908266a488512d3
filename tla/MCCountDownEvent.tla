------------------------- MODULE MCCountDownEvent -------------------------
(* Instances of CountDownEvent for TLC: named calls. *)
EXTENDS CountDownEvent

CONSTANTS
  s1, s2, s3, s4, s5,  \* calls of set()
  w1, w2               \* calls of wait()

=============================================================================
