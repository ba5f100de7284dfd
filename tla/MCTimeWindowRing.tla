------------------------- MODULE MCTimeWindowRing -------------------------
(***************************************************************************)
(* Instance for TLC: a window of 9 time units sampled every 2 would need 4  *)
(* buckets and is capped at 3, so that both the division and the cap apply. *)
(***************************************************************************)
EXTENDS TimeWindowRing

MCValues == 0 .. 3
=============================================================================
