--------------------------- MODULE SlidingWindow ---------------------------
(***************************************************************************)
(* What a sampled time window promises to its readers: the last N samples  *)
(* put, oldest first.  TimeWindowRing implements it with a ring buffer.    *)
(***************************************************************************)
EXTENDS Naturals, Sequences

CONSTANTS N,       \* how many samples the window holds
          Values   \* the samples

VARIABLE window

\* w with v entering on the right, the oldest sample leaving a full window.
Slide(w, v) == IF Len(w) < N THEN Append(w, v) ELSE Append(Tail(w), v)

Init == window = <<>>

Put(v) == window' = Slide(window, v)

Next == \E v \in Values : Put(v)

Spec == Init /\ [][Next]_window
=============================================================================
