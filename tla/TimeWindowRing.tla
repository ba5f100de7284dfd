--------------------------- MODULE TimeWindowRing ---------------------------
(***************************************************************************)
(* internal/util/time_window_ring.go: the ring buffer that holds the       *)
(* samples of a counter over a sliding time window.  The struct's buffer,  *)
(* tail, head and count are the variables; Put is its only update.  The    *)
(* lifetime of the struct starts with NewTimeWindowRing (Init).            *)
(***************************************************************************)
EXTENDS Integers, Sequences

CONSTANTS Size,              \* the time window
          Sampling,          \* the sampling interval, in the same unit
          MaxBufferBuckets,  \* cap on the number of buckets (384 in the code)
          Values             \* samples put in the ring

\* A window shorter than its sampling interval gets a buffer of length 0 and
\* the first Put divides by zero: the configurations that work are these.
ASSUME RingAssumption ==
  /\ Size \in Nat /\ Sampling \in Nat \ {0} /\ MaxBufferBuckets \in Nat \ {0}
  /\ Size \div Sampling \in Nat \ {0}
  /\ 0 \in Values

VARIABLES buffer, tail, head, count

vars == <<buffer, tail, head, count>>

-----------------------------------------------------------------------------
\* Plausible slips in the code below, for the mutation runs.
NextNoWrap(i) == i + 1
TailStays(h) == IF tail = -1 THEN 0 ELSE tail
TailNeverSet(h) == IF h = tail THEN NextNoWrap(tail) ELSE tail
-----------------------------------------------------------------------------
BufferSize ==
  IF Size \div Sampling > MaxBufferBuckets THEN MaxBufferBuckets
                                           ELSE Size \div Sampling

Slots == 0 .. BufferSize - 1

\* The slot after i, going round; the slot after -1 is the first.
NextSlot(i) == (i + 1) % BufferSize

\* The tail once the head has moved to h: pushed when the head reaches it, and
\* set by the very first sample.
TailAfter(h) ==
  IF h = tail THEN NextSlot(tail) ELSE IF tail = -1 THEN 0 ELSE tail

CountAfter == IF count < BufferSize THEN count + 1 ELSE count

Init ==
  /\ buffer = [i \in Slots |-> 0]
  /\ tail = -1
  /\ head = -1
  /\ count = 0

Put(v) ==
  LET h == NextSlot(head) IN
  /\ head' = h
  /\ buffer' = [buffer EXCEPT ![h] = v]
  /\ tail' = TailAfter(h)
  /\ count' = CountAfter

Next == \E v \in Values : Put(v)

Spec == Init /\ [][Next]_vars

IsEmpty == tail = -1 /\ head = -1
-----------------------------------------------------------------------------
\* The variables keep their types: in particular both indexes stay inside the
\* buffer, so that Head() and Tail() never index out of range once a sample is in.
TypeOK ==
  /\ buffer \in [Slots -> Values]
  /\ tail \in Slots \cup {-1}
  /\ head \in Slots \cup {-1}
  /\ count \in 0 .. BufferSize

\* The two indexes and the count agree: the ring is empty in all three or in
\* none, a ring that is filling starts at slot 0, and in a full ring the tail
\* is just after the head.
IndexInv ==
  /\ IsEmpty <=> count = 0
  /\ head = -1 <=> count = 0
  /\ count \in 1 .. BufferSize - 1 => tail = 0 /\ head = count - 1
  /\ count = BufferSize => tail = NextSlot(head)

\* The samples in the window, oldest first, as the indexes delimit them.
Window == [i \in 1 .. count |-> buffer[(tail + i - 1) % BufferSize]]

\* The ring is a sliding window over the last BufferSize samples: each Put
\* appends its sample and drops the oldest one only when the window is full.
SW == INSTANCE SlidingWindow WITH N <- BufferSize, window <- Window
ImplementsSlidingWindow == SW!Spec
=============================================================================
