------------------------------ MODULE TickerLoop ------------------------------
(***************************************************************************)
(* What the periodic services of the canary promise: Open() starts a loop, *)
(* the loop works at the ticks of its ticker, and Close() asks it to stop, *)
(* waits until it has returned and only then goes on to close what the     *)
(* loop works with.  ConnectionService and CanaryManager implement it.     *)
(***************************************************************************)
VARIABLES loop,  \* "none", "waiting" for a tick, "working", "returned", "closed"
          stop   \* the stop channel is closed

vars == <<loop, stop>>

-----------------------------------------------------------------------------
Init == loop = "none" /\ stop = FALSE

Open == loop = "none" /\ ~stop /\ loop' = "waiting" /\ UNCHANGED stop

\* Of a tick and the stop channel, select takes either.
Tick == loop = "waiting" /\ loop' = "working" /\ UNCHANGED stop

TickDone == loop = "working" /\ loop' = "waiting" /\ UNCHANGED stop

AskToStop == loop \in {"waiting", "working"} /\ ~stop /\ stop' = TRUE /\ UNCHANGED loop

\* The loop returns between two ticks, never out of its work.
Return == loop = "waiting" /\ stop /\ loop' = "returned" /\ UNCHANGED stop

\* Close() has waited for the loop, and closes what it used.
CloseReturns == loop = "returned" /\ loop' = "closed" /\ UNCHANGED stop

\* The process dies.
Die == loop' = "none" /\ stop' = FALSE

Next == Open \/ Tick \/ TickDone \/ AskToStop \/ Return \/ CloseReturns \/ Die

Spec == Init /\ [][Next]_vars
=============================================================================
