--------------------------- MODULE ConsumerService ---------------------------
(***************************************************************************)
(* internal/services/consumer.go: Consume() and Close() of the consumer    *)
(* service, run by the manager, the goroutine that each attempt of         *)
(* Consume() starts and that calls Sarama's ConsumerGroup.Consume in a     *)
(* loop, and the goroutine that wait() starts to watch the ready channel.  *)
(*                                                                         *)
(* Attempt a has a context, a consume loop g[a] and a waiter.  All share   *)
(* cs.ready: Setup closes it, the loops replace it, the waiters block on   *)
(* the one they find.  Sarama is external: Consume holds the group's lock  *)
(* while it joins and as long as the session lasts, fails only before      *)
(* Setup, and calls Setup even when its context has been cancelled.        *)
(***************************************************************************)
EXTENDS Naturals, FiniteSets

CONSTANTS MaxConsumeAttempts,  \* maxConsumeAttempts, 3 in the code
          MaxRebalances,       \* bound on the sessions the group ends by itself
          MaxErrors            \* bound on the joins that fail in a group that can be joined

ASSUME ConsumerAssumption ==
  MaxConsumeAttempts \in Nat /\ MaxRebalances \in Nat /\ MaxErrors \in Nat

\* The backoff grants MaxConsumeAttempts delays: one attempt more than that.
Attempts == 1 .. MaxConsumeAttempts + 1

\* Identities of the channels cs.ready has been: New makes 0, each loop's make
\* the next.  There are at most MaxRebalances + 1.
Channels == Nat

VARIABLES
  main,        \* where the manager is in Consume() and Close()
  attempt,     \* iteration of the loop in Consume()
  cancelled,   \* attempts whose context is cancelled
  g,           \* where the consume loop of each attempt is
  waiter,      \* the goroutine of wait(), per attempt
  waitOn,      \* the channel that goroutine found in cs.ready
  ready,       \* cs.ready
  closedChans, \* channels already closed
  crashed,     \* a channel was closed twice: the process panicked
  joined,      \* attempts that have had a session (history)
  lock,        \* holder of the consumer group's lock, 0 when free
  groupClosed, \* ConsumerGroup.Close has begun
  reachable,   \* the group can be joined at all
  rebalances, errors  \* events of the environment so far

goroutines == <<g, waiter, waitOn>>
channels == <<ready, closedChans, crashed>>
group == <<joined, lock, groupClosed, reachable, rebalances, errors>>
vars == <<main, attempt, cancelled, goroutines, channels, group>>

-----------------------------------------------------------------------------
\* Plausible slips in the code below, for the mutation runs.
NothingCancelled == cancelled          \* no cs.cancel()
NoTimeout == FALSE                     \* no time.After in wait()
ExhaustedLate == attempt - 1 > MaxConsumeAttempts
ReadyIgnored(a) == TRUE                \* wait() does not receive from cs.ready
KeepReady == ready                     \* cs.ready not made again
EndWhenClosedOnly(a) == groupClosed    \* a session that outlives its context
EndNever(a) == FALSE                   \* a ConsumeClaim that does not return
-----------------------------------------------------------------------------
Init ==
  /\ main = "start"
  /\ attempt = 0
  /\ cancelled = {}
  /\ g = [a \in Attempts |-> "none"]
  /\ waiter = [a \in Attempts |-> "none"]
  /\ waitOn = [a \in Attempts |-> 0]
  /\ ready = 0
  /\ closedChans = {}
  /\ crashed = FALSE
  /\ joined = {}
  /\ lock = 0
  /\ groupClosed = FALSE
  /\ reachable \in BOOLEAN
  /\ rebalances = 0
  /\ errors = 0

\* A panic or glog.Fatalf ends the process.
Running == ~crashed /\ main # "fatal"

GoTo(a, pc) == g' = [g EXCEPT ![a] = pc]

\* The sets of cancelled contexts after cs.cancel(), which is always the cancel
\* function of the latest attempt.
CancelCurrent == cancelled \cup {attempt}

--------------------------------- (* Consume() *) ----------------------------
\* Top of the loop: new context, new consume loop, new waiter.
StartAttempt ==
  /\ Running /\ main \in {"start", "delay"}
  /\ attempt' = attempt + 1
  /\ g' = [g EXCEPT ![attempt + 1] = "call"]
  /\ waiter' = [waiter EXCEPT ![attempt + 1] = "spawned"]
  /\ main' = "wait"
  /\ UNCHANGED <<cancelled, waitOn, channels, group>>

\* wait() returns false: its goroutine saw the channel it watches closed.
WaitDone ==
  /\ Running /\ main = "wait" /\ waiter[attempt] = "done"
  /\ main' = "up"
  /\ UNCHANGED <<attempt, cancelled, goroutines, channels, group>>

MayTimeOut == main = "wait"

BackoffExhausted == attempt - 1 = MaxConsumeAttempts

\* wait() returns true: cancel, then the backoff either grants a delay or is
\* exhausted. time.After may fire even when the goroutine is done too.
WaitTimedOut ==
  /\ Running /\ MayTimeOut
  /\ cancelled' = CancelCurrent
  /\ main' = IF BackoffExhausted THEN "fatal" ELSE "delay"
  /\ UNCHANGED <<attempt, goroutines, channels, group>>

\* The goroutine of wait() reads cs.ready when it gets to run, not when wait()
\* is called, and blocks on the channel it found.
WaiterReads(a) ==
  /\ Running /\ waiter[a] = "spawned"
  /\ waiter' = [waiter EXCEPT ![a] = "blocked"]
  /\ waitOn' = [waitOn EXCEPT ![a] = ready]
  /\ UNCHANGED <<main, attempt, cancelled, g, channels, group>>

ReadyClosed(a) == waitOn[a] \in closedChans

WaiterWakes(a) ==
  /\ Running /\ waiter[a] = "blocked" /\ ReadyClosed(a)
  /\ waiter' = [waiter EXCEPT ![a] = "done"]
  /\ UNCHANGED <<main, attempt, cancelled, g, waitOn, channels, group>>

---------------------------- (* the consume loop *) --------------------------
\* ConsumerGroup.Consume refuses a closed group and else waits for its lock.
CallConsume(a) ==
  /\ Running /\ g[a] = "call"
  /\ GoTo(a, IF groupClosed THEN "failed" ELSE "lock")
  /\ UNCHANGED <<main, attempt, cancelled, waiter, waitOn, channels, group>>

AcquireLock(a) ==
  /\ Running /\ g[a] = "lock" /\ lock = 0
  /\ lock' = a
  /\ GoTo(a, "join")
  /\ UNCHANGED <<main, attempt, cancelled, waiter, waitOn, channels,
                 joined, groupClosed, reachable, rebalances, errors>>

\* The group can be joined: Close has not closed the client.
Joinable == reachable /\ main # "closed"

\* Metadata refresh or join fails: Consume returns an error. It always does in
\* a group that cannot be joined.
JoinFails(a) ==
  /\ Running /\ g[a] = "join"
  /\ Joinable => errors < MaxErrors
  /\ errors' = IF Joinable THEN errors + 1 ELSE errors
  /\ lock' = 0
  /\ GoTo(a, "failed")
  /\ UNCHANGED <<main, attempt, cancelled, waiter, waitOn, channels,
                 joined, groupClosed, reachable, rebalances>>

\* The handler's Setup: close(cs.ready), which panics on a closed channel.
Setup ==
  IF ready \in closedChans
  THEN crashed' = TRUE /\ UNCHANGED <<ready, closedChans>>
  ELSE closedChans' = closedChans \cup {ready} /\ UNCHANGED <<ready, crashed>>

\* The member joins the group and Sarama calls Setup at once.
Join(a) ==
  /\ Running /\ g[a] = "join" /\ Joinable
  /\ Setup
  /\ GoTo(a, "session")
  /\ joined' = joined \cup {a}
  /\ UNCHANGED <<main, attempt, cancelled, waiter, waitOn,
                 lock, groupClosed, reachable, rebalances, errors>>

SessionMustEnd(a) == a \in cancelled \/ groupClosed

\* The session's context is done: Sarama calls Cleanup and Consume returns nil.
EndSession(a) ==
  /\ Running /\ g[a] = "session"
  /\ SessionMustEnd(a)
  /\ lock' = 0
  /\ GoTo(a, "returned")
  /\ UNCHANGED <<main, attempt, cancelled, waiter, waitOn, channels,
                 joined, groupClosed, reachable, rebalances, errors>>

\* The group ends the session: rebalance, lost heartbeat, changed partitions.
Rebalance(a) ==
  /\ Running /\ g[a] = "session" /\ rebalances < MaxRebalances
  /\ rebalances' = rebalances + 1
  /\ lock' = 0
  /\ GoTo(a, "returned")
  /\ UNCHANGED <<main, attempt, cancelled, waiter, waitOn, channels,
                 joined, groupClosed, reachable, errors>>

\* Consume returned nil: leave if the context is cancelled, else go on to make
\* a new ready channel.
CheckContext(a) ==
  /\ Running /\ g[a] = "returned"
  /\ GoTo(a, IF a \in cancelled THEN "exited" ELSE "remake")
  /\ UNCHANGED <<main, attempt, cancelled, waiter, waitOn, channels, group>>

NewChannel == ready + 1

\* cs.ready = make(chan bool), then round the loop.
RemakeReady(a) ==
  /\ Running /\ g[a] = "remake"
  /\ ready' = NewChannel
  /\ GoTo(a, "call")
  /\ UNCHANGED <<main, attempt, cancelled, waiter, waitOn, closedChans, crashed, group>>

\* Consume returned an error: sleep, then `continue` without a look at the
\* context.
RetryAfterError(a) ==
  /\ Running /\ g[a] = "failed"
  /\ GoTo(a, "call")
  /\ UNCHANGED <<main, attempt, cancelled, waiter, waitOn, channels, group>>

--------------------------------- (* Close() *) ------------------------------
\* Stop calls Close only after Start, hence Consume, has returned.
CloseCancels ==
  /\ Running /\ main = "up"
  /\ cancelled' = CancelCurrent
  /\ main' = "closing"
  /\ UNCHANGED <<attempt, goroutines, channels, group>>

CloseGroup ==
  /\ Running /\ main = "closing"
  /\ groupClosed' = TRUE
  /\ main' = "leaving"
  /\ UNCHANGED <<attempt, cancelled, goroutines, channels,
                 joined, lock, reachable, rebalances, errors>>

\* ConsumerGroup.Close leaves the group under the lock, and only then closes
\* the client.
CloseLeaves ==
  /\ Running /\ main = "leaving" /\ lock = 0
  /\ main' = "left"
  /\ UNCHANGED <<attempt, cancelled, goroutines, channels, group>>

\* The client closes; an error on the way is fatal.
CloseClient ==
  /\ Running /\ main = "left"
  /\ main' \in {"closed", "fatal"}
  /\ UNCHANGED <<attempt, cancelled, goroutines, channels, group>>

-----------------------------------------------------------------------------
Consume == StartAttempt \/ WaitDone \/ WaitTimedOut
Close == CloseGroup \/ CloseLeaves \/ CloseClient
Waiter(a) == WaiterReads(a) \/ WaiterWakes(a)
Loop(a) ==
  \/ CallConsume(a) \/ AcquireLock(a) \/ JoinFails(a) \/ Join(a)
  \/ EndSession(a) \/ CheckContext(a) \/ RemakeReady(a) \/ RetryAfterError(a)

\* The process is gone, or it is closed and no goroutine is left.
Stopped ==
  /\ \/ ~Running
     \/ main = "closed" /\ \A a \in Attempts : g[a] \in {"none", "exited"}
  /\ UNCHANGED vars

Next ==
  \/ Consume \/ CloseCancels \/ Close
  \/ \E a \in Attempts : Waiter(a) \/ Loop(a) \/ Rebalance(a)
  \/ Stopped

\* Goroutines are scheduled, timers fire, a join ends in a session or an error,
\* and a Go mutex starves no one.  Nothing makes the group rebalance or the
\* operator stop the canary.
Fairness ==
  /\ WF_vars(Consume) /\ WF_vars(WaitTimedOut) /\ WF_vars(Close)
  /\ \A a \in Attempts :
       WF_vars(Waiter(a)) /\ WF_vars(Loop(a)) /\ SF_vars(AcquireLock(a))

Spec == Init /\ [][Next]_vars
FairSpec == Spec /\ Fairness
-----------------------------------------------------------------------------
\* The variables keep their types.
TypeOK ==
  /\ main \in {"start", "wait", "delay", "up", "closing", "leaving", "left", "closed", "fatal"}
  /\ attempt \in 0 .. MaxConsumeAttempts + 1
  /\ cancelled \subseteq Attempts /\ joined \subseteq Attempts
  /\ g \in [Attempts -> {"none", "call", "lock", "join", "session", "returned",
                         "remake", "failed", "exited"}]
  /\ waiter \in [Attempts -> {"none", "spawned", "blocked", "done"}]
  /\ waitOn \in [Attempts -> Channels]
  /\ ready \in Channels /\ closedChans \subseteq Channels
  /\ crashed \in BOOLEAN /\ groupClosed \in BOOLEAN /\ reachable \in BOOLEAN
  /\ lock \in Attempts \cup {0}
  /\ rebalances \in 0 .. MaxRebalances /\ errors \in 0 .. MaxErrors

\* At most one consume loop runs under a context that is not cancelled: cancel()
\* reaches the loop of every attempt that timed out before the next one starts.
OneLiveLoop ==
  \A a, b \in Attempts :
    {g[a], g[b]} \cap {"none", "exited"} = {} /\ {a, b} \cap cancelled = {} => a = b

\* Closing cs.ready twice, which panics, takes two attempts that join: one whose
\* context was cancelled, and a later one.  A consumer whose first attempt succeeds
\* never panics, nor one whose earlier attempts never joined, whatever the
\* rebalances, the failed joins, and the moment of Close.
PanicNeedsTwoJoins == crashed => \E a, b \in joined : a < b /\ a \in cancelled

\* Consume() that returns has had a session, its own or one of an attempt that timed
\* out: at its first attempt, its own.
SomeAttemptJoined == main = "up" => \E a \in 1 .. attempt : a \in joined

\* Consume() comes to an end, joined, given up, or dead, even if the group can
\* never be joined.
ConsumeReturns == <>(main \in {"up", "fatal"} \/ crashed)

\* A consumer that is up gets back into the group after each rebalance and each
\* failed join, unless Close or a panic comes first.
UpRejoins ==
  main = "up" ~> \/ main # "up" \/ crashed
                 \/ g[attempt] = "session"

\* Close() returns: no session of any attempt keeps the group's lock from it.
CloseReturns == main = "closing" ~> (main \in {"closed", "fatal"} \/ crashed)

\* The comment on Consume(): "Before returning, it waits for the consumer to
\* join the group".
ReturnsJoined == main = "up" => attempt \in joined
=============================================================================
