----------------------- MODULE ConsumerService_proofs -----------------------
(***************************************************************************)
(* The safety of Consume() for any number of attempts, rebalances and      *)
(* failed joins.  TLC checks the same invariants, and liveness, on a small *)
(* instance (ConsumerService.cfg).                                         *)
(***************************************************************************)
EXTENDS ConsumerService, TLAPS

\* Attempts that have not begun have nothing; those that are over are cancelled.
AttemptsInOrder ==
  /\ \A a \in Attempts : a > attempt => g[a] = "none" /\ waiter[a] = "none"
  /\ \A a \in Attempts : a < attempt => a \in cancelled
  /\ main = "start" => attempt = 0
  /\ main = "delay" => attempt \in cancelled /\ attempt \in 1 .. MaxConsumeAttempts
  /\ main \notin {"start", "delay"} => attempt \in Attempts

\* cs.ready is closed just as long as a loop is between the Setup that closed it and
\* the make that replaces it, or has ended there; and no channel to come is closed yet.
ReadyInOrder ==
  /\ \A c \in closedChans : c <= ready
  /\ ready \in closedChans =>
       \E a \in joined : g[a] \in {"session", "returned", "remake", "exited"}

\* Channels are closed by sessions of attempts that have begun, waiters wake by
\* a closed channel, and Consume returns by its waiter.
JoinedInOrder ==
  /\ closedChans # {} => joined # {}
  /\ \A a \in joined : a <= attempt
  /\ \A a \in Attempts : waiter[a] = "done" => closedChans # {}
  /\ main = "up" => waiter[attempt] = "done"

Inv == TypeOK /\ AttemptsInOrder /\ ReadyInOrder /\ JoinedInOrder /\ PanicNeedsTwoJoins

LEMMA InitInv == Init => Inv
<1> SUFFICES ASSUME Init PROVE Inv
  OBVIOUS
<1> USE ConsumerAssumption DEF Init, Attempts
<1>1. TypeOK
  <2>1. /\ g \in [Attempts -> {"none", "call", "lock", "join", "session", "returned",
                               "remake", "failed", "exited"}]
        /\ waiter \in [Attempts -> {"none", "spawned", "blocked", "done"}]
        /\ waitOn \in [Attempts -> Channels]
    BY DEF Channels
  <2>2. attempt \in 0 .. MaxConsumeAttempts + 1 /\ lock \in Attempts \cup {0}
        /\ ready \in Channels /\ rebalances \in 0 .. MaxRebalances /\ errors \in 0 .. MaxErrors
    BY DEF Channels
  <2>3. cancelled \subseteq Attempts /\ joined \subseteq Attempts /\ closedChans \subseteq Channels
    BY DEF Channels
  <2>4. QED BY <2>1, <2>2, <2>3 DEF TypeOK
<1>2. AttemptsInOrder
  BY DEF AttemptsInOrder
<1>3. ReadyInOrder /\ JoinedInOrder /\ PanicNeedsTwoJoins
  BY DEF ReadyInOrder, JoinedInOrder, PanicNeedsTwoJoins
<1>4. QED BY <1>1, <1>2, <1>3 DEF Inv

\* One fact per action, by the conjuncts of the invariant.
LEMMA ConsumeKeepsInv == Inv /\ Consume => Inv'
<1> SUFFICES ASSUME Inv, Consume PROVE Inv'
  OBVIOUS
<1> USE ConsumerAssumption DEF Inv, Attempts, Channels, channels, group, goroutines
<1>1. CASE StartAttempt
  <2>1. TypeOK'
    BY <1>1 DEF StartAttempt, TypeOK, AttemptsInOrder
  <2>2. AttemptsInOrder'
    BY <1>1 DEF StartAttempt, TypeOK, AttemptsInOrder
  <2>3. ReadyInOrder'
    <3>1. \A a \in joined : a \in Attempts /\ a # attempt + 1
      BY <1>1 DEF StartAttempt, TypeOK, JoinedInOrder
    <3>2. \A a \in joined : g'[a] = g[a]
      BY <1>1, <3>1 DEF StartAttempt, TypeOK
    <3>3. QED BY <1>1, <3>2 DEF StartAttempt, ReadyInOrder
  <2>4. JoinedInOrder' /\ PanicNeedsTwoJoins'
    BY <1>1 DEF StartAttempt, TypeOK, AttemptsInOrder, JoinedInOrder, PanicNeedsTwoJoins, Running
  <2>5. QED BY <2>1, <2>2, <2>3, <2>4
<1>2. CASE WaitDone
  BY <1>2 DEF WaitDone, TypeOK, AttemptsInOrder, ReadyInOrder, JoinedInOrder, PanicNeedsTwoJoins
<1>3. CASE WaitTimedOut
  <2>1. TypeOK' /\ AttemptsInOrder'
    BY <1>3 DEF WaitTimedOut, MayTimeOut, BackoffExhausted, CancelCurrent, TypeOK, AttemptsInOrder
  <2>2. ReadyInOrder' /\ JoinedInOrder'
    BY <1>3 DEF WaitTimedOut, TypeOK, ReadyInOrder, JoinedInOrder
  <2>3. PanicNeedsTwoJoins'
    BY <1>3 DEF WaitTimedOut, CancelCurrent, PanicNeedsTwoJoins
  <2>4. QED BY <2>1, <2>2, <2>3
<1>4. QED BY <1>1, <1>2, <1>3 DEF Consume

LEMMA WaiterKeepsInv ==
  ASSUME Inv, NEW a \in Attempts, Waiter(a) PROVE Inv'
<1> USE DEF Inv, channels, group
<1>1. CASE WaiterReads(a)
  <2>1. TypeOK'
    BY <1>1 DEF WaiterReads, TypeOK
  <2>2. AttemptsInOrder'
    BY <1>1 DEF WaiterReads, TypeOK, AttemptsInOrder
  <2>3. ReadyInOrder' /\ JoinedInOrder' /\ PanicNeedsTwoJoins'
    BY <1>1 DEF WaiterReads, TypeOK, AttemptsInOrder, ReadyInOrder, JoinedInOrder,
                PanicNeedsTwoJoins
  <2>4. QED BY <2>1, <2>2, <2>3
<1>2. CASE WaiterWakes(a)
  <2>1. TypeOK'
    BY <1>2 DEF WaiterWakes, TypeOK
  <2>2. AttemptsInOrder'
    BY <1>2 DEF WaiterWakes, TypeOK, AttemptsInOrder
  <2>3. ReadyInOrder' /\ JoinedInOrder' /\ PanicNeedsTwoJoins'
    BY <1>2 DEF WaiterWakes, ReadyClosed, TypeOK, AttemptsInOrder, ReadyInOrder, JoinedInOrder,
                PanicNeedsTwoJoins
  <2>4. QED BY <2>1, <2>2, <2>3
<1>3. QED BY <1>1, <1>2 DEF Waiter

\* Steps of the consume loop that leave cs.ready alone.
LEMMA LoopMovesKeepInv ==
  ASSUME Inv, NEW a \in Attempts,
         \/ CallConsume(a) \/ AcquireLock(a) \/ JoinFails(a) \/ EndSession(a)
         \/ Rebalance(a) \/ CheckContext(a) \/ RetryAfterError(a)
  PROVE  Inv'
<1> USE DEF Inv, channels, group
<1> DEFINE Moves == \/ CallConsume(a) \/ AcquireLock(a) \/ JoinFails(a) \/ EndSession(a)
                    \/ Rebalance(a) \/ CheckContext(a) \/ RetryAfterError(a)
<1>1. \E pc \in {"failed", "lock", "join", "returned", "exited", "remake", "call"} :
        /\ GoTo(a, pc)
        /\ g[a] \in {"session", "returned", "remake", "exited"}
             => pc \in {"returned", "remake", "exited"}
  BY DEF CallConsume, AcquireLock, JoinFails, EndSession, Rebalance, CheckContext, RetryAfterError
<1>2. g[a] # "none"
  BY DEF CallConsume, AcquireLock, JoinFails, EndSession, Rebalance, CheckContext, RetryAfterError
<1>3. UNCHANGED <<main, attempt, cancelled, waiter, waitOn, channels, joined, groupClosed, reachable>>
  BY DEF CallConsume, AcquireLock, JoinFails, EndSession, Rebalance, CheckContext, RetryAfterError
<1>4. /\ lock' \in Attempts \cup {0} /\ rebalances' \in 0 .. MaxRebalances
      /\ errors' \in 0 .. MaxErrors
  BY ConsumerAssumption
  DEF CallConsume, AcquireLock, JoinFails, EndSession, Rebalance, CheckContext, RetryAfterError,
      TypeOK
<1>5. TypeOK'
  BY <1>1, <1>3, <1>4 DEF TypeOK, GoTo
<1>6. AttemptsInOrder'
  BY <1>1, <1>2, <1>3 DEF TypeOK, AttemptsInOrder, GoTo
<1>7. ReadyInOrder'
  BY <1>1, <1>3 DEF TypeOK, ReadyInOrder, GoTo
<1>8. JoinedInOrder' /\ PanicNeedsTwoJoins'
  BY <1>3 DEF JoinedInOrder, PanicNeedsTwoJoins
<1>9. QED BY <1>5, <1>6, <1>7, <1>8

\* Setup closes a channel that is open, unless another attempt has joined.
LEMMA JoinKeepsInv ==
  ASSUME Inv, NEW a \in Attempts, Join(a) PROVE Inv'
<1> USE ConsumerAssumption DEF Inv, Attempts
<1>1. attempt \in Attempts /\ a <= attempt /\ a \in 1 .. attempt
  BY DEF TypeOK, Join, AttemptsInOrder
<1>2. /\ UNCHANGED <<ready, attempt, cancelled, main, waiter>>
      /\ joined' = joined \cup {a} /\ g[a] = "join" /\ g' = [g EXCEPT ![a] = "session"]
      /\ closedChans' \subseteq closedChans \cup {ready}
  BY DEF Join, Setup, GoTo
<1>3. TypeOK'
  BY DEF Join, Setup, GoTo, TypeOK, Channels
<1>4. AttemptsInOrder'
  BY <1>1 DEF Join, GoTo, TypeOK, AttemptsInOrder
<1>5. ReadyInOrder'
  <2>1. \A c \in closedChans' : c <= ready'
    BY <1>2 DEF TypeOK, Channels, ReadyInOrder
  <2>2. a \in joined' /\ g'[a] = "session"
    BY <1>2 DEF TypeOK
  <2>3. QED BY <2>1, <2>2 DEF ReadyInOrder
<1>6. JoinedInOrder'
  BY <1>1 DEF Join, Setup, TypeOK, JoinedInOrder
<1>7. PanicNeedsTwoJoins'
  <2>1. CASE ready \in closedChans
    <3>1. PICK b \in joined : g[b] \in {"session", "returned", "remake", "exited"}
      BY <2>1 DEF ReadyInOrder
    <3>2. b # a /\ b \in Attempts /\ b <= attempt
      BY <1>2, <3>1 DEF TypeOK, JoinedInOrder
    <3>3. CASE a < b
      <4>1. a < attempt
        BY <1>1, <3>2, <3>3
      <4>2. a \in cancelled
        BY <4>1 DEF AttemptsInOrder
      <4>3. QED BY <1>2, <3>3, <4>2 DEF PanicNeedsTwoJoins
    <3>4. CASE b < a
      <4>1. b < attempt
        BY <1>1, <3>2, <3>4
      <4>2. b \in cancelled
        BY <3>2, <4>1 DEF AttemptsInOrder
      <4>3. QED BY <1>2, <3>4, <4>2 DEF PanicNeedsTwoJoins
    <3>5. QED BY <1>1, <3>2, <3>3, <3>4
  <2>2. CASE ready \notin closedChans
    BY <1>2, <2>2 DEF Join, Setup, PanicNeedsTwoJoins
  <2>3. QED BY <2>1, <2>2
<1>8. QED BY <1>3, <1>4, <1>5, <1>6, <1>7

\* The channel a loop makes is new, hence open.
LEMMA RemakeKeepsInv ==
  ASSUME Inv, NEW a \in Attempts, RemakeReady(a) PROVE Inv'
<1> USE DEF Inv, group
<1>1. TypeOK'
  BY DEF RemakeReady, NewChannel, GoTo, TypeOK, Channels
<1>2. AttemptsInOrder'
  BY DEF RemakeReady, GoTo, TypeOK, AttemptsInOrder
<1>3. ready' \notin closedChans'
  BY DEF RemakeReady, NewChannel, TypeOK, Channels, ReadyInOrder
<1>4. ReadyInOrder'
  BY <1>3 DEF RemakeReady, NewChannel, TypeOK, Channels, ReadyInOrder
<1>5. JoinedInOrder' /\ PanicNeedsTwoJoins'
  BY DEF RemakeReady, JoinedInOrder, PanicNeedsTwoJoins
<1>6. QED BY <1>1, <1>2, <1>4, <1>5

LEMMA CloseKeepsInv == Inv /\ (CloseCancels \/ Close) => Inv'
<1> SUFFICES ASSUME Inv, CloseCancels \/ Close PROVE Inv'
  OBVIOUS
<1> USE DEF Inv, goroutines, channels, group
<1>1. /\ main' \in {"closing", "leaving", "left", "closed", "fatal"} 
      /\ main \in {"up", "closing", "leaving", "left"}
      /\ cancelled' \in {cancelled, CancelCurrent} /\ groupClosed' \in {groupClosed, TRUE}
      /\ UNCHANGED <<attempt, goroutines, channels, joined, lock, reachable, rebalances, errors>>
  BY DEF CloseCancels, Close, CloseGroup, CloseLeaves, CloseClient
<1>2. TypeOK'
  BY <1>1 DEF CancelCurrent, TypeOK, AttemptsInOrder
<1>3. AttemptsInOrder'
  BY <1>1 DEF CancelCurrent, AttemptsInOrder
<1>4. ReadyInOrder' /\ JoinedInOrder'
  BY <1>1 DEF ReadyInOrder, JoinedInOrder
<1>5. PanicNeedsTwoJoins'
  BY <1>1 DEF CancelCurrent, PanicNeedsTwoJoins
<1>6. QED BY <1>2, <1>3, <1>4, <1>5

LEMMA StepKeepsInv == Inv /\ [Next]_vars => Inv'
<1> SUFFICES ASSUME Inv, [Next]_vars PROVE Inv'
  OBVIOUS
<1>1. CASE Consume
  BY <1>1, ConsumeKeepsInv
<1>2. CASE CloseCancels \/ Close
  BY <1>2, CloseKeepsInv
<1>3. ASSUME NEW a \in Attempts, Waiter(a) \/ Loop(a) \/ Rebalance(a) PROVE Inv'
  BY <1>3, WaiterKeepsInv, LoopMovesKeepInv, JoinKeepsInv, RemakeKeepsInv DEF Loop
<1>4. CASE UNCHANGED vars
  BY <1>4 DEF vars, goroutines, channels, group, Inv, TypeOK, AttemptsInOrder, ReadyInOrder,
              JoinedInOrder, PanicNeedsTwoJoins
<1>5. QED BY <1>1, <1>2, <1>3, <1>4 DEF Next, Stopped

LEMMA InvAlways == Spec => []Inv
  BY InitInv, StepKeepsInv, PTL DEF Spec

\* The consumer service keeps its types, for any number of attempts.
THEOREM ConsumerTypeCorrect == Spec => []TypeOK
<1>1. Inv => TypeOK
  BY DEF Inv
<1>2. QED BY <1>1, InvAlways, PTL

\* cs.cancel() leaves at most one consume loop with a live context, however many
\* attempts time out.
THEOREM AtMostOneLiveLoop == Spec => []OneLiveLoop
<1>1. Inv => OneLiveLoop
  <2> SUFFICES ASSUME Inv, NEW a \in Attempts, NEW b \in Attempts,
                      {g[a], g[b]} \cap {"none", "exited"} = {}, {a, b} \cap cancelled = {}
               PROVE  a = b
    BY DEF OneLiveLoop
  <2>1. ASSUME NEW x \in {a, b} PROVE ~(x > attempt) /\ ~(x < attempt)
    BY <2>1 DEF Inv, AttemptsInOrder
  <2>2. attempt \in Nat
    BY ConsumerAssumption DEF Inv, TypeOK
  <2>3. QED BY <2>1, <2>2 DEF Attempts
<1>2. QED BY <1>1, InvAlways, PTL

\* close(cs.ready) never panics unless an attempt that timed out and a later one have
\* both joined, however many attempts are made.
THEOREM PanicOnlyAfterTwoJoins == Spec => []PanicNeedsTwoJoins
<1>1. Inv => PanicNeedsTwoJoins
  BY DEF Inv
<1>2. QED BY <1>1, InvAlways, PTL

\* Consume() never returns before the consumer has joined in some attempt: the
\* channel that lets it return is closed by nothing else.
THEOREM SomeAttemptAlwaysJoined == Spec => []SomeAttemptJoined
<1>1. Inv => SomeAttemptJoined
  <2> SUFFICES ASSUME Inv, main = "up" PROVE \E a \in 1 .. attempt : a \in joined
    BY DEF SomeAttemptJoined
  <2>1. attempt \in Attempts /\ waiter[attempt] = "done"
    BY DEF Inv, AttemptsInOrder, JoinedInOrder
  <2>2. PICK a \in joined : a \in Attempts /\ a <= attempt
    BY <2>1 DEF Inv, TypeOK, JoinedInOrder
  <2>3. a \in 1 .. attempt
    BY <2>1, <2>2, ConsumerAssumption DEF Attempts
  <2>4. QED BY <2>2, <2>3
<1>2. QED BY <1>1, InvAlways, PTL
=============================================================================
