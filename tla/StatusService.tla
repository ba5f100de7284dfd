---------------------------- MODULE StatusService ----------------------------
(***************************************************************************)
(* internal/services/status_check.go: the loop that samples the counters   *)
(* of produced and consumed records into two TimeWindowRings, and the HTTP *)
(* handler that reads the rings from another goroutine, without a lock.    *)
(* Put and the handler are therefore taken access by access, in the order  *)
(* of the program.  Handlers only read: one stands for any number of them. *)
(*                                                                         *)
(* The counters are global variables: Send advances the produced one, and  *)
(* one goroutine per claimed partition the consumed one, again without a   *)
(* lock, so that its increment is a load and a store.                      *)
(***************************************************************************)
EXTENDS Integers, Sequences

CONSTANTS Size, Sampling, MaxBufferBuckets,  \* see TimeWindowRing
          Claims,      \* goroutines that run ConsumeClaim
          MaxRecords, MaxRedelivered,  \* bounds on the records sent, and consumed again
          Modulus      \* the uint64 values wrap at 2^64, here at Modulus

ASSUME StatusAssumption ==
  /\ MaxRecords \in Nat /\ MaxRedelivered \in Nat
  /\ Modulus \in Nat /\ Modulus > 2 * (MaxRecords + MaxRedelivered)
  /\ Size \in Nat /\ Sampling \in Nat \ {0} /\ MaxBufferBuckets \in Nat \ {0}
  /\ Size \div Sampling \in Nat \ {0}

VARIABLES
  sending,    \* SendMessage has returned and its record is not counted yet
  delivered,  \* records that reached the topic
  taken,      \* records that a claim has taken, up to the position of the group
  redelivered,\* records that the group has gone back to
  loaded,     \* what each claim has loaded of the consumed counter, or None
  counters,   \* RecordsProducedCounter and RecordsConsumedCounter
  samples,    \* producedRecordsSamples and consumedRecordsSamples
  running,    \* the status check loop runs
  at, which, sampled,  \* the next access of Put, its ring, the value put
  windows,    \* what a reader should find in each ring (history)
  hpc, counted, index, values,  \* where the handler is and what it has read
  answer,     \* its outcome
  disturbed,  \* a status check was at work since the request (history)
  sawFirst    \* a status check had ended before the request (history)

recordVars == <<sending, delivered, taken, redelivered, loaded, counters>>
samplerVars == <<samples, running, at, which, sampled, windows>>
handlerVars == <<hpc, counted, index, values, answer, disturbed, sawFirst>>
vars == <<recordVars, samplerVars, handlerVars>>

Kinds == {"produced", "consumed"}
Values == 0 .. MaxRecords + MaxRedelivered
None == -1

\* The ring r, for the operators of its module.
Ring(r) == INSTANCE TimeWindowRing
           WITH buffer <- r.buffer, tail <- r.tail, head <- r.head, count <- r.count

NoRing == [buffer |-> << >>, tail |-> -1, head |-> -1, count |-> 0]
NewRing == [NoRing EXCEPT !.buffer = [i \in Ring(NoRing)!Slots |-> 0]]

NoAnswer == [kind |-> "none", counted |-> 0, consumed |-> 0, produced |-> 0]

-----------------------------------------------------------------------------
\* Plausible slips in the code below, for the mutation runs.
ProducedOnly == "produced"
TailFirst == << <<"consumed", "tail">>, <<"consumed", "head">>,
                <<"produced", "head">>, <<"produced", "tail">> >>
-----------------------------------------------------------------------------
Init ==
  /\ sending = FALSE /\ delivered = 0 /\ taken = 0 /\ redelivered = 0
  /\ loaded = [c \in Claims |-> None]
  /\ counters = [k \in Kinds |-> 0]
  /\ samples = [k \in Kinds |-> NewRing]
  /\ running = TRUE
  /\ at = "load" /\ which = "produced" /\ sampled = 0
  /\ windows = [k \in Kinds |-> << >>]
  /\ hpc = "idle" /\ counted = 0 /\ index = None /\ values = << >>
  /\ answer = NoAnswer
  /\ disturbed = FALSE /\ sawFirst = FALSE

----------------------- (* the records and their counters *) -----------------
\* SendMessage returns, with an error or not.
SendMessage ==
  /\ ~sending /\ counters.produced < MaxRecords
  /\ sending' = TRUE
  /\ delivered' \in {delivered, delivered + 1}
  /\ UNCHANGED <<taken, redelivered, loaded, counters, samplerVars, handlerVars>>

\* RecordsProducedCounter++, after a failed SendMessage too.
CountProduced ==
  /\ sending
  /\ sending' = FALSE
  /\ counters' = [counters EXCEPT !.produced = @ + 1]
  /\ UNCHANGED <<delivered, taken, redelivered, loaded, samplerVars, handlerVars>>

\* RecordsConsumedCounter++ of a claim with a message: its load, its store.
LoadConsumed(c) ==
  /\ loaded[c] = None /\ taken < delivered
  /\ taken' = taken + 1
  /\ loaded' = [loaded EXCEPT ![c] = counters.consumed]
  /\ UNCHANGED <<sending, delivered, redelivered, counters, samplerVars, handlerVars>>

StoreConsumed(c) ==
  /\ loaded[c] # None
  /\ counters' = [counters EXCEPT !.consumed = loaded[c] + 1]
  /\ loaded' = [loaded EXCEPT ![c] = None]
  /\ UNCHANGED <<sending, delivered, taken, redelivered, samplerVars, handlerVars>>

\* A rebalance ends the claims; the new ones start at the last commit.
Redeliver ==
  /\ \A c \in Claims : loaded[c] = None
  /\ \E n \in 1 .. taken :
       /\ taken' = taken - n
       /\ redelivered' = redelivered + n /\ redelivered' <= MaxRedelivered
  /\ UNCHANGED <<sending, delivered, loaded, counters, samplerVars, handlerVars>>

-------------------------- (* the status check loop *) -----------------------
\* The loop waits for its ticker.
Idle == at = "load" /\ which = "produced"

\* The ring that the check puts into.
PutInto == which

\* Every access of a status check, to go on with next.
Access(next) ==
  /\ at' = next
  /\ disturbed' = TRUE
  /\ UNCHANGED <<running, recordVars, hpc, counted, index, values, answer, sawFirst>>

\* A status check begins when the loop runs, and then goes to its end: the two
\* Puts, each called with the value of its counter.
LoadCounter ==
  /\ at = "load" /\ (Idle => running)
  /\ sampled' = counters[which]
  /\ Access("head")
  /\ UNCHANGED <<samples, which, windows>>

MoveHead ==
  /\ at = "head"
  /\ samples' = [samples EXCEPT ![PutInto].head = Ring(samples[PutInto])!NextSlot(@)]
  /\ Access("slot")
  /\ UNCHANGED <<which, sampled, windows>>

StoreSlot ==
  /\ at = "slot"
  /\ samples' = [samples EXCEPT ![PutInto].buffer[samples[PutInto].head] = sampled]
  /\ Access("tail")
  /\ UNCHANGED <<which, sampled, windows>>

MoveTail ==
  /\ at = "tail"
  /\ LET r == samples[PutInto] IN
     samples' = [samples EXCEPT ![PutInto].tail = Ring(r)!TailAfter(r.head)]
  /\ Access("count")
  /\ UNCHANGED <<which, sampled, windows>>

\* The last access of a Put, after which the window has slid.
StoreCount ==
  /\ at = "count"
  /\ samples' = [samples EXCEPT ![PutInto].count = Ring(samples[PutInto])!CountAfter]
  /\ windows' = [windows EXCEPT ![which] = Ring(samples[which])!SW!Slide(@, sampled)]
  /\ which' = IF which = "produced" THEN "consumed" ELSE "produced"
  /\ sampled' = 0
  /\ Access("load")

\* Close: the loop sees the stop channel between two checks.
Close ==
  /\ running /\ Idle
  /\ running' = FALSE
  /\ UNCHANGED <<recordVars, samples, at, which, sampled, windows, handlerVars>>

------------------------------ (* the handler *) -----------------------------
StatusRequest ==
  /\ hpc = "idle"
  /\ hpc' = "count"
  /\ answer' = NoAnswer
  /\ disturbed' = ~Idle
  /\ sawFirst' = (windows.consumed # << >>)
  /\ UNCHANGED <<recordVars, samplerVars, counted, index, values>>

\* What Percentage is made of: the accesses, in the order of consumedPercentage.
Reads == << <<"consumed", "head">>, <<"consumed", "tail">>,
            <<"produced", "head">>, <<"produced", "tail">> >>

IndexOf(k, end) == IF end = "head" THEN samples[k].head ELSE samples[k].tail

Respond(outcome) ==
  /\ answer' = outcome
  /\ hpc' = "idle" /\ counted' = 0 /\ index' = None /\ values' = << >>

ReadCount ==
  /\ hpc = "count"
  /\ counted' = samples.consumed.count
  /\ hpc' = "empty"
  /\ UNCHANGED <<recordVars, samplerVars, index, values, answer, disturbed, sawFirst>>

NoData == [NoAnswer EXCEPT !.kind = "noData", !.counted = counted]

\* IsEmpty(): its two reads give what they would at the instant of one of them.
CheckEmpty ==
  /\ hpc = "empty"
  /\ IF Ring(samples.produced)!IsEmpty
     THEN Respond(NoData)
     ELSE hpc' = "index" /\ UNCHANGED <<counted, index, values, answer>>
  /\ UNCHANGED <<recordVars, samplerVars, disturbed, sawFirst>>

\* Head() or Tail() loads the index, and then the slot.
LoadIndex ==
  /\ hpc = "index"
  /\ LET read == Reads[Len(values) + 1] IN index' = IndexOf(read[1], read[2])
  /\ hpc' = "value"
  /\ UNCHANGED <<recordVars, samplerVars, counted, values, answer, disturbed, sawFirst>>

\* Index -1 is out of range: a panic, which net/http recovers from.
LoadValue ==
  /\ hpc = "value"
  /\ IF index = None
     THEN Respond([NoAnswer EXCEPT !.kind = "panic"])
     ELSE /\ values' = Append(values, samples[Reads[Len(values) + 1][1]].buffer[index])
          /\ index' = None
          /\ hpc' = IF Len(values) = 3 THEN "reply" ELSE "index"
          /\ UNCHANGED <<counted, answer>>
  /\ UNCHANGED <<recordVars, samplerVars, disturbed, sawFirst>>

\* The status of this many consumed records for this many produced.
StatusOf(n, consumed, produced) ==
  IF produced = 0 THEN [NoAnswer EXCEPT !.kind = "noData", !.counted = n]
  ELSE [kind |-> "percentage", counted |-> n,
        consumed |-> consumed % Modulus, produced |-> produced % Modulus]

Reply ==
  /\ hpc = "reply"
  /\ Respond(StatusOf(counted, values[1] - values[2], values[3] - values[4]))
  /\ UNCHANGED <<recordVars, samplerVars, disturbed, sawFirst>>
-----------------------------------------------------------------------------
Next ==
  \/ SendMessage \/ CountProduced
  \/ \E c \in Claims : LoadConsumed(c) \/ StoreConsumed(c)
  \/ Redeliver
  \/ LoadCounter \/ MoveHead \/ StoreSlot \/ MoveTail \/ StoreCount \/ Close
  \/ StatusRequest \/ ReadCount \/ CheckEmpty \/ LoadIndex \/ LoadValue \/ Reply

Spec == Init /\ [][Next]_vars
-----------------------------------------------------------------------------
\* The variables keep their types.
TypeOK ==
  /\ sending \in BOOLEAN /\ running \in BOOLEAN
  /\ disturbed \in BOOLEAN /\ sawFirst \in BOOLEAN
  /\ delivered \in 0 .. MaxRecords /\ taken \in 0 .. delivered
  /\ redelivered \in 0 .. MaxRedelivered
  /\ loaded \in [Claims -> Values \cup {None}]
  /\ counters \in [Kinds -> Values]
  /\ \A k \in Kinds : Ring(samples[k])!TypeOK
  /\ at \in {"load", "head", "slot", "tail", "count"} /\ which \in Kinds
  /\ sampled \in Values
  /\ hpc \in {"idle", "count", "empty", "index", "value", "reply"}
  /\ answer.kind \in {"none", "noData", "panic", "percentage"}

\* Between two status checks both rings hold the windows of the same checks:
\* their indexes agree, so that the percentage is about one stretch of time.
RingsInStep ==
  Idle => /\ \A f \in {"head", "tail", "count"} : samples.produced[f] = samples.consumed[f]
          /\ \A k \in Kinds : Ring(samples[k])!Window = windows[k]

\* The newest minus the oldest sample of the window.
Over(window) == window[Len(window)] - window[1]

Reference ==
  IF windows.produced = << >> THEN [NoAnswer EXCEPT !.kind = "noData"]
  ELSE StatusOf(Len(windows.consumed), Over(windows.consumed), Over(windows.produced))

\* A status answered while no status check was at work is that of the two
\* windows: the time covered, and what was consumed and produced over it.
QuietAnswerIsExact == answer.kind # "none" /\ ~disturbed => answer = Reference

\* The handler panics only if its request came before the first status check
\* had ended; a window that wraps round under a reader never makes it panic.
PanicOnlyBeforeFirstCheck == answer.kind = "panic" => ~sawFirst

\* The comment in consumedPercentage on its guard, "sampling for produced (and
\* consumed records) not done yet": without samples the answer is an error.
HandlerNeverPanics == answer.kind # "panic"
=============================================================================
