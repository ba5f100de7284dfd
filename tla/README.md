# TLA+ models of the Strimzi canary

The canary checks that a Kafka cluster works by producing to and consuming from a
topic of its own that has a partition led by every broker.  These modules
describe what its goroutines do to shared state and to the cluster, step by step,
with the failures the code handles.  TLC checks them on small instances; TLAPS
proves the central invariants for every value of the constants.

Paths are relative to the root of the repository (`src/` in `PROJECT.json`).

## 1. The system

| component | state it keeps | operations | called by |
|---|---|---|---|
| topic service, `internal/services/topic.go` | `admin` client, `initialized` | `Reconcile`, `Close` | canary manager |
| producer service, `producer.go` | Sarama client (metadata cache), message index; `RecordsProducedCounter` | `Send`, `Refresh`, `Close` | canary manager |
| consumer service, `consumer.go` | Sarama client and consumer group, `cancel`, `ready`; `RecordsConsumedCounter` | `Consume`, `Refresh`, `Leaders`, `Close`; `Setup`, `Cleanup`, `ConsumeClaim` called back by Sarama | canary manager, Sarama |
| canary manager, `internal/workers/canary_manager.go` | `stop`, `syncStop` | `Start`, the reconcile loop, `Stop` | `main` |
| status service, `status_check.go` | two time window rings, `stop` | `Open` (loop of `statusCheck`), `Close`, `StatusHandler` | manager; HTTP server |
| time window ring, `internal/util/time_window_ring.go` | `buffer`, `head`, `tail`, `count` | `Put`, `Head`, `Tail`, `IsEmpty`, `Count` | status service |
| connection service, `connection_check.go` | `admin` client, cached `brokers`, `stop` | `Open` (loop of `connectionCheck`), `Close` | manager |
| dynamic configuration watcher, `internal/config/dynamic_config_watcher.go` | `exists`, `hash`, `quit` | construction, ticks, `Close` | `main` |
| backoff, `backoff.go` | `attempt` | `Delay` | `Consume`, `Start`, client creation |
| configuration, `internal/config/canary_config.go` | none after start | lookups of environment variables | `main` |
| entry point, `cmd/main.go` | none | start up, shutdown, `applyDynamicConfig` | |
| HTTP server, health check, canary message, security, metrics and tracing | none of their own that the program reads | | |

How they interact:

* `main` creates everything, calls `Start()`, waits for a signal and calls
  `Stop()`.  `Start()` reconciles the topic once, lets the consumer join its
  group, sends once and starts the reconcile loop.
* The loop reconciles the topic, refreshes the producer's metadata if the result
  says so, compares the leaders that the consumer's client knows with those of
  the result, refreshes that client if they differ, and sends to every
  partition of the result.
* The goroutines are the manager's loop, one consume loop and one waiter per
  attempt of `Consume()`, Sarama's claim goroutines, the loops of the status and
  connection services, the HTTP handlers, and the watcher.  They share
  `cs.ready`, the two record counters and the two rings without any lock.
* Kafka and Sarama are outside the repository: brokers come and go, requests
  fail with or without effect, the group rebalances.

What is hard here, and what has to be true of each component:

* **consumer**: a join that succeeds just as its wait times out; contexts
  cancelled while the group is joined; the `ready` channel closed by one
  goroutine, replaced by another and read by a third.  One live loop, no double
  close, `Consume()` and `Close()` come back, a consumer that is up rejoins.
* **topic and manager**: each reconcile is a dozen of requests and the cluster changes
  between any two; a request may be applied with its answer lost.  The layout
  the code asks for (distinct brokers, each one a leader, racks apart), the two
  modes of `EXPECTED_CLUSTER_SIZE`, convergence, and an orderly stop.
* **status**: readers race with the writer of the rings.  Exact when
  quiet, and no panic but before the first check.
* **watcher**: the file changes between `os.Stat` and the read.  The
  settings follow the file.

## 2. The modules

| module | models | kind | proofs |
|---|---|---|---|
| `SlidingWindow` | what a time window promises | abstract specification | |
| `TimeWindowRing` | the ring buffer; implements `SlidingWindow` | component | `TimeWindowRing_proofs` |
| `ConsumerService` | `Consume`, the consume loops, `wait`, `Setup`, `Close` | component, concurrent | `ConsumerService_proofs` |
| `TopicAssignments` | `requestedAssignments` as operators | pure algorithm | `TopicAssignments_proofs` |
| `TopicScaling` | the topic and its configuration under scalings, a reconcile per step | assignments, racks | `TopicScaling_proofs` |
| `TopicLayout` | what the canary promises of its topic at every moment | abstract specification | |
| `Kafka` | brokers, the topic, the controller (external) | environment | |
| `TopicService` | `Reconcile`, a request per step, over `Kafka` | component | |
| `TickerLoop` | what a service with a periodic loop promises | abstract specification | |
| `CanaryManager` | `Start`, the loop, `Stop`, over `TopicService` and the clients' metadata; implements `TickerLoop` and `TopicLayout` | composition | `CanaryManager_proofs` |
| `StatusService` | the sampling loop and the handler, over two `TimeWindowRing`s | composition, data races | `StatusService_proofs` |
| `DynamicConfigWatcher` | the watcher and the file | component | `DynamicConfigWatcher_proofs` |
| `ConnectionService` | `Open`, the check broker by broker, `Close`; implements `TickerLoop` | component | `EntryPoint_proofs` |
| `Backoff` | the delays, with the width of their integers | component | `EntryPoint_proofs` |
| `EntryPoint` | the process from its environment to its end, over `ConnectionService` and `Backoff` | composition | `EntryPoint_proofs` |
| `MC...` | the constants of TLC's instances | model checking | |

### TimeWindowRing, SlidingWindow

The variables are the fields of the struct; `Put` is `Put`.  The sizes are
parameters, with one assumption, `RingAssumption`: there is at least one bucket.
The code does not check this: a window shorter than its interval makes the first
`Put` divide by zero.  `ImplementsSlidingWindow` maps the ring to the sequence of
the samples between tail and head.

### ConsumerService

`main` is where the caller of `Consume()` and `Close()` is; `g[a]` is the consume
loop of attempt `a`, `waiter[a]` the goroutine of its `wait()`.  Channels are
numbered: `ready` is the number of the one in `cs.ready`, `closedChans` are those
closed.  Closing one twice, which panics in Go, sets `crashed`.

| code | actions |
|---|---|
| top of the loop in `Consume()` | `StartAttempt` |
| `wait()` and what follows it | `WaiterReads`, `WaiterWakes`, `WaitDone`, `WaitTimedOut` |
| the goroutine's loop | `CallConsume`, `AcquireLock`, `JoinFails`, `Join`, `EndSession`, `Rebalance`, `CheckContext`, `RemakeReady`, `RetryAfterError` |
| `Close()` | `CloseCancels`, `CloseGroup`, `CloseLeaves`, `CloseClient` |

Of Sarama it takes that `Consume` holds the group's lock through join and
session, fails before `Setup`, calls `Setup` even if its context has just been
cancelled, and that `Close` leaves under that lock.  `reachable` tells from the
start whether the group can be joined at all: if not, every join fails, and only
the timeouts and the backoff bring `Consume()` to its end.  The read of `cs.ready` by the
waiter is a step of its own, because that goroutine runs when it is scheduled.

### TopicAssignments, TopicScaling

The code sorts brokers in place, deals them out rack by rack and walks round the
list.  Here the order is a relation (`Precedes`), a broker's place is the number
of brokers before it, and replicas are taken by index modulo the brokers.  The
order that this gives for the example in the comment of `requestedAssignments`
is 0, 1, 3, 5, 2, 4, as in the code; the comment's own list (0, 3, 1, 5, 4, 2)
takes the racks in another order.

`TopicScaling` also keeps the configuration of the topic.  `createTopic` gives it two entries of
its own (`cleanup.policy`, and a `min.insync.replicas` for the brokers of that day)
over those of `TOPIC_CONFIG`; the first reconcile of a canary that finds the topic replaces
the whole by `TOPIC_CONFIG` (`AlteredConfig`).  An entry that is gone is that of the brokers.

### Kafka, TopicService, CanaryManager, TopicLayout

`tpc` is the request that `reconcileTopic` makes next; each is an action whose
effect on the topic is atomic and that may fail before or after it.  What the
code does between two requests goes with the first of them.  `result` and
`error` are what `Reconcile()` returns; an error of kind `"disconnected"` makes it
close the admin client.  `mpc` is where the goroutine is that reconciles (that of
`Start()`, then the loop's), `spc` where `Stop()` is.  The clients are reduced to
the metadata they cache: the number of partitions the producer knows and the
leaders the consumer knows.  `OpenServices` and the chain `CloseConnection`, `CloseStatus` are the
calls by which `Start()` and `Stop()` open and close the other two services; their inside is in
their own modules.  `ManagerImplementsLoop` maps the whole to `TickerLoop`.

A process that dies, by `glog.Fatalf` or at any other moment (`Crash`), is restarted
(`Restart`), as Kubernetes does, with the topic as it was left.  If `Stop()` had been called, it stays
dead (`spc = "dead"`): each of the `Close()`s of the producer, the consumer, the topic service and the
connection check may end the process in `glog.Fatalf` or a panic (`Closes`, `CloseTopic`), and so may the one
that `Reconcile()` makes after a disconnection, while `Stop()` waits (`CloseAfterDisconnectionFails`).

In `Kafka`, a reassignment ends only when all brokers it names
run, a request that creates partitions is refused if it names a broker that is gone, and the controller
elects leaders when it has to, or because it prefers to.  A reassignment is decided partition by partition (`Decided`): one is refused if it adds a
replica on a broker that is gone, the others move (`MoveReplicas`), and the canary gets one error for
the whole.  Of a partition that is still moving the controller compares with the replicas before that
movement, which the model does not keep: there either answer is possible.  An answer that is lost
(`AnswerLost`) is an error of either kind.

`TopicLayout` abstracts from all of it but `assignment`: the topic is created whole, any of its partitions are
moved towards the layout over one set of brokers, and others are added only to a topic that is all laid out
over the brokers of the new ones.  `TopicKeepsLayout` says that `CanaryManager` implements it, with
`Layout` the assignments that `requestedAssignments` computes.  That is not evident: a reconcile that extends the topic makes
two requests, of which the second may never be made, or made when other brokers run than the ones
it was told of, and some partitions keep the replicas of an earlier reconcile if the first is refused for them.  It holds because both take their part of one
list, computed once, because the second is made only if the first was accepted for every partition, and because the replicas of a partition do not depend on the number of partitions.

### StatusService

`Put` is four accesses (head, slot, tail, count) after the load of the counter;
the handler is the count, the test for emptiness and four reads of an index and a
slot, in the order in which `consumedPercentage` makes them.  Any of them
interleave, in program order.  The increment of the consumed counter is a load and a store per claim.
A rebalance may take the group back to its last commit, from where the claims
consume again (`Redeliver`), so that more may be counted as consumed than was produced.
The percentage is kept as the pair of differences it is the quotient of, modulo
`Modulus` for uint64.  `windows`, `disturbed` and `sawFirst` are history.

### DynamicConfigWatcher

A tick is two steps, `os.Stat` and the read; the file changes at any moment.
Contents stand for their hashes.  `Apply` is `applyDynamicConfig`, where a null
`verbosityLogLevel` leaves the verbosity as it was.

### ConnectionService, TickerLoop

`opc` is where the caller of `Open()` and `Close()` is; `lpc` is where the check is, and between
checks its loop.  The first check is made by the caller, before there is a loop: it goes
through the same places, and `opc` tells where it returns to.  `admin` is `cs.admin`, which a
disconnection leaves in place but useless (`"broken"`) until a request finds out.
`known` are the cached brokers, `todo` those the check has still to connect to, and
`reported` is what the metrics were last told.  An interval that is not positive makes
`NewTicker` panic, and `Close()` on a nil admin client panics too (`"panicked"`).  So ends the `glog.Fatalf`
of an admin client that fails to close, in `Close()` or after a disconnection.

`TickerLoop` is what this service and the manager promise alike: `Close()` asks the loop to stop,
the loop returns between two ticks only, and what it works with is closed after that.

### Backoff

The code shifts the scale by the attempt and takes a negative product for an overflow.  `shifted` is
the product as an unbounded integer, and `Wrap` brings it back to a word of
`2 * Half` values.  `Delay` fails without moving `attempt`, so that every later call fails too.

### EntryPoint

`pc` is where the main goroutine is: one place for each thing in `main()`, `Start()` and `Stop()` that
may fail or wait.  `"dead"` is a panic of any goroutine, `glog.Fatalf` or a signal that nobody handles;
`"hung"` is a reconcile that waits for ever for a reassignment.  An environment gives each variable a
text: `Unset`, `Malformed` (`Atoi` returns 0 with an error that the code drops), `TooBig` and `TooSmall` (it returns the
largest or smallest `int`), or a number; `Refused` is a text that parses and that a
library does not take: a label that Prometheus refuses, a version of Kafka without consumer groups (`NewServices`).  `LookupInt` and `Millis` make of it what the code makes,
the multiplication by a millisecond wrapping round; `Quotient` and `Capped` are the arithmetic
of `NewTimeWindowRing` for any signs, the quotient that wraps round included.  The steps of `ConnectionService` run inside it as
those of a goroutine of the process (`InProcess`), and `Backoff` is the one
in use by `newClientWithRetry` or `Start()`.

## 3. What TLC checks

Every run is listed in `PROJECT.json`, each property of a passing run with a
mutant of the code that breaks it.  All but the liveness and action properties
are invariants.

| run | instance | states | shows |
|---|---|---|---|
| `ring_window` | 3 buckets (a window of 9, sampled every 2, capped at 3), 4 values | 213 | `ImplementsSlidingWindow` |
| `consumer` | 2 attempts, 2 rebalances, 2 failed joins | 70 k | `OneLiveLoop`, `PanicNeedsTwoJoins`, `SomeAttemptJoined`; `ConsumeReturns`, `UpRejoins`, `CloseReturns` |
| `topic_scaling` | 7 brokers, 3 racks of two and one broker without | 1.7 k | `ReplicasOnDistinctBrokers`, `EveryBrokerLeads`, `ReplicasSpreadOverRacks`, `WritableWithSpare` |
| `canary` | 2 brokers, 2 scalings, 1 failure, dynamic or 2 expected | 331 k | `MissHasCause`, `StaticTopicIsLeftAlone`, `ReconcileLaysOut`, `LaidOutIsLeftAlone`; `Settles`, `StopReturns`; `ManagerImplementsLoop`, `TopicKeepsLayout` |
| `status` | rings of 2, 2 records, 1 of them consumed again, 2 claims | 10.7 M | `RingsInStep`, `QuietAnswerIsExact`, `PanicOnlyBeforeFirstCheck` |
| `watcher` | 2 contents, 5 changes or failures | 0.7 k | `AppliesWhatIsThere`, `FollowsFile` |
| `process` | 36 environments, 2 brokers, words of 10 bits, 1 scaling, 1 failure | 355 k | `BackoffIsSound`, `UpIsSound`, `PanicNeedsFault`, `QuietReportsAreRight`; `ReportsFollowCluster`, `BootstrapEnds`, `SignalEnds`; `ConnectionImplementsLoop` |

Five more runs check what a comment, the changelog or the README says and the code does not do:

| run | says | does |
|---|---|---|
| `consumer_returns` | `Consume()` waits for the consumer to join | a second attempt may return on the channel that the first one closed late |
| `canary_start_stale` | the result tells if a metadata refresh is needed | `Start()` ignores it and sends to partitions the producer does not know |
| `status_panics` | no samples is an error | a request between the first two `Put`s panics |
| `watcher_recreated` | creation and deletion are applied | not the re-creation with the same content |
| `topic_cleanup` | `cleanup.policy` is forced to `delete` | only at creation: a restarted canary replaces the configuration by `TOPIC_CONFIG`, which may lack it or say otherwise |

Three more disagreements are not runs:

* The comment on `Reconcile()` says that after a scale down "the partitions above the number of brokers are considered
  orphans and the producer will not send messages to him" (`internal/services/topic.go:119`), that on `Send()` that it "sends one message to
  partitions assigned to brokers" (`producer.go:100`).  The code does the contrary: `requestedAssignments` goes on assigning
  all partitions there are (`topic.go:355`), `alterTopicAssignments` returns them, and `Send` has a message for each.  The theorem
  `EverySendCovers` proves it: what a `Send` addresses is every partition of the topic, for any cluster.
* "If the time window has not ended, the `/status` endpoint cannot report a percentage" (`README.md:133`) is not so, as line 122
  of the same document has it: two samples with a record produced between them give one, over the time that they cover. `QuietAnswerIsExact` follows the code and line 122.
* A consume loop whose join keeps failing does not look at its context, so that it outlives its cancellation until a join succeeds or the
  group is closed.

Some properties delimit what goes wrong rather than exclude it, because the code does not.  `PanicNeedsFault` and
`UpIsSound` say when the process may die, not that it does not; `ReplicasSpreadOverRacks` is about racks of one size, in
others the code does put two replicas into one rack; `WritableWithSpare` is about two brokers and more, and about one of
them down only over three: a topic created on three brokers and left with one refuses `acks=all`; `OneLiveLoop` counts
the loops that are not cancelled, a cancelled one may compete for the group until it notices.

Bounds.  Two attempts are what it takes for one to disturb the next; the proofs
cover any number.  Two rebalances make two generations of the ready channel
after the first.  In `canary`, two scalings of two brokers cover up, down, and
down and up again around a reconcile, and one failure is one at each request
in turn; over two brokers a part of a reassignment is refused if a broker leaves
while some of the partitions have reached an earlier layout and others still move, which the run reaches with one failure.
With four, of which a partition has three, no such movement is needed: `MCTopicLayout.cfg` is that instance (1 scaling, 907 k states), which
finds `ReconcileLaysOut`, `LaidOutIsLeftAlone` and `TopicKeepsLayout` to hold too.  It is
kept beside the runs, since the theorems of section 4 have the three for any number of brokers.
`topic_scaling` has the larger clusters.  A crash counts as a failure.  Two slots and two records are
enough for a ring that is empty, filling, full and going round.  In `watcher`, five
events delete, recreate and break the file with a failure to spare.  In `process`, each environment sets one variable, or the few that
matter together (window and interval; TLS and its certificate), to every kind of text and to numbers at the edges;
a scale of 3 and a maximum of 40 in 10 bits overflow after 8 delays, past the cap and before a
limit of attempts that is too large.  One scaling makes the cached
broker list stale, one failure meets each request in turn.

Fairness.  The Go scheduler runs every goroutine that can go on: weak fairness of
each goroutine's steps.  `select` chooses at random among ready cases: strong
fairness for seeing a stop channel beside a ticker (`LoopStops`, `Exit`).  A Go
mutex hands itself to waiters that starve: strong fairness of `AcquireLock`.
Timers fire (`WaitTimedOut`).  The Kafka controller does its work and Sarama
refreshes the producer's metadata every ten minutes.  In `process` the main goroutine and the connection loop go on; that loop sees its stop
channel in the end.  Nothing is assumed of brokers, rebalances,
failures or success, changes of the file, or the signal to stop: convergence is stated for
when they end, as their bounds make them.

`Settles` and `StopReturns` exclude one state by name, `Hung`: the loop of
`alterAssignments` has no bound and waits for ever for a movement of replicas to a broker that
does not come back.  `StopReturns` also counts a process that has died on the way, by one of the `glog.Fatalf`s above, by the
panic of the connection check or killed, as the end of `Stop()`.

## 4. What is proved

Each theorem is about `Spec`, without fairness, for every value of the constants that satisfies the named assumption
of the module.

* `TimeWindowRing_proofs` (`RingAssumption`: at least one bucket).  `Inv == TypeOK /\ IndexInv` is inductive:
  the two say which of the three shapes a ring has (empty; filling from slot 0;
  full with the tail just after the head) and `PutCases` follows `Put`
  through them.  Hence `TypeCorrect` and `IndexesConsistent`.  `RingRefinesWindow` uses
  that each `Put` appends to the window (`PutAppends`) and drops the oldest sample only
  when full (`PutSlides`).
* `ConsumerService_proofs` (`ConsumerAssumption`: the bounds are numbers).  `PanicNeedsTwoJoins` is not inductive: the invariant adds
  which attempts have been started, that all but the current one are cancelled
  once a new one starts, that the channel in `cs.ready` is closed only while a loop that has joined is between its Setup and
  its new channel, or has ended there (`ReadyInOrder`), and that closed channels imply a join.  The loop that closes twice is
  another one than that, since it is about to join.  From
  it follow `ConsumerTypeCorrect`, `AtMostOneLiveLoop`, `PanicOnlyAfterTwoJoins` and
  `SomeAttemptAlwaysJoined`, for any number of attempts, rebalances and errors.  The last is what remains true of the
  comment that the run `consumer_returns` refutes.
* `CanaryManager_proofs` (`BrokersAssumption`: finitely many brokers, with integer ids; `BoundsAssumption`: the bounds are numbers).  `ControlInv` ties the places of the reconciling goroutine, of
  the reconcile and of `Stop()` to each other, and gives `NothingClosedInUse` and `ManagerRefinesLoop`.  `TopicInv` says at which requests a
  topic is known to be there, and that a canary about to change it is dynamic or has not been initialized; hence
  `StaticTopicNotTouched`.  For `EverySendCovers`, `CoverInv` says that partitions are numbered from 0 and
  at each request how what was described compares with what is there: only the canary makes partitions, and
  whichever requests fail or lose their answers, a result without an error has them all.  For `EveryMissHasCause`,
  `KnownInv` says that the producer knows all partitions, or the result asks for a
  refresh that has not come yet, or something has failed, or the canary has sent no more than once.
  `CanaryTypeCorrect` rests on them too: a leader is a broker because a request names only brokers that run and gives each
  partition one to three of them (`Tuples`), and partitions never outnumber the brokers because they are numbered (`Numbered`).

  `EverySendCovers` includes the orphans, against the comment quoted in section 3.

  The layout: with `Replicas` of `TopicAssignments_proofs`, which names the replicas of a partition without the number of partitions,
  `LayoutIs` brings the three forms that a request's assignments take to one.  `LayoutInv` adds to `PartitionsLaidOut` (each partition
  has the replicas of some layout, each perhaps of another) that before each request that
  follows another one in the same reconcile the topic is as that one has left it, whole: nothing else
  changes assignments, and a request that was refused for any partition ends the reconcile.  Each of the
  three requests is then a step of `TopicLayout` (`ManagerRefinesLayout`), whichever partitions a reassignment is
  accepted for, and everything else a stutter, and what
  a reconcile returns without an error is the whole layout (`ReconcileAlwaysLaysOut`).  For `LaidOutAlwaysLeftAlone`, a topic
  that is laid out as wanted has no partition to create, and Kafka moves no replica that is where it should be.
  `ReplicasStayApart` brings `TopicScaling`'s theorem on distinct brokers to every moment between the requests.
* `StatusService_proofs` (`StatusAssumption`: rings of any size, counters that do not wrap within the run).  A `Put` is four steps, so that
  neither ring is a `TimeWindowRing` in between: `Shape` follows each ring through the four forms a `Put`
  gives it (`Holds`, then its head moved, its slot stored, its tail moved), and `SamplerInv` says which ring is in which.
  `RecordInv` keeps the counters behind the messages, `HandlerInv` says that a handler that came after the first check finds no index that is -1, and `QuietInv` says of a handler that no check has disturbed that what it has read is what the windows hold.
  Hence `StatusTypeCorrect`, `RingsStayInStep`, `QuietAnswersExact`, and `PanicsBeforeFirstCheck`, which is the
  converse of the `status_panics` run: no later request panics.
* `DynamicConfigWatcher_proofs` (`ConfigAssumption`).  The types are inductive, and every step that changes a setting
  changes all of them to those of a file that is there at that moment (`OnlyWhatIsThere`).  `SettingsOfOneSource` is inductive with the types: a content is
  hashed as it is applied, and it is never one of the defaults (`SettingsAlwaysOfOneSource`).
* `EntryPoint_proofs` (`ConnectionAssumption`; `BackoffAssumption`: words of any width, a scale and a maximum that fit; `EntryAssumption`).
  First the connection service by itself.  `ConnectionInv` is the types, where the caller and the loop can be
  together (`ControlInv`), and that the first check has made an admin client for good unless something failed (`AdminInv`).  `ConnectionTypeCorrect`,
  `PanicOnlyAfterFault` and `ConnectionRefinesLoop` follow.  `QuietInv` follows a check from broker to broker, as long as nothing
  fails and the brokers stay: what has been connected to has been reported, and the list is the brokers that run or has the
  expected size.  `ReportsRightWhenQuiet` is the safety behind `ReportsFollowCluster`.
  Then the backoff by itself.  `DelayIsExact` needs `RetriesAreBounded`, by which
  `shifted` is at most `2 * Half - 1`: a product that fits is below `Half`, so that its double, if it does not fit, is
  negative as a word, and no call gets past that.  `BackoffsAreSound` is the reason why
  the test for a negative product is enough, and why `BootstrapEnds` does not depend on the configuration.  Last the process: every step of it is one of the connection service, one of a
  backoff, or leaves both alone (`StepOfConnection`, `StepOfBackoff`), so that the two invariants hold in it
  (`PartsInv`) and with them `ProcessBacksOffSoundly`, `ProcessPanicNeedsFault`, `ProcessReportsRightWhenQuiet`, `ProcessRefinesLoop` and, with the main goroutine's own variables,
  `ProcessTypeCorrect` and `SignalAlwaysKept`, the safety behind `SignalEnds`.  `UpInv` says which
  intervals the main goroutine has got past at each place; `UpSoundly` follows for any environment:
  a canary that is up has tickers that tick, and rings that have been written have buckets, as `RingAssumption` wants.
* `TopicAssignments_proofs` and `TopicScaling_proofs` (`BrokersAssumption`).  The first has the lemmas on the requested assignments that
  the second and `CanaryManager_proofs` share.  `Precedes` is a strict total order, and the elements that precede one number a finite
  set from 0 (`RankBijection`): `Order` has every broker once (`OrderIs`), and the `CHOOSE`s of the model have what they look for.
  From arithmetic modulo the number of brokers (`ModShift`) it follows that replicas are distinct,
  and that turns differ by at most one (`TurnsAlike`).  In racks of one size, two brokers of a rack have one of every
  other rack between them, and one of every other rack around them (`BetweenAndAround`), so that replicas closer in the circle than
  there are racks are in distinct racks (`RackMatesApart`).  `ScalingInv` says that what a reconcile leaves is what it has requested of the
  brokers described; hence `ScalingTypeCorrect`, `ReplicasAlwaysDistinct`, `EveryBrokerAlwaysLeads` and `ReplicasAlwaysSpread`.
  `AlwaysWritable` assumes `ConfiguredForTwo` besides: where `TOPIC_CONFIG` or the brokers ask for three in-sync replicas, the property is false.  In the same way
  `CleanupKept` assumes `ConfiguredToDelete`, without which `topic_cleanup` shows the contrary.

Only model-checked: all liveness (`ConsumeReturns`, `UpRejoins`, `CloseReturns`, `Settles`, `StopReturns`, `FollowsFile`, `ReportsFollowCluster`, `BootstrapEnds`, `SignalEnds`: fairness and
ENABLED are beyond the prover).  Every invariant of the passing runs, and every action property and refinement, is stated by a theorem.

Some invariants are proved and not run, most of them since a property of a run implies them or has them for its safety:
`IndexInv` (`ImplementsSlidingWindow`), `NothingRunsWhileClosing` (`ManagerImplementsLoop`), `PartitionsLaidOut` (`TopicKeepsLayout`),
`SettingsOfOneSource` (`AppliesWhatIsThere`) and `SignalIsKept` (`SignalEnds`).  `SendCoversTopic` is proved only: no plausible slip but the
behaviour that a comment wants breaks it.

## 5. Not modelled

* Security: the TLS and SASL settings of Sarama, written once.  That they fail is a step of `EntryPoint`.
* HTTP server and health check: routing to constant answers; no state that another component reads.
* Canary message: three fields in JSON by the standard library, read for the latency metric only.
* Metrics and tracing: written, never read by the program.  What the record counters and the connection check report is
  modelled where a property is about it.
* Configuration, in part: names, addresses, lists and credentials are passed through; `EntryPoint` has
  whether they parse and everything that becomes a number.  Histogram buckets that do not increase, on which the
  first observation panics, are not among its causes.
* Message order, offsets and latencies: the canary takes no decision on them.
* Packaging, and the code of Sarama and Kafka, of which the modules have what the canary's calls rely on.

## 6. What is left

* Message counting end to end: `StatusService` counts records without partitions, so that a lost partition
  shows there only as a percentage.
