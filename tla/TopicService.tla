---------------------------- MODULE TopicService ----------------------------
(***************************************************************************)
(* internal/services/topic.go: Reconcile(), one step per request of        *)
(* reconcileTopic() to the cluster.  Any request may fail, its effect      *)
(* applied or not, and the connection may break under the admin client.    *)
(* What the code does between two requests goes with the first of them.    *)
(* The topic configuration is taken as not empty: it is altered once.      *)
(***************************************************************************)
EXTENDS Kafka

CONSTANTS ExpectedClusterSizes, \* values of EXPECTED_CLUSTER_SIZE to consider
          Dynamic,              \* the value -1 of it: "dynamic" reassignment
          MaxFaults             \* bound on the failures

VARIABLES
  expected,    \* the EXPECTED_CLUSTER_SIZE of this canary
  admin,       \* ts.admin: "nil", "open", or "broken" by the brokers
  initialized, \* ts.initialized
  tpc,         \* the request that Reconcile() is about to make
  described,   \* brokers and topicMetadata of reconcileTopic()
  result,      \* its TopicReconcileResult
  error,       \* its error
  faults       \* failures so far

topicVars == <<expected, admin, initialized, tpc, described, result, error, faults>>

-----------------------------------------------------------------------------
NotDescribed == [brokers |-> {}, partitions |-> 0, leaders |-> << >>]
NoResult == [partitions |-> 0, leaders |-> << >>, refresh |-> FALSE]

\* Plausible slips in the code below, for the mutation runs.
ReassignsWhenSized(B) == expected = Dynamic \/ expected = Cardinality(B)
ReassignsWhenResized(B) == expected = Dynamic /\ Cardinality(B) # NumPartitions
CurrentFromOne(B, partitions) ==
  [p \in 0 .. partitions - 1 |-> RequestedAssignments(partitions + 1, B)[p + 1]]
MissingOverBrokersNow(B, partitions) ==
  [p \in partitions .. Cardinality(B) - 1 |-> RequestedAssignments(Cardinality(B), brokers)[p]]
CreatesAnyway(B) == TRUE
RefreshIfFewer(B, partitions) == Cardinality(B) < partitions
KeepAdmin == admin
RetryUntilListed ==
  /\ admin = "open" /\ moving \cap (0 .. described.partitions - 1) = {}
  /\ UNCHANGED <<error, faults>>
-----------------------------------------------------------------------------
TopicInit ==
  /\ expected \in ExpectedClusterSizes
  /\ admin = "nil"
  /\ initialized = FALSE
  /\ tpc = "idle"
  /\ described = NotDescribed
  /\ result = NoResult
  /\ error = "none"
  /\ faults = 0

\* Assignments of the partitions that exist, and of those that do not.
Current(B, partitions) ==
  [p \in 0 .. partitions - 1 |-> RequestedAssignments(partitions, B)[p]]
Missing(B, partitions) ==
  [p \in partitions .. Cardinality(B) - 1 |-> RequestedAssignments(partitions, B)[p]]

\* Whether an existing topic is reassigned.
Reassigns(B) == expected = Dynamic \/ (~initialized /\ expected = Cardinality(B))
Creates(B) == expected = Dynamic \/ expected = Cardinality(B)
RefreshNeeded(B, partitions) == Cardinality(B) # partitions
AdminAfterDisconnection == "nil"

PartitionsAfter(seen) == MaxOf(seen.partitions, Cardinality(seen.brokers))

Proceed(pc) == tpc' = pc /\ UNCHANGED <<initialized, result>>

\* reconcileTopic() returns without an error.
Finish(leadersSeen, partitions, refresh) ==
  /\ tpc' = "done"
  /\ result' = [partitions |-> partitions, leaders |-> leadersSeen, refresh |-> refresh]
  /\ initialized' = TRUE
  /\ described' = NotDescribed

\* reconcileTopic() returns an error.
Fail(err) ==
  /\ tpc' = "failed" /\ error' = err
  /\ result' = NoResult
  /\ described' = NotDescribed
  /\ UNCHANGED initialized

NoFault == UNCHANGED <<error, faults>>
Fault == faults < MaxFaults /\ faults' = faults + 1

\* Reconcile() is called.
ReconcileCalled == tpc' = IF admin = "nil" THEN "openAdmin" ELSE "describeCluster"

OpenAdmin ==
  /\ tpc = "openAdmin"
  /\ \/ admin' = "open" /\ Proceed("describeCluster") /\ NoFault /\ UNCHANGED described
     \/ Fail("other") /\ Fault /\ UNCHANGED admin
  /\ UNCHANGED <<expected, kafkaVars>>

DescribeCluster ==
  /\ tpc = "describeCluster" /\ admin = "open"
  /\ described' = [described EXCEPT !.brokers = brokers]
  /\ Proceed("describeTopic") /\ NoFault
  /\ UNCHANGED <<expected, admin, kafkaVars>>

\* Reassign the topic as it was described, or report what is there.
Decide(seen) ==
  IF Reassigns(seen.brokers)
  THEN Proceed("alter") /\ described' = seen
  ELSE Finish(seen.leaders, seen.partitions, FALSE)

DescribeTopic ==
  /\ tpc = "describeTopic" /\ admin = "open"
  /\ LET seen == [brokers |-> described.brokers, partitions |-> NumPartitions,
                  leaders |-> leaders] IN
     \/ /\ NoTopic /\ Creates(described.brokers)
        /\ Proceed("create") /\ NoFault /\ UNCHANGED described
     \/ NoTopic /\ ~Creates(described.brokers) /\ Fail("size") /\ UNCHANGED faults
     \/ ~NoTopic /\ ~initialized /\ Proceed("alterConfig") /\ NoFault /\ described' = seen
     \/ ~NoTopic /\ initialized /\ Decide(seen) /\ NoFault
  /\ UNCHANGED <<expected, admin, kafkaVars>>

AlterConfig ==
  /\ tpc = "alterConfig" /\ admin = "open"
  /\ Decide(described) /\ NoFault
  /\ UNCHANGED <<expected, admin, kafkaVars>>

\* The answer is lost, with the connection or to a timeout.
AnswerLost == Fault /\ \E err \in {"disconnected", "other"} : Fail(err)

\* A request that adds partitions: done, done but its answer lost, or refused
\* because of a broker that has gone.
Request(replicas, Return) ==
  /\ admin = "open"
  /\ \/ Accepts(replicas) /\ AddPartitions(replicas) /\ Return /\ NoFault
     \/ Accepts(replicas) /\ AddPartitions(replicas) /\ AnswerLost
     \/ ~Accepts(replicas) /\ Fail("other") /\ UNCHANGED <<faults, kafkaVars>>
  /\ UNCHANGED <<expected, admin>>

CreateTopic ==
  /\ tpc = "create"
  /\ LET replicas == RequestedAssignments(0, described.brokers) IN
     Request(replicas, Proceed("describeAgain") /\ UNCHANGED described)

\* The leaders of the new topic; its assignments are those requested.
DescribeAgain ==
  /\ tpc = "describeAgain" /\ admin = "open"
  /\ Finish(leaders, Cardinality(described.brokers), FALSE) /\ NoFault
  /\ UNCHANGED <<expected, admin, kafkaVars>>

\* The partitions that are refused make an error of the whole request, but do not
\* undo the others.
Alter ==
  /\ tpc = "alter" /\ admin = "open"
  /\ LET replicas == Current(described.brokers, described.partitions) IN
     \E accepted \in SUBSET DOMAIN replicas :
       /\ Decided(replicas, accepted) /\ MoveReplicas(replicas, accepted)
       /\ \/ /\ accepted = DOMAIN replicas
             /\ Proceed("list") /\ UNCHANGED described /\ NoFault
          \/ accepted # DOMAIN replicas /\ Fail("other") /\ UNCHANGED faults
          \/ AnswerLost
  /\ UNCHANGED <<expected, admin>>

Reassigned ==
  Finish(described.leaders, PartitionsAfter(described),
         RefreshNeeded(described.brokers, described.partitions))

\* ListPartitionReassignments, every 2 s as long as one is going on: the loop
\* has no other way out but an error, which ends it as if all were done.
ListLoopEnds ==
  \/ admin = "open" /\ moving \cap (0 .. described.partitions - 1) = {} /\ NoFault
  \/ admin = "broken" /\ NoFault
  \/ admin = "open" /\ Fault /\ UNCHANGED error

ListMoves ==
  /\ tpc = "list" /\ ListLoopEnds
  /\ IF described.partitions < Cardinality(described.brokers)
     THEN Proceed("grow") /\ UNCHANGED described
     ELSE Reassigned
  /\ UNCHANGED <<expected, admin, kafkaVars>>

CreatePartitions ==
  /\ tpc = "grow"
  /\ LET replicas == Missing(described.brokers, described.partitions) IN
     Request(replicas, Reassigned)

\* A request that does not reach the cluster: always with a broken client.
RequestFails ==
  /\ tpc \in {"describeCluster", "describeTopic", "alterConfig", "create", "describeAgain",
              "alter", "grow"}
  /\ \/ admin = "broken" /\ Fail("disconnected") /\ UNCHANGED faults
     \/ admin = "open" /\ Fail("other") /\ Fault
  /\ UNCHANGED <<expected, admin, kafkaVars>>

\* Reconcile() closes the admin client that was disconnected, for the next call
\* to open another, and returns the error.
ReconcileFailed ==
  /\ tpc = "failed"
  /\ tpc' = "done"
  /\ admin' = IF error = "disconnected" THEN AdminAfterDisconnection ELSE admin
  /\ UNCHANGED <<expected, initialized, described, result, error, faults, kafkaVars>>

\* The brokers close the connections of the admin client, which will not recover.
BreakConnection ==
  /\ admin = "open" /\ Fault
  /\ admin' = "broken"
  /\ UNCHANGED <<expected, initialized, tpc, described, result, error, kafkaVars>>

ReconcileStep ==
  \/ OpenAdmin \/ DescribeCluster \/ DescribeTopic \/ AlterConfig \/ CreateTopic
  \/ DescribeAgain \/ Alter \/ ListMoves \/ CreatePartitions \/ RequestFails \/ ReconcileFailed

TopicTypeOK ==
  /\ expected \in ExpectedClusterSizes /\ admin \in {"nil", "open", "broken"}
  /\ initialized \in BOOLEAN /\ faults \in 0 .. MaxFaults
  /\ tpc \in {"idle", "openAdmin", "describeCluster", "describeTopic", "alterConfig", "create",
              "describeAgain", "alter", "list", "grow", "failed", "done"}
  /\ described.brokers \subseteq BrokerIds
  /\ {described.partitions, result.partitions} \subseteq 0 .. Cardinality(BrokerIds)
  /\ error \in {"none", "size", "disconnected", "other"}
=============================================================================
