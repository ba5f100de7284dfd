---------------------------- MODULE TopicScaling ----------------------------
(***************************************************************************)
(* The canary topic of a cluster that scales up and down under a canary in *)
(* "dynamic" mode, each reconcile taken as one step: createTopic the first *)
(* time, then alterTopicAssignments, after alterTopicConfiguration when it *)
(* is the first of a canary that has been restarted.  CanaryManager has    *)
(* the reconcile step by step, with its failures; this module is about     *)
(* what the assignments and the configuration of the topic promise.        *)
(***************************************************************************)
EXTENDS TopicAssignments, Sequences, Functions

CONSTANTS TopicConfig,   \* the entries of TOPIC_CONFIG: name -> value
          BrokerDefault  \* those of a topic that does not have them

VARIABLES described,   \* the brokers that the last reconcile's DescribeCluster returned
          assignment,  \* partition -> replicas; no partition, no topic
          config       \* the topic's configuration: name -> value

vars == <<described, assignment, config>>

-----------------------------------------------------------------------------
\* A plausible slip in the code below, for the mutation runs.
NoneToSpare(B) == ReplicationFactor(B)
-----------------------------------------------------------------------------
CurrentPartitions == Cardinality(DOMAIN assignment)

Init ==
  /\ described = {}
  /\ assignment = << >>
  /\ config = << >>

MinInsyncReplicas(B) == MaxOf(1, ReplicationFactor(B) - 1)

\* createTopic: two entries are its own, whatever TOPIC_CONFIG says.
CreateTopic(B) ==
  /\ CurrentPartitions = 0
  /\ config' = [name \in {"min.insync.replicas", "cleanup.policy"} \cup DOMAIN TopicConfig |->
                 CASE name = "min.insync.replicas" -> MinInsyncReplicas(B)
                   [] name = "cleanup.policy" -> "delete"
                   [] OTHER -> TopicConfig[name]]
  /\ assignment' = RequestedAssignments(0, B)
  /\ described' = B

\* alterTopicConfiguration: the request replaces the whole configuration.
AlteredConfig(initialized) == IF initialized \/ TopicConfig = << >> THEN config ELSE TopicConfig

\* alterTopicAssignments: the current partitions get the requested replicas and
\* the missing ones are created, which leaves the requested assignments. The
\* canary may have been restarted since the last reconcile.
Reassign(B) ==
  /\ CurrentPartitions > 0
  /\ assignment' = RequestedAssignments(CurrentPartitions, B)
  /\ described' = B
  /\ \E initialized \in BOOLEAN : config' = AlteredConfig(initialized)

\* Between two reconciles any brokers come and go.
Next == \E B \in Clusters : CreateTopic(B) \/ Reassign(B)

Spec == Init /\ [][Next]_vars
-----------------------------------------------------------------------------
RacksOf(S) == {Rack[b] : b \in S}
Entry(name) == IF name \in DOMAIN config THEN config[name] ELSE BrokerDefault[name]
BrokersIn(rack) == {b \in described : Rack[b] = rack}

\* Partitions are numbered from 0 and their replicas are brokers.
TypeOK ==
  /\ described \in SUBSET BrokerIds
  /\ \E n \in 0 .. Cardinality(BrokerIds) : DOMAIN assignment = 0 .. n - 1
  /\ \A p \in DOMAIN assignment : Range(assignment[p]) \subseteq BrokerIds

\* No partition has two replicas on the same broker, which Kafka would refuse.
ReplicasOnDistinctBrokers ==
  \A p \in DOMAIN assignment : Cardinality(Range(assignment[p])) = Len(assignment[p])

\* A reconcile makes every broker the preferred leader of a partition, and none
\* of two more than another: the canary exercises them all, and alike.
EveryBrokerLeads ==
  LET led == {Cardinality({p \in DOMAIN assignment : assignment[p][1] = b}) : b \in described}
  IN  0 \notin led /\ \A i, j \in led : i <= j + 1

\* A reconcile puts the replicas of a partition in distinct racks, if there are
\* at least as many racks as replicas and all racks have as many brokers.
ReplicasSpreadOverRacks ==
  \/ \E b \in described : Rack[b] = NoRack
  \/ \E r, s \in RacksOf(described) : Cardinality(BrokersIn(r)) # Cardinality(BrokersIn(s))
  \/ Cardinality(RacksOf(described)) < ReplicationFactor(described)
  \/ \A p \in DOMAIN assignment :
       Cardinality(RacksOf(Range(assignment[p]))) = Len(assignment[p])

\* What acks=all wants: as many replicas in sync as the topic asks for, with these
\* brokers down.
Writable(down) ==
  \A p \in DOMAIN assignment :
    Entry("min.insync.replicas") <= Cardinality(Range(assignment[p]) \ down)

\* However many brokers the topic was created on: reconciled over three or more, it
\* can be written to with any one of them down; over two, with both up.  With
\* one of two down, or over one, it cannot if it was created on three.
WritableWithSpare ==
  /\ Cardinality(described) > 1 => Writable({})
  /\ Cardinality(described) > 2 => \A b \in described : Writable({b})

\* The changelog, "Forced cleanup.policy to "delete" for the canary topic".
CleanupIsDelete == assignment # << >> => Entry("cleanup.policy") = "delete"
=============================================================================
