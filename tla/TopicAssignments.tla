--------------------------- MODULE TopicAssignments ---------------------------
(***************************************************************************)
(* requestedAssignments of internal/services/topic.go: which brokers hold  *)
(* the replicas of each partition of the canary topic, the first of them   *)
(* being the preferred leader.                                             *)
(*                                                                         *)
(* B is the set of broker ids that DescribeCluster returned.  The code     *)
(* sorts a list in place and deals it out rack by rack; here the resulting *)
(* order is given by a relation, and a broker's index by the number of     *)
(* brokers before it.                                                      *)
(***************************************************************************)
EXTENDS Integers, FiniteSets

CONSTANTS BrokerIds,
          Rack,   \* the rack of each broker
          NoRack  \* the value of Rack for a broker without rack information

ASSUME BrokersAssumption == IsFiniteSet(BrokerIds) /\ BrokerIds \subseteq Int

-----------------------------------------------------------------------------
\* Plausible slips in the code below, for the mutation runs.
ByIdAlways(B, b, c) == b < c
ReplicationFactorOf3(B) == 3
ReplicasFromFirst(B, p, r) == (r - 1) % Cardinality(B)
PartitionsUpToMax(current, B) ==
  IF current < Cardinality(B) THEN 0 .. Cardinality(B) ELSE 0 .. current
-----------------------------------------------------------------------------
Clusters == (SUBSET BrokerIds) \ {{}}

MaxOf(x, y) == IF x < y THEN y ELSE x
MinOf(x, y) == IF x > y THEN y ELSE x

\* Place of b in its rack's list, which is in the order of ids.
RankInRack(B, b) == Cardinality({c \in B : Rack[c] = Rack[b] /\ c < b})

\* The racks are in the order of appearance: by their broker of least id.
FirstOfRack(B, b) == CHOOSE c \in B :
  Rack[c] = Rack[b] /\ \A d \in B : Rack[d] = Rack[b] => c <= d

\* Each round takes the next broker of every rack that still has one.
RackAlternated(B, b, c) ==
  \/ RankInRack(B, b) < RankInRack(B, c)
  \/ RankInRack(B, b) = RankInRack(B, c) /\ FirstOfRack(B, b) < FirstOfRack(B, c)

\* Racks count only if every broker has one; else the order is that of the ids.
Precedes(B, b, c) ==
  IF \A d \in B : Rack[d] # NoRack THEN RackAlternated(B, b, c) ELSE b < c

\* The brokers in that order, from 0: i brokers precede the one at i.
Order == [B \in SUBSET BrokerIds |->
  [i \in 0 .. Cardinality(B) - 1 |->
     CHOOSE b \in B : Cardinality({c \in B : Precedes(B, c, b)}) = i]]

ReplicationFactor(B) == MinOf(Cardinality(B), 3)

\* Partitions are never removed: there are as many as there ever were brokers.
RequestedPartitions(current, B) == 0 .. MaxOf(current, Cardinality(B)) - 1

\* Index, in the order of the brokers, of the r-th replica of partition p.
ReplicaIndex(B, p, r) == (p + r - 1) % Cardinality(B)

RequestedAssignments(current, B) ==
  LET order == Order[B]
  IN  [p \in RequestedPartitions(current, B) |->
         [r \in 1 .. ReplicationFactor(B) |-> order[ReplicaIndex(B, p, r)]]]
=============================================================================
