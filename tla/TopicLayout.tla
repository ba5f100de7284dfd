----------------------------- MODULE TopicLayout -----------------------------
(***************************************************************************)
(* What the canary promises of its topic, whatever comes and goes and      *)
(* whatever fails: every partition is laid out over a set of brokers.  They*)
(* are created together, each time they move it is towards one layout,     *)
(* which not all of them may reach, and others are added only to a layout  *)
(* that is whole, which they complete.                                     *)
(***************************************************************************)
EXTENDS Integers, FiniteSets

CONSTANTS Clusters,     \* the sets of brokers a topic may be laid out over
          Layout(_, _)  \* Layout(B, n): the replicas of n partitions over B

VARIABLE assignment     \* partition -> replicas; empty: no topic

Count == Cardinality(DOMAIN assignment)

Init == assignment = << >> \/ \E B \in Clusters : assignment = Layout(B, Cardinality(B))

Create(B) ==
  /\ Count = 0
  /\ assignment' = Layout(B, Cardinality(B))

Move(B) == \E moved \in SUBSET DOMAIN assignment :
  assignment' = [p \in DOMAIN assignment |->
                   IF p \in moved THEN Layout(B, Count)[p] ELSE assignment[p]]

Grow(B) ==
  /\ Count \in 1 .. Cardinality(B) - 1
  /\ assignment = Layout(B, Count)
  /\ assignment' = Layout(B, Cardinality(B))

Next == \E B \in Clusters : Create(B) \/ Move(B) \/ Grow(B)

Spec == Init /\ [][Next]_assignment
=============================================================================
