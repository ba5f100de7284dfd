---------------------------- MODULE MCTopicLayout ----------------------------
(***************************************************************************)
(* Instance for TLC of what becomes of the topic: brokers 0 to 3, none     *)
(* with a rack, so that a partition has three of four brokers and part of  *)
(* a reassignment may be refused, and a dynamic canary.                    *)
(***************************************************************************)
EXTENDS CanaryManager

MCBrokerIds == 0 .. 3
MCRack == [b \in MCBrokerIds |-> "none"]
MCDynamic == -1
MCExpectedClusterSizes == {MCDynamic}

\* Three brokers or four, and no topic or one made for as many.
MCInit == Init /\ Cardinality(brokers) > 2 /\ (NoTopic \/ NumPartitions > 2)
MCSpec == MCInit /\ [][Next]_vars
=============================================================================
