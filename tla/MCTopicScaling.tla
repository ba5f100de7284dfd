--------------------------- MODULE MCTopicScaling ---------------------------
(***************************************************************************)
(* Six brokers in three racks as in the comment of requestedAssignments,   *)
(* and a seventh without a rack; a TOPIC_CONFIG that sets the cleanup      *)
(* policy, and the defaults of Kafka.                                      *)
(***************************************************************************)
EXTENDS TopicScaling, TLC

MCBrokerIds == 0 .. 6

MCRack == [b \in MCBrokerIds |->
  CASE b \in {0, 5} -> "rack1" [] b \in {3, 4} -> "rack2"
    [] b \in {1, 2} -> "rack3" [] b = 6 -> "none"]

MCTopicConfig == "cleanup.policy" :> "compact"
MCBrokerDefault == "cleanup.policy" :> "delete" @@ "min.insync.replicas" :> 1
=============================================================================
