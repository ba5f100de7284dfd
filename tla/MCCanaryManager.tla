-------------------------- MODULE MCCanaryManager --------------------------
(***************************************************************************)
(* Instance for TLC: brokers 0 and 1, none with a rack, and a canary       *)
(* that is dynamic or expects two brokers.                                 *)
(***************************************************************************)
EXTENDS CanaryManager

MCBrokerIds == 0 .. 1
MCRack == [b \in MCBrokerIds |-> "none"]
MCDynamic == -1
MCExpectedClusterSizes == {MCDynamic, 2}
=============================================================================
