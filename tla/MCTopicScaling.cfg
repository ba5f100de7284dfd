SPECIFICATION Spec
CONSTANTS
  BrokerIds <- MCBrokerIds
  Rack <- MCRack
  NoRack = "none"
  TopicConfig <- MCTopicConfig
  BrokerDefault <- MCBrokerDefault
INVARIANTS
  TypeOK
  ReplicasOnDistinctBrokers
  EveryBrokerLeads
  ReplicasSpreadOverRacks
  WritableWithSpare
