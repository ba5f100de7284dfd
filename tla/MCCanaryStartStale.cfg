SPECIFICATION Spec
CONSTANTS
  BrokerIds <- MCBrokerIds
  Rack <- MCRack
  NoRack = "none"
  Dynamic <- MCDynamic
  ExpectedClusterSizes <- MCExpectedClusterSizes
  MaxScalings = 1
  MaxFaults = 0
  BootstrapBackoffMaxAttempts = 1
INVARIANTS
  SendsKnownPartitions
