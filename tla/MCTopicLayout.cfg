SPECIFICATION MCSpec
CONSTANTS
  BrokerIds <- MCBrokerIds
  Rack <- MCRack
  NoRack = "none"
  Dynamic <- MCDynamic
  ExpectedClusterSizes <- MCExpectedClusterSizes
  MaxScalings = 1
  MaxFaults = 0
  BootstrapBackoffMaxAttempts = 0
PROPERTIES
  ReconcileLaysOut
  LaidOutIsLeftAlone
  TopicKeepsLayout
