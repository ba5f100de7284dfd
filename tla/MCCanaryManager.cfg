SPECIFICATION FairSpec
CONSTANTS
  BrokerIds <- MCBrokerIds
  Rack <- MCRack
  NoRack = "none"
  Dynamic <- MCDynamic
  ExpectedClusterSizes <- MCExpectedClusterSizes
  MaxScalings = 2
  MaxFaults = 1
  BootstrapBackoffMaxAttempts = 1
INVARIANTS
  TypeOK
  MissHasCause
PROPERTIES
  StaticTopicIsLeftAlone
  ReconcileLaysOut
  LaidOutIsLeftAlone
  TopicKeepsLayout
  Settles
  StopReturns
  ManagerImplementsLoop
