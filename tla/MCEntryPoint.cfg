SPECIFICATION FairSpec
CONSTANTS
  unset = unset
  malformed = malformed
  refused = refused
  tooBig = tooBig
  tooSmall = tooSmall
  Unset <- unset
  Malformed <- malformed
  Refused <- refused
  TooBig <- tooBig
  TooSmall <- tooSmall
  Environments <- MCEnvironments
  Default <- MCDefault
  Dynamic <- MCDynamic
  BrokerIds <- MCBrokerIds
  MaxScalings = 1
  MaxFaults = 1
  Half = 512
  Millisecond = 2
  ScaleDefault = 3
  MaxDefault = 40
  MaxBufferBuckets = 8
INVARIANTS
  TypeOK
  BackoffIsSound
  UpIsSound
  PanicNeedsFault
  QuietReportsAreRight
PROPERTIES
  ConnectionImplementsLoop
  ReportsFollowCluster
  BootstrapEnds
  SignalEnds
