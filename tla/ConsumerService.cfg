SPECIFICATION FairSpec
CONSTANTS
  MaxConsumeAttempts = 1
  MaxRebalances = 2
  MaxErrors = 2
INVARIANTS
  TypeOK
  OneLiveLoop
  PanicNeedsTwoJoins
  SomeAttemptJoined
PROPERTIES
  ConsumeReturns
  UpRejoins
  CloseReturns
