SPECIFICATION FairSpec
CONSTANTS
  MaxConsumeAttempts = 1
  MaxRebalances = 1
  MaxErrors = 0
INVARIANTS
  ReturnsJoined
