SPECIFICATION FairSpec
CONSTANTS
  c1 = c1
  c2 = c2
  Contents <- MCContents
  Level <- MCLevel
  Null = Null
  DefaultLevel = 0
  Absent = Absent
  Invalid = Invalid
  Default = Default
  MaxEvents = 5
CHECK_DEADLOCK FALSE
INVARIANTS
  TypeOK
PROPERTIES
  AppliesWhatIsThere
  FollowsFile
