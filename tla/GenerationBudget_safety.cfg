SPECIFICATION FairSpec
CONSTANTS
  Configurations <- MCConfigurations
  MaxPerOperator = 2
  MaxPerRun = 6
  Milli = 2
  MaxTime = 5
INVARIANTS
  TypeOK
  PoolHolds
  NeverRejected
  AuditAccepts
PROPERTIES
  RunEnds
CHECK_DEADLOCK FALSE
