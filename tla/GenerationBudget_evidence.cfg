SPECIFICATION Spec
CONSTANTS
  Configurations <- MCConfigurations
  MaxPerOperator = 2
  MaxPerRun = 6
  Milli = 2
  MaxTime = 5
INVARIANTS
  AuditEvidence
CHECK_DEADLOCK FALSE
