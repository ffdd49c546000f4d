SPECIFICATION FairSpec
CONSTANTS
  None = None
  p1 = p1
  p2 = p2
  t1 = t1
  t2 = t2
  k1 = k1
  k2 = k2
  q1 = q1
  q2 = q2
  Process = {p1, p2}
  Task = {t1, t2}
  Home <- MCHome
  Key = {k1}
  Request = {q1, q2}
  MaxIdeas = 1
  MaxTime = 1
INVARIANTS
  TypeOK
  RunAgreesWithReceipt
PROPERTIES
  ImplementsExactlyOnce
  RecoveryEndsEveryRun
  ShutdownCompletes
