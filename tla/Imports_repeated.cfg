CONSTANTS
  a0 = a0
  a1 = a1
  a2 = a2
  m1 = m1
  m2 = m2
  m3 = m3
  None = None
  Agent = {a1, a2}
  Trajectory = {m1, m2, m3}
  OwnerOf <- MCOwnerOf
  Signals <- MCSignals
  MaxEvidence = 2
  MaxHops = 3
  Content = {1, 2, 3}
  Foreign <- MCForeign
  MaxEvents = 8
  MaxReceipts = 5
  MaxDocuments = 4
  MaxTime = 2
  Explored <- Slices
SPECIFICATION Spec
INVARIANTS
  PassportsAlwaysVerify
CHECK_DEADLOCK FALSE
