CONSTANTS
  a1 = a1
  a2 = a2
  s1 = s1
  s2 = s2
  None = None
  Agent = {a1, a2}
  Snapshot = {s1, s2}
  Mechanism = {1, 2, 3}
  Similarity <- MCSimilarity
  NearDuplicate = 8
  NoncandidateRetention = 1
  CandidateRetention = 2
  Evidenced = {1}
  MaxRuns = 2
  MaxRetained = 2
  MaxIdeas = 3
  MaxEvents = 5
  MaxReceipts = 5
  MaxTime = 3
  Explored <- Slices
SPECIFICATION Spec
INVARIANTS
  TypeOK
  NothingElseRefused
  RebuildReproduces
  SourcesValid
  CountersRecounted
CHECK_DEADLOCK FALSE
