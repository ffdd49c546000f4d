SPECIFICATION Spec
CONSTANTS
  None = None
  p1 = p1
  p2 = p2
  counter = counter
  index = index
  made = made
  edited = edited
  Process = {p1, p2}
  Reducer = {counter, index}
  EventType = {made, edited}
  Runs <- MCRuns
  Registry <- MCRegistry
  Handles <- MCHandles
  VersionOf <- MCVersionOf
  Releases = 2
  MaxEvents = 2
  MaxBatch = 2
INVARIANTS
  TypeOK
  ProjectionsReplay
  VerifyIsExact
