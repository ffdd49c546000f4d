SPECIFICATION Spec
CONSTANTS
    Experiences = {e1, e2}
    alice = alice
    e1 = e1
    e2 = e2
    c1 = c1
    c2 = c2
    Agents <- MCAgents
    Owner <- MCOwner
    Relations = {"supports", "contradicts"}
    Contents = {c1, c2}
    MinInterval = 1
    DemotionCycles = 1
    ArchiveAfter = 2
    MaxTime = 2
    MaxVersions = 2
    MaxCommands = 1
    MaxCycles = 3
    WorkerStarted = FALSE
    Explored <- SharedContents
INVARIANTS
    AuditAccepts
    ForgottenOnlyUnused
    CyclesAnswerOnce
PROPERTIES
    ArchiveSparesDependents
CHECK_DEADLOCK FALSE
