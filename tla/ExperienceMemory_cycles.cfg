SPECIFICATION FairSpec
CONSTANTS
    Experiences = {e1}
    alice = alice
    e1 = e1
    e2 = e2
    c1 = c1
    c2 = c2
    Agents <- MCAgents
    Owner <- MCOwner
    Relations = {"supports", "contradicts"}
    Contents = {c1}
    MinInterval = 1
    DemotionCycles = 2
    ArchiveAfter = 1
    MaxTime = 2
    MaxVersions = 1
    MaxCommands = 1
    MaxCycles = 3
    WorkerStarted = TRUE
    Explored <- OneLife
INVARIANTS
    TypeOK
    RebuildReproduces
    Hysteresis
PROPERTIES
    CyclesResume
CHECK_DEADLOCK FALSE
