SPECIFICATION Spec
CONSTANTS
    a1 = a1
    a2 = a2
    a3 = a3
    c1 = c1
    c2 = c2
    Agents = {a1, a2, a3}
    Topics = {t1}
    Contents = {c1, c2}
    MaxHops = 2
    Lifetimes = {1}
    Drifts <- MCDrifts
    StepsBack = TRUE
    MaxTime = 1
    MaxCommands = 11
    MaxExperiences = 3
    MaxVersions = 2
    MaxCapsules = 3
    MaxFeedback = 2
    Explored <- Slices
INVARIANTS
    TypeOK
    RebuildReproduces
    GraphValid
    AdoptionsValid
    ProvenanceIsAPath
CHECK_DEADLOCK FALSE
