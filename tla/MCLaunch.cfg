SPECIFICATION FairSpec
CONSTANTS
    Launcher = {l1, l2}
    Project = {p1}
    Command <- LifeCommands
    Mode <- LifeModes
    Deployed <- LifeBoxes
    InitialVolumes <- LifeVolumes
    None = None
    MaxEvents = 2
    MaxId = 6
INVARIANTS TypeOK TransferTargetStable
PROPERTIES RunningSurvivesLaunch RefreshKeepsConfiguration ForeignContainerKept CommandsEnd
