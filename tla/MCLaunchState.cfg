SPECIFICATION Spec
CONSTANTS
    Launcher = {l1, l2}
    Project = {p1, p2}
    Command <- StateCommands
    Mode <- Volume
    Deployed <- StateBoxes
    InitialVolumes <- StateVolumes
    None = None
    MaxEvents = 1
    MaxId = 6
INVARIANTS HomeOwned
PROPERTY StateRemovedOnRequest
