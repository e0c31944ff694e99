SPECIFICATION Spec
CONSTANTS
    Home <- MCHome
    Codex <- MCCodex
    WorkDir <- MCWorkDir
    DatabaseName <- MCDatabaseName
    HostMount <- MCHostMount
    Volume <- MCVolume
    Scenarios <- MCScenarios
    Setting <- MCSetting
    Probe <- MCProbe
    None = None
    Bad = Bad
INVARIANTS TypeOK SameStorage LeastAccess ResolvedAsConfigured RunsOnInspectedStorage
