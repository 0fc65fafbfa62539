SPECIFICATION ResourcesSpec
CONSTANTS
    NoFlight = NoFlight
    Unheld = Unheld
    Null = Null
INVARIANTS
    SupervisorIsSafe
    LaunchesGoOn
    RacesAreFair
    ArtifactsAreRight
    CacheIsSafe
    LimitsHold
    MigrationsAreSafe
PROPERTIES
    RaceEnds
CHECK_DEADLOCK FALSE
