CONSTANTS
    Addresses = {"a"}
    Environments <- MCEnvironments
    Later <- MCLater
    MaxChanges = 2
    MaxMonitors = 2
SPECIFICATION Spec
INVARIANTS
    TypeOK
    LoadAgreesWithBoot
    ProductionHardened
    HealthyMeansHardened
    EndsOnlyByBootOrRestart

    
\* The process may end.
CHECK_DEADLOCK FALSE
