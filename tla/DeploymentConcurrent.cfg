SPECIFICATION Spec
CONSTANTS
    Installers = {i1, i2}
    Uninstallers = {u1}
    ManualRuns = {m1}
    Service = Service
    None = None
    MaxCommands = 3
    Crashes = TRUE
SYMMETRY Executions
INVARIANTS
    FailedInstallLeavesNothing
PROPERTIES
    RollbackOwnResponse
    PublishedNotReplaced
