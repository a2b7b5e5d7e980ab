SPECIFICATION Spec
CONSTANTS
    Installers = {i1, i2}
    Uninstallers = {u1, u2}
    ManualRuns = {m1}
    Service = Service
    None = None
    MaxCommands = 1
    Crashes = TRUE
SYMMETRY Executions
INVARIANTS
    NameExclusive
    ArtifactsHaveOwner
PROPERTIES
    UninstallComplete
    RemovalRestoresDevice
