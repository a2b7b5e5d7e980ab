SPECIFICATION Spec
CONSTANTS
    Installers = {i1}
    Uninstallers = {u1, u2}
    ManualRuns = {m1}
    Service = Service
    None = None
    MaxCommands = 1
    Crashes = FALSE
INVARIANTS
    UninstallRestoresDevice
