SPECIFICATION Spec
CONSTANTS
    Installers = {i1}
    Uninstallers = {u1}
    ManualRuns = {m1}
    Service = Service
    None = None
    MaxCommands = 1
    Crashes = FALSE
PROPERTIES
    UninstallStopsService
