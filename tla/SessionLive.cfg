SPECIFICATION FairSpec
CONSTANTS
    ActivityTimeout = 0
    DetectionThrottle = 1
    RetryPeriod = 1
    SettlingWindow = 2
    RunningMotionActivity = TRUE
    PausedMotionActivity = FALSE
    Keys = {key}
    Switches = {switch}
    Axes = {}
    Kinds = {k1}
    NoDevice = NoDevice
PROPERTIES
    ShutdownCompletes
    SourceReacquired
    PersistentDenialEnds
\* The session really stops: nothing runs after pc = "done".
CHECK_DEADLOCK FALSE
