SPECIFICATION Spec
CONSTANTS
    ActivityTimeout = 0
    DetectionThrottle = 0
    RetryPeriod = 1
    SettlingWindow = 1
    RunningMotionActivity = TRUE
    PausedMotionActivity = FALSE
    Keys = {key}
    Switches = {}
    Axes = {}
    Kinds = {k1}
    NoDevice = NoDevice
INVARIANTS
    ConsumerSeesNeutral
\* The session really stops: nothing runs after pc = "done".
CHECK_DEADLOCK FALSE
