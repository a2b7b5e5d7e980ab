SPECIFICATION Spec
CONSTANTS
    ActivityTimeout = 1
    DetectionThrottle = 1
    RetryPeriod = 2
    SettlingWindow = 1
    RunningMotionActivity = TRUE
    PausedMotionActivity = FALSE
    Keys = {key1, key2}
    Switches = {}
    Axes = {axis}
    Kinds = {k1, k2}
    NoDevice = NoDevice
SYMMETRY Symmetry
INVARIANTS
    ForwardingFaithful
    SuppressedIsNeutral
    HandlerHasDevices
    EverythingReleased
PROPERTIES
    ImplementsContract
    UsesRuntimeControl
    ImplementsInterface
    VirtualDeviceRetained
    PausedDeviceUntouched
    ForwardingStartsSynchronized
    ReadersSeeRelease
\* The session really stops: nothing runs after pc = "done".
CHECK_DEADLOCK FALSE
