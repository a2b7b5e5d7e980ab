\* Two activity intervals that differ, and a retry longer than both.
SPECIFICATION RCFairSpec
CONSTANTS
    ActivityTimeout = 3
    DetectionThrottle = 2
    RetryPeriod = 4
INVARIANTS
    ActivityHasTimer
    RetryIffDisconnected
    ClientViewCurrent
PROPERTIES
    NoDestroyDuringDispatch
    PausedActivityEnds
    ControlRestored
\* The session may stop: nothing runs after Release.
CHECK_DEADLOCK FALSE
