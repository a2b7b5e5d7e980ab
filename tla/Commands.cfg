SPECIFICATION CommandsSpec
CONSTANTS
    MaxDuration = 15
    DurationTexts = {0, 15, 17}
    DefaultTimeout = 5
    DefaultThrottle = 1
    MaxArguments = 3
    Instances = {i1, i2}
    Creations = {c1, c2}
    Sources = {event, link}
    EventNode = event
    Link = link
    NotInstalled = NotInstalled
    NotRunning = NotRunning
    Word = 64
    UsPerSec = 6
    NsPerUs = 2
    NsPerMs = 4
    Starts <- MCStarts
    MaximumWait = 4
SYMMETRY Names
INVARIANTS
    ServiceRunsPlan
    ChoicesHonoured
    PublishedComplete
    EnumerationSound
    SnapshotSound
    AssociationsSound
    DeadlinesExact
CHECK_DEADLOCK FALSE
