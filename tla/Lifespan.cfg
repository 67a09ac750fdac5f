SPECIFICATION FairSpec
CONSTANTS
    MaxBytes = 2
    MaxFiles = 2
    MemoryLimit = 3
    QueueLimit = 1
    Sizes = {1, 2}
    MaxEvents = 4
    None = None
    Timer = Timer
    Callers = {k1, k2}
    MaxVersion = 2
    NoFile = NoFile
    MaxCounted = 2
    MaxProcesses = 2
CONSTRAINTS OneAtATime FewFaults
INVARIANTS DiagnosticsAreHonest TeardownIsComplete
PROPERTIES LatestNeverRegresses ShutdownCompletes
CHECK_DEADLOCK FALSE
