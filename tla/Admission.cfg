SPECIFICATION FairSpec
CONSTANTS
    None = None
    Conns = {1, 2, 3}
    Devices = {d1}
    Channels = {1, 2}
    MaxLeases = 2
    Faults = TRUE
CONSTRAINT Scenario
INVARIANTS CutLeasesAreReleased ControllersAreOwned
PROPERTY AdmissionSettles
CHECK_DEADLOCK FALSE
