SPECIFICATION ManageSpec
CONSTANTS
    Keys = {k1, k2}
    MaxRecords = 2
    MaxActive = 2
    MaxDigests = 1
    MaxAge = 2
    Ttls = {1, 2}
    MaxOffers = 4
    MaxTime = 3
    MaxBack = 1
    Surfaces = {a, b}
    Lifetime = 3
    Skew = 1
CONSTRAINT Interleaved
ACTION_CONSTRAINT LaterCallsAreLost
SYMMETRY Symmetry
INVARIANT EpochMeansRevoked
PROPERTIES BannedNeverPairs SpentNeverPairs StaleNeverApproved CreateIsAsAnswered
CHECK_DEADLOCK FALSE
