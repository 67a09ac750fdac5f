SPECIFICATION RecoverySpec
CONSTANTS
    Scopes = {s1, s2}
    Children = {k1, k2}
    MaxStore = 2
    MaxTasks = 1
    MaxRev = 3
    MaxRestarts = 1
SYMMETRY Symmetry
INVARIANT RecoveryIsFaithful
CHECK_DEADLOCK FALSE
CONSTRAINTS OneLease FewExpire
