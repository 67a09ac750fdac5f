SPECIFICATION Spec
CONSTANTS
    Submissions = {s1, s2, s3}
    Requests = {r1, r2, r3}
    MaxTracked = 2
    MaxWaiters = 1
    MaxQueue = 1
    PolicyRejects = {s1, s2}
    MaxDispatches = 2
    MaxAttachments = 2
SYMMETRY Symmetry
INVARIANTS RepliesAreOriginal InFlightIsTracked OnceWithinWindow
CHECK_DEADLOCK FALSE
