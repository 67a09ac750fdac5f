SPECIFICATION Spec
CONSTANTS
    None = None
    Conns = {c1, c2}
    Ids = {i1, i2}
    InboundLimit = 1
    AcceptLimit = 1
    MaxSockets = 2
    MaxSent = 3
    MaxOut = 2
    MaxWire = 2
    MaxSessions = 1
INVARIANTS InboundHasNoGap OnlyOwnFrames UnacknowledgedIsDenied EndsAreSeen
SYMMETRY Symmetry
CHECK_DEADLOCK FALSE
