SPECIFICATION ChannelSpec
CONSTANTS
    Phones = {p1, p2}
    Hosts = {h1, h2}
    PhoneKey = kp
    HostKey = kh
    Installations = {i1, i2}
    Installation = i1
    NoPayload = none
    Capability = cap
    Empty = empty
    Junk = junk
    MaxNonce = 3
    MaxPayload = 2
    MaxLogical = 3
    Lengths = {0, 3}
    MaxMessages = 2
    MaxMisframed = 2
INVARIANTS HandshakeAgrees DeliveredIsPrefix NoncesAreUnique
CHECK_DEADLOCK FALSE
SYMMETRY Symmetry
CONSTRAINT FewMessages
