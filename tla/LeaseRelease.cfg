SPECIFICATION FairSpec
CONSTANTS
    MaxEvents = 1
    MaxEventBytes = 10
    Sizes = {1}
    LocalSize = 1
    WrapBytes = 0
    MaxReplies = 0
    MaxSeq = 1
    MaxAttachments = 2
INVARIANT ClosedAfterJoin
PROPERTIES NothingAfterFence ReleaseSettles AbsentEndsOrReturns ListeningPhoneCatchesUp
CHECK_DEADLOCK FALSE
