SPECIFICATION Spec
CONSTANTS
    MaxEvents = 2
    MaxEventBytes = 4
    Sizes = {1, 3}
    LocalSize = 1
    WrapBytes = 1
    MaxReplies = 1
    MaxSeq = 3
    MaxAttachments = 2
CONSTRAINTS Retained RepliesEarly
INVARIANTS NoSilentLoss ContiguousPipeline SingleConsumer
CHECK_DEADLOCK FALSE
