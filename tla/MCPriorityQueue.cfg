\* Compaction on: two senders, a full queue of two, five accepted messages.
SPECIFICATION QueueSpec
CONSTANTS
    Sender = {s1, s2}
    Capacity = 2
    Compaction = TRUE
    MaxSeq = 5
    MaxDropped = 1
CHECK_DEADLOCK FALSE
INVARIANTS
    OneLivePerSender
    DispatchOrder
PROPERTIES
    CriticalKept
