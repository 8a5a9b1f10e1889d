CONSTANTS
    MaxMessages = 2
    MaxFaults = 1
    MaxUnanswered = 2
    QueueLimit = 1
    CONTROL_BACKLOG_LIMIT = 1
    DATA_BACKLOG_LIMIT = 1
    PipeLimit = 1
SPECIFICATION FairSpec
PROPERTIES WorkerIsSafe StopEndsSync EverythingGoesOut
