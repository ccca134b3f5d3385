SPECIFICATION LogFairSpec
CONSTANTS
    MaxRows = 1
    MaxAttempts = 2
    Backoff <- OneRetry
    DefaultBackoff = 1
    Batch = 2
    MaxAborts = 1
    MaxEvents = 2
    Flushers <- SchedulerAndCommand
    FlushLimit = 1
    AdminErrors = FALSE
INVARIANT MarkedIsStored
INVARIANT TicketTraced
PROPERTY EventsReachAdmin
PROPERTY AdminKeepsTicket
CHECK_DEADLOCK FALSE
