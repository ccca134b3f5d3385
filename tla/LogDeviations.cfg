\* What the code does not keep, one at a time: the first is checked here, and
\* each of the others is found violated in its place.
SPECIFICATION LogSpec
CONSTANTS
    MaxRows = 1
    MaxAttempts = 2
    Backoff <- OneRetry
    DefaultBackoff = 1
    Batch = 2
    MaxAborts = 0
    MaxEvents = 1
    Flushers <- SchedulerAndCommand
    FlushLimit = 2
    AdminErrors = FALSE
PROPERTY AdminKeepsDead
\* INVARIANT DeadIsReported
\* INVARIANT DeadIsMarked
\* INVARIANT TicketIsReported
\* INVARIANT SentIsShown
\* With MaxEvents = 2:
\* INVARIANT ReplyInherits
\* With AdminErrors = TRUE:
\* INVARIANT MarkedIsStored
CHECK_DEADLOCK FALSE
