SPECIFICATION Spec
CONSTANTS
    c1 = c1
    c2 = c2
    c3 = c3
    s1 = s1
    s2 = s2
    Customers <- Pair
    Sources <- Both
    NoSource = NoSource
    Runners <- Threads
    Contents <- Shared
    TTL = 1
    Schedule = 1
    MaxEdits = 1
    MaxFaults = 1
INVARIANT OneRunInTime
\* or, one at a time:
\* INVARIANT PresentIsActive
\* INVARIANT OwnedIsActive
\* INVARIANT GroupAgrees
CHECK_DEADLOCK FALSE
