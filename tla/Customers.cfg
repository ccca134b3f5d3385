SPECIFICATION FairSpec
CONSTANTS
    c1 = c1
    c2 = c2
    c3 = c3
    s1 = s1
    s2 = s2
    Customers <- Three
    Sources <- One
    NoSource = NoSource
    Runners <- Threads
    Contents <- Shrinking
    TTL = 1
    Schedule = 1
    MaxEdits = 1
    MaxFaults = 1
INVARIANT OneRun
INVARIANT OkIsExact
PROPERTY MassSafe
PROPERTY DueRuns
CHECK_DEADLOCK FALSE
