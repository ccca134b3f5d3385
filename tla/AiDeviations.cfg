\* What the code does not keep, one at a time: the first is checked here, and
\* each of the others is found violated in its place.  AuditAlternates takes
\* two operators and two changes, BilledBounded is violated with UtcLag = TRUE.
SPECIFICATION AssistantSpec
CONSTANTS
    Classified = {c1, c2}
    Labelled = {l1}
    Threads = {w1, w2}
    Workers = {w1, w2}
    WorkerOf <- MCWorkerOf
    Operators = {o1}
    Providers = {"p1", "p2"}
    NoProvider = "none"
    Suggestions = {"create_ticket"}
    Forms <- MCForms
    CostsOf <- MCCosts
    Budget = 1
    MaxCost = 1
    FirstProviders <- MCProviders
    FirstBindings <- MCBindings
    MinObserved = 1
    UtcLag = FALSE
    MaxBindings = 2
    MaxChanges = 1
    MaxCrashes = 1
    MaxDays = 2
SYMMETRY Symmetric
CHECK_DEADLOCK FALSE
PROPERTY BudgetStopsEveryJob
\* PROPERTY ExhaustedFailsSafe
\* INVARIANT SavesSeen
\* INVARIANT AppliedIsActed
\* INVARIANT LiveWasObserved
\* INVARIANT AuditAlternates
