\* OwnSavesSeen holds with these constants too.
SPECIFICATION AssistantSpec
CONSTANTS
    Classified = {c1, c2}
    Labelled = {l1}
    Threads = {w1, w2}
    Workers = {w1, w2}
    WorkerOf <- MCWorkerOf
    Operators = {o1}
    Providers = {"p1", "p2"}
    NoProvider = "none"
    Suggestions = {"create_ticket"}
    Forms <- MCForms
    CostsOf <- MCCosts
    Budget = 1
    MaxCost = 1
    FirstProviders <- MCProviders
    FirstBindings <- MCBindings
    MinObserved = 1
    UtcLag = FALSE
    MaxBindings = 2
    MaxChanges = 1
    MaxCrashes = 1
    MaxDays = 2
SYMMETRY Symmetric
CHECK_DEADLOCK FALSE
INVARIANTS
    BilledBounded
    ActsOnlyIfLive
