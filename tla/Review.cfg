SPECIFICATION Spec
CONSTANTS
    Patterns = {p1}
    Wordless = {}
    Urgencies = {"ALTA", "BASSA"}
    MinDecisions = 2
    Tenths = 8
    ListLimit = 4
    Runs = {r1, r2}
    Reviewers = {v1, v2}
    Prints = {"f1"}
    Handlers = {h1, h2}
    Thresholds = {2, 3}
    FirstThreshold = 3
    MaxDecisions = 3
    MaxProposals = 3
    MaxEvents = 4
    MaxClusters = 2
    MaxEdits = 2
SYMMETRY Symmetric
CHECK_DEADLOCK FALSE
INVARIANTS
    CopiesBounded
    NamesOwnRule
    OpenedWasEarned
\* What the code does not keep, each violated in place of the above:
\* NoCopies, OneRulePerProposal, RejectedHasNoRule, OneOpenCluster, and the
\* action property ClosedStaysClosed.
