\* What the code does not keep, one at a time: the first is checked here, and
\* each of the others is found violated in its place (SectionsIndependent
\* with FairSpec).
SPECIFICATION Spec
CONSTANTS
    Studies <- MCStudies
    Rows <- MCRows
    YamlRoutes <- MCYaml
    NoCod <- MCNoCod
    DomainOf <- MCDomainOf
    Clients = {"c1", "c2"}
    ListenerTenant = 1
    Ttl = 1
    MaxEdits = 2
    MaxFaults = 1
PROPERTY OutageKeepsCaches
\* INVARIANT ProfileSetsApply
\* INVARIANT EverySetApplies
\* INVARIANT SetsFilter
\* INVARIANT RouteKeepsCustomer
\* INVARIANT WebmailTargetsSaved
\* PROPERTY SectionsIndependent
