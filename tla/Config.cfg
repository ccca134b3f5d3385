SPECIFICATION FairSpec
CONSTANTS
    Studies <- MCStudies
    Rows <- MCRows
    YamlRoutes <- MCYaml
    NoCod <- MCNoCod
    DomainOf <- MCDomainOf
    Clients = {"c1", "c2"}
    ListenerTenant = 1
    Ttl = 1
    MaxEdits = 2
    MaxFaults = 1
INVARIANTS
    ListenerAgrees
PROPERTIES
    Converges
    OutageIsFlagged
