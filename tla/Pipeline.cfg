\* RowsLinked holds with these constants too.
SPECIFICATION FairSpec
CONSTANTS
    Mails = {"mail"}
    Rcpts <- Addresses
    Domains <- TwoDomains
    DomainOf <- MailDomain
    Requests <- OneOrBoth
    Yaml = {"b"}
    Routings <- Contents
    RuleLists <- Lists
    HardCap = 2
    Purged = 1
    MaxTries = 2
    MaxFaults = 1
    MaxSyncs = 1
INVARIANTS OriginalsExplained RefusedIsHeld
PROPERTIES AcceptedIsKept GetsThrough
CHECK_DEADLOCK FALSE
