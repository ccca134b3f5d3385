\* What the code does not keep, one at a time: the first is checked here, and
\* each of the others is found violated in its place.
SPECIFICATION FairSpec
CONSTANTS
    Mails = {"mail"}
    Rcpts <- Addresses
    Domains <- TwoDomains
    DomainOf <- MailDomain
    Requests <- OneOrBoth
    Yaml = {"b"}
    Routings <- Contents
    RuleLists <- Lists
    HardCap = 2
    Purged = 1
    MaxTries = 2
    MaxFaults = 0
    MaxSyncs = 0
PROPERTY EveryMailGetsThrough
\* INVARIANT OneOriginal
\* With MaxSyncs = 1:
\* PROPERTY AcceptedIsRouted
\* With MaxSyncs = 1 and MaxFaults = 1:
\* PROPERTY AIIsDelivered
CHECK_DEADLOCK FALSE
