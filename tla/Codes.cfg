\* Two mails that carry either code or none, for rules of two tenants, one mail
\* that asks for a code, two codes, two issues, one manual operation, one fault.
SPECIFICATION Spec
CONSTANTS
    c1 = c1
    c2 = c2
    t1 = t1
    t2 = t2
    NoCode = NoCode
    u1 = u1
    u2 = u2
    a1 = a1
    Codes = {c1, c2}
    Tenants = {t1, t2}
    ListenerTenant = t1
    MailTenant <- MCMailTenant
    Urgent = {u1, u2}
    Asking = {a1}
    Ttl = 1
    Retention = 0
    Custom = {c1, c2}
    Registered <- OneOrNone
    MaxIssues = 2
    MaxManual = 1
    MaxFaults = 1
INVARIANTS ConsumedIsServed
PROPERTIES ImplementsRedemption
SYMMETRY Alike
CHECK_DEADLOCK FALSE
