CONSTANTS
    s1 = s1  s2 = s2  i1 = i1  i2 = i2  c1 = c1  d0 = d0  d1 = d1
    Services = {s1, s2}
    Insts = {i1, i2}
    Consumers = {c1}
    Domains = {d0, d1}
    DefaultDomain = d0
    SvcOf <- MCSvcOf
    DomainOf <- MCDomainOf
    Deps <- MCDeps
    Polls <- MCPolls
    InitStores <- MCInitStores
    QueueCap = 1
    MaxFaults = 1
    MaxDup = 1
SPECIFICATION Spec
INVARIANT TypeOK ViewConverges QuotaCoveredButRedelivered
PROPERTY ViewEventuallyExact
CHECK_DEADLOCK FALSE
