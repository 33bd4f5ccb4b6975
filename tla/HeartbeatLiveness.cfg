CONSTANTS
    Capacity = 1
    DefaultTTL = 1
    ExpireAfter = 2
    NoTask = NoTask
    HealthTTL <- MCHealthTTL
    Instances = {i1}
    Workers = {w1, w2}

SPECIFICATION Spec

INVARIANT TypeOK

PROPERTY StoppedInstanceRemoved
