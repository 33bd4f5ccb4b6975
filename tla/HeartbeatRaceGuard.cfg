CONSTANTS
    Capacity = 1
    DefaultTTL = 1
    ExpireAfter = 2
    NoTask = NoTask
    HealthTTL <- MCHealthTTL
    Instances = {i1}
    Workers = {w1}
    Cleaners <- MCJanitorOnly

SPECIFICATION Spec

PROPERTY NoFreshInstanceEvicted
