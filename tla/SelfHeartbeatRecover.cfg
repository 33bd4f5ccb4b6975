CONSTANTS
    InstIds = {i0, i1, i2, i3, i4}
    NoId = NoId
    Loops = {l1, l2, l3}
    MaxEvictions = 2
    MaxFaults = 1
SPECIFICATION Spec
PROPERTY ReRegistered
CHECK_DEADLOCK FALSE
