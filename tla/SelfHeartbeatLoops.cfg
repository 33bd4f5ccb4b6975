CONSTANTS
    InstIds = {i0, i1}
    NoId = NoId
    Loops = {l1, l2}
    MaxEvictions = 1
    MaxFaults = 0
SPECIFICATION Spec
INVARIANT SingleHeartbeatLoop
CHECK_DEADLOCK FALSE
