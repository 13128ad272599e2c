CONSTANTS
    Threads = {t1, t2}
    MaxLoads = 2
    MaxPackets = 2
    MaxSeq = 4
    Policies = {"reload"}
SPECIFICATION Spec
PROPERTIES
    StopReturns
CHECK_DEADLOCK FALSE
