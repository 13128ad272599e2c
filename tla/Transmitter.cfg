CONSTANTS
    Threads = {t1, t2}
    MaxLoads = 2
    MaxPackets = 2
    MaxSeq = 4
    Policies = {"wait", "reload"}
SPECIFICATION Spec
INVARIANTS
    OneTransmitter
    MarkerOnLast
PROPERTIES
    InOrder
    StopMeansStopped
    StopReturnsOrDeath
CHECK_DEADLOCK FALSE
