CONSTANTS
    c1 = c1
    p1 = p1
    Threads = {c1, p1}
    NoThread = NoThread
    MaxRounds = 2
    Consumers = {c1}
    BeosConsumers = {c1}
    MaxItems = 2
SPECIFICATION Spec
INVARIANTS
    ZeroIfSignaled
CHECK_DEADLOCK FALSE
