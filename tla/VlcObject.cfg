CONSTANTS
    c1 = c1
    c2 = c2
    p1 = p1
    p2 = p2
    Threads = {c1, c2, p1, p2}
    NoThread = NoThread
    MaxRounds = 2
    Consumers = {c1, c2}
    BeosConsumers = {c1}
    MaxItems = 2
SPECIFICATION Spec
INVARIANTS
    NoCountLost
    NoSignalLost
PROPERTIES
    KeepsPromise
    ItemsTaken
CHECK_DEADLOCK FALSE
