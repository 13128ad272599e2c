CONSTANTS
    MaxConnects = 2
    UdpCapacity = 2
    VideoLength = 3
    MaxSeqNb = 5
SPECIFICATION Spec
INVARIANTS
    ReplyMatchesRequest
    StatesAgree
    SessionIsKept
    TimerFollowsState
PROPERTIES
    FramesInOrder
    PauseHolds
    LockStep
    FollowsChart
    SessionRequestsAnswered
    ServerEndsWithClient
CHECK_DEADLOCK FALSE
