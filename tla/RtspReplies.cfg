CONSTANTS
    MaxConnects = 2
    UdpCapacity = 2
    VideoLength = 2
    MaxSeqNb = 5
SPECIFICATION Spec
PROPERTIES
    ServerAlwaysReplies
CHECK_DEADLOCK FALSE
