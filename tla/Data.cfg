CONSTANTS
    VIDEO_LENGTH = 500
    FRAME_PERIOD = 100
    MJPEG_TYPE = 26
    Keys = {1, 2, 3, 4, 5}
    Values = {1, 2}
    NotFound = NotFound
    Hash <- MCHash
    Junk = Junk
    Null = Null
    Octets = {0, 1}
    StreamBytes = 4
    StreamBlocks = 3
    BlockSize = 2
    Startcodes <- MCStartcodes
    ByteWidth = 3
    DataSize = 2
    Numbers = {10, 21, 31}
    MostBits = 5
    LastPos = 7
    NoPart = NoPart
    Tokens <- MCTokens
    Protocols <- MCProtocols
    Words <- MCWords
    Hosts <- MCHosts
    Paths <- MCPaths
    Options <- MCOptions
    Elements = {1, 2}
    Marked = {1}
    MaxSize = 16
    Slots = {1, 2}
    MaxBlocks = 4
    Starts <- MCStarts
SPECIFICATION DataSpec
INVARIANTS
    OffBy256
    NothingMissed
    PartsFound
    OwnedOnce
PROPERTIES
    IsFifo
    IsMap
    IsList
    IsTape
CHECK_DEADLOCK FALSE
