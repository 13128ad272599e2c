CONSTANTS
    Receivers = {r1, r2}
    Nothing = Nothing
    Jobs <- MCJobs
    MaxSent = 6
SPECIFICATION Spec
INVARIANTS
    EveryByteOnce
    SenderSurvives
    AllRoundsSent
    PieceIdentified
PROPERTIES
    Broadcasts
CHECK_DEADLOCK FALSE
