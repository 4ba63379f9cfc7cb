CONSTANTS
    MAX_BODY_BYTES = 2
    UNREAD_BODY_ALLOWANCE = 1
    UNREAD_BODY_WAIT = 2
    CLOSE_WAIT = 1
    HighWater = 1
    MaxTotal = 5
    MaxPieces = 2
SPECIFICATION LiveSpec
CHECK_DEADLOCK FALSE
INVARIANTS
    SettlesOnce
    RefusedDoNotUpload
PROPERTIES
    OnlyUnreadBodiesClose
    NothingElseIsHeld
