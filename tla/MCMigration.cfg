CONSTANTS
    Instances = {a, b, c}
    SCHEMA <- MCSchema
    WIDENED_COLUMNS <- MCWidenedColumns
    INDEXES <- MCIndexes
    PING_ATTEMPTS = 2
    MaxBoots = 2
    MaxFaults = 1
SPECIFICATION LiveSpec
CHECK_DEADLOCK FALSE
INVARIANTS
    BootedOnCompleteSchema
    NotAllLost
    QuietReboot
PROPERTIES
    IndexOnlyAfterWidening
    SomeoneBoots
