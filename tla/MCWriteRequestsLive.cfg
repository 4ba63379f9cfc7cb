CONSTANTS
    Requests <- MCRequestsLive
    Kind <- MCKindLive
    GatewayErrors = {409, 600}
SPECIFICATION LiveSpec
CHECK_DEADLOCK FALSE
PROPERTIES
    CallerIsAnswered
