CONSTANTS
    Requests <- MCRequests
    Kind <- MCKind
    GatewayErrors = {500, 600}
SPECIFICATION MCSpec
CHECK_DEADLOCK FALSE
INVARIANTS
    AnswerIsTrue
    NoRowWithoutAction
    RecordedOrLogged
    CleanExitKeepsHistory
