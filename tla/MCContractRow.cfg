CONSTANTS
    Requests <- MCRequests
    Kind <- MCKind
    GatewayErrors = {409, 600}
SPECIFICATION Spec
CHECK_DEADLOCK FALSE
INVARIANTS
    StoredContractIsLatestKnown
