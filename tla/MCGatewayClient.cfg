CONSTANTS
    MAX_REQUESTS = 3
    FOLLOWED = {303, 307}
    Statuses = {200, 303, 307, 404}
    Homes <- MCHomes
    Targets <- MCTargets
    NumericNames = {}
    ColonNames = {}
SPECIFICATION LiveSpec
CHECK_DEADLOCK FALSE
INVARIANTS
    AuthorizationStaysHome
    PostRepeatedOnlyOnPreservingRedirect
    NothingLeftArmed
PROPERTIES
    KeepsItsPromise
