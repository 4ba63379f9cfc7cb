CONSTANTS
    Instances = {"main"}
    GatewayCalls = {1}
    Targets = {"GET /proxy/my/agent"}
    Replies = {"a"}
    MaxScripts = 1
    Main = "main"
    Tests = 1
SPECIFICATION Spec
CHECK_DEADLOCK FALSE
INVARIANTS
    ContainersAreRemoved
