CONSTANTS
    Instances = {"main", "another"}
    GatewayCalls = {1, 2, 3}
    Targets = {"GET /proxy/my/agent"}
    Replies = {"a", "b"}
    MaxScripts = 2
    Main = "main"
    Tests = 2
SPECIFICATION MCSpec
CHECK_DEADLOCK FALSE
INVARIANTS
    KnownIsStopped
    AnsweredInOrder
    StrayFailsItsTest
PROPERTIES
    RunEnds
