\* Each tool is done when it has given its verdict.
SPECIFICATION MCSpec
CHECK_DEADLOCK FALSE
CONSTANTS
    Limit = 2
    MaxEvents = 3
    MaxEdits = 2
    Suites <- MCSuites
    SuiteCases <- MCCases
    SkipLists <- MCSkipLists
INVARIANTS
    GreenMeansGood
    OnlyReviewedBytes
    OmitDropsNothingNeeded
    GoodMeansUnchanged
