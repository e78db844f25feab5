SPECIFICATION Spec
CONSTANTS
    Deployer = deployer
    Safe = safe
    NoOne = noOne
    MaxRuns = 2
    MaxTime = 3
    Scenarios <- MCScenarios
    ReviewerLists <- MCReviewerLists
INVARIANTS
    AgentKeysSurvive
    DescribedIsHandedOver
PROPERTIES
    DescribedRulingIsWired
CHECK_DEADLOCK FALSE
