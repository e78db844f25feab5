SPECIFICATION Spec
CONSTANTS
    AgentA = agentA
    Others = {other}
    MaxCapabilities = 3
    MaxCompletions = 1
    MaxRegistries = 2
    Requests = {r1, r2}
    Scenarios <- MCScenarios
INVARIANTS
    RowsOfThisRegistry
    ServesOwnCertified
    CachedFactsAreReal
PROPERTIES
    EventuallyServes
