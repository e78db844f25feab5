SPECIFICATION Spec
CONSTANTS
    agent = agent  buyer = buyer
    Agents = {agent}
    Parties = {buyer}
    Nobody = nobody
    MaxCompletions = 2
    MaxCapabilities = 1
    Polls = {poll}
    Scenarios <- OneRestart
    MaxMined = 5
    MaxRestarts = 1
    CONFIRMATIONS = 1
    CHUNK_SIZE = 2
    MAX_CHUNKS = 2
    Profiles = {"cid"}
    DECAY_GRACE = 1
    DECAY_HORIZON = 3
INVARIANT DiversityMatchesChain
