SPECIFICATION Spec
CONSTANTS
    agent = agent  requester = requester  other = other
    Accounts = {agent, requester, other}
    Attesters = {agent}
    Requesters = {requester, other}
    Challengers = {requester}
    Zero = zero
    MaxCompletions = 2
    Deposits = {6}
    MaxStake = 6
    Cooldowns = {1}
    MaxTime = 1
    CHALLENGE_BOND = 1
    SLASH_PER_DISPUTE = 5
    STAKE_PER_POINT = 1
    CHALLENGE_ELIGIBILITY = 1
    CHALLENGE_WINDOW = 1
    CHALLENGE_TIMEOUT = 2
    DECAY_GRACE = 1
    DECAY_HORIZON = 2
INVARIANTS
    EthAccounted
    CountersMatchCompletions
    FraudNeverConfirmed
PROPERTIES
    StakeStaysAtRisk
    ScoresRiseByActivity
    BondsAndStakesExit
