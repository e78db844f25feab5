SPECIFICATION Spec
CONSTANTS
    c1 = c1  c2 = c2  c3 = c3
    payer = payer  provider = provider  watcher = watcher  vault = vault
    CaseIds = {c1, c2, c3}
    Operator = operator
    Oracle = oracle
    Zero = zero
    Accounts = {operator, payer, provider, watcher, vault}
    EscalationIds = {e1}
    Frozen = {}
    InitialTreasury = vault
    InitialBalance <- MCInitialBalance
    Offers <- MCOffers
    Amounts = {660}
    Treasuries = {vault, oracle}
    MaxTime = 0
    CASE_CAP = 300
    CHALLENGE_WINDOW = 1
    ESCALATION_WINDOW = 1
    ESCALATION_RESOLUTION_TIMEOUT = 1
    CHALLENGE_BOND_BPS = 1000
    MIN_CHALLENGE_BOND = 25
    FEE = 25
    PENDING_FEE_TTL = 1
    MAX_LIVE_CASES = 2
    BOND_FLOOR = 660
INVARIANTS
    TypeOK
    Solvent
    LedgersMatchCases
    BondCoversLiveCases
    LossesMatchOutcomes
PROPERTIES
    SettlementPaysInFull
    ImplementsAdjudication
