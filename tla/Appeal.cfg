SPECIFICATION AppealSpec
CONSTANTS
    c1 = c1  c2 = c2
    payer = payer  provider = provider  frozen = frozen
    r1 = r1  r2 = r2  r3 = r3  r4 = r4
    CaseIds = {c1, c2}
    Operator = operator
    Oracle = oracleAddress
    Zero = zero
    Accounts = {operator, payer, provider, frozen}
    EscalationIds = {1, 2}
    Frozen = {frozen}
    InitialTreasury = operator
    InitialBalance <- MCInitialBalance
    Offers <- MCOffers
    Amounts = {660}
    Treasuries = {operator}
    MaxTime = 0
    CASE_CAP = 300
    CHALLENGE_WINDOW = 1
    ESCALATION_WINDOW = 2
    ESCALATION_RESOLUTION_TIMEOUT = 2
    CHALLENGE_BOND_BPS = 1000
    MIN_CHALLENGE_BOND = 25
    FEE = 25
    PENDING_FEE_TTL = 1
    MAX_LIVE_CASES = 2
    BOND_FLOOR = 660
    Signers = {r1, r2, r3, r4}
    Panels <- MCPanels
    SignatureLists <- MCSignatureLists
    RESOLUTION_WINDOW = 2
INVARIANTS
    PanelAgreesWithOracle
    RequestsMatchCases
    ChallengeFailsOnlyByReview
    WindowsRespected
PROPERTIES
    EveryLiveCaseSettles
    EveryRequestCloses
