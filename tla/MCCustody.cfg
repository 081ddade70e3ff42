SPECIFICATION Spec
CONSTANTS
    w1 = w1
    o1 = o1
    o2 = o2
    Wallets = {w1}
    Operators = {w1, o1, o2}
    Intents = {i1, i2}
    Requests = {r1, r2}
    Signatures = {s1, s2}
    Callers = {c1, c2}
    DepositAmounts = {2}
    WithdrawalAmounts = {1}
    Minimums = {1}
    Quorum = 2
    CoolingOff = 1
    IntentTtl = 1
    DecisionTtl = 2
    MaxAttempts = 2
    None = None
    MaxTime = 1
    MaxEvidence = 2
    MaxLost = 1
    MaxOperations = 4
    Kinds <- MCKinds
    MaxAge <- MCMaxAge
    Controls <- MCControls
    Reports <- MCReports
SYMMETRY MCSymmetry
INVARIANTS
    LedgerMatchesChain NoOverdraft DepositLimitKept PaidIsDue EligibleLasts
 
CHECK_DEADLOCK FALSE
