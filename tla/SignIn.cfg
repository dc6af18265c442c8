SPECIFICATION Spec
CONSTANTS
    t1 = t1
    t2 = t2
    h1 = h1
    h2 = h2
    Tabs <- MCTabs
    Handlers <- MCHandlers
    MaxLogins = 2
    MaxAttempts = 2
    Journeys <- MCJourneys
    RecoveryCodes = {"r1"}
    Policies = {"any", "both"}
INVARIANTS
    STypeOK
    OneSessionPerLogin
    RecoveryCodeOnce
    AbandonedStaysOut
    RevokedStaysOut
    OneEnrolStepAtATime
CHECK_DEADLOCK FALSE
SYMMETRY Sym
