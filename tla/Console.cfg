SPECIFICATION FairSpec
CONSTANTS
    Targets = {"me", "a"}
    Self = "me"
    Slots = {1, 2}
    MaxStamps = 1
    Plans <- MCPlans
INVARIANTS
    CTypeOK
    SettledListIsTrue
    ConfirmedActsAsNamed
    OneProofOneAction
    BusyDialogIsFreed
    OneSaveAtATime
    OnePeerPerSession
    RuleNamesItsOwn
PROPERTIES
    PolledListConverges
    TypedTextStays
    FormKeepsItsRow
CHECK_DEADLOCK FALSE
