SPECIFICATION Spec
CONSTANTS
    b1 = b1
    b2 = b2
    f1 = f1
    f2 = f2
    Tabs <- MCTabs
    Slots <- MCSlots
    AccessLife = 1
    RefreshLife = 3
    MaxTokens = 3
    Faults = {"redis", "lost"}
SYMMETRY SessionSymmetry
CHECK_DEADLOCK FALSE
INVARIANTS
    BlacklistCoversToken
    OneLiveToken
    LogoutEndsLogin
    RefusedOnlyAfterLogout
