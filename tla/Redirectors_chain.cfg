CONSTANTS
    C1 = C1
    C2 = C2
    L1 = L1
    U0 = U0
    U1 = U1
    U2 = U2
    CTasks <- MC_CTask
    LTasks <- MC_LTasks
    Urls <- MC_Urls
    Orig = U0
    Replies <- MC_RepliesChain
    Redirectors <- MC_Redirectors
    RedirectorsOnly = TRUE
    NestedLimit = 3
    TopCount = 1
    InitOthers = 1
    MaxOthers = 2

SPECIFICATION Spec

INVARIANT
    ChainFollowed

CHECK_DEADLOCK FALSE
