CONSTANTS
    T1 = T1
    T2 = T2
    U0 = U0
    U1 = U1
    U2 = U2
    Tasks <- MC_Tasks
    Urls <- MC_Urls
    Orig = U0
    Replies <- MC_Replies
    Redirectors <- MC_Redirectors
    RedirectorsOnly = TRUE
    NestedLimit = 3
    TopCount = 1
    InitOthers = 1
    MaxOthers = 2

SPECIFICATION Spec

PROPERTY
    TrimKeepsTopCount

CHECK_DEADLOCK FALSE
