CONSTANTS
    C1 = C1
    C2 = C2
    L1 = L1
    U0 = U0
    U1 = U1
    U2 = U2
    CTasks <- MC_CTasks
    LTasks <- MC_LTasks
    Urls <- MC_Urls
    Orig = U0
    Replies <- MC_Replies
    Redirectors <- MC_Redirectors
    RedirectorsOnly = TRUE
    NestedLimit = 2
    TopCount = 1
    InitOthers = 1
    MaxOthers = 2

SPECIFICATION Spec

INVARIANTS
    TypeOK
    ReservationExclusive

PROPERTIES
    AllTasksFinish

CHECK_DEADLOCK FALSE
