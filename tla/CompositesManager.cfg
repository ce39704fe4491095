CONSTANTS
    C1 = C1
    C2 = C2
    C3 = C3
    C4 = C4
    C5 = C5
    F = F
    PF = PF
    S0 = S0
    S1 = S1
    S2 = S2
    BadExpr = BadExpr
    NoExpr = NoExpr
    Names <- MC_Names
    Syms <- MC_Syms
    SecondPassSyms <- MC_SecondPassSyms
    Scores <- MC_Scores
    DefaultScore = S0
    UclConf <- MC_UclConf
    StrConf <- MC_StrConf
    MapFiles <- MC_MapFiles
    MaxReloads <- MC_MaxReloads

SPECIFICATION Spec

INVARIANTS
    TypeOK
    ClassificationMatchesClosure
    MapBufferIsFileRead

CHECK_DEADLOCK FALSE
