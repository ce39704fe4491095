CONSTANTS
    U1 = U1
    U2 = U2
    U3 = U3
    A = A
    B = B
    K1 = K1
    K2 = K2
    V1 = V1
    V2 = V2
    Static = Static
    NoValue = NoValue
    BadName = BadName
    Uris <- MC_Uris
    ConfigMaps <- MC_ConfigMaps
    AliasOf <- MC_AliasOf
    Keys <- MC_Keys
    Val <- MC_Val
    KeyLists <- MC_KeyLists
    NameLists <- MC_NameLists

SPECIFICATION Spec

INVARIANTS

    OneResponse
