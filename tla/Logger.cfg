CONSTANTS
    T1 = T1
    T2 = T2
    T3 = T3
    NoTable = NoTable
    MaxArgs = 3
    TracePoints = 2
    BufLen = 24
    Tables <- MC_Tables
    Heap <- MC_Heap
    Stacks <- MC_Stacks

SPECIFICATION Spec

INVARIANTS
    TypeOK
    BufferBound
    
    ExtraArgsCounted
CHECK_DEADLOCK FALSE
