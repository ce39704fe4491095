\* One call of each walk on every content of up to four tags.
CONSTANT Contents <- MC_Contents
INIT Init
NEXT Next
INVARIANTS
    BlockTraversalOrder
    AllTagsOrder
    
\* html_content keeps no state between walks: after its one call a
\* behaviour has nothing left to do.
CHECK_DEADLOCK FALSE
