\* Every combination of DKIM, SPF and DMARC request headers.
CONSTANT Headers <- MC_Headers

INIT Init
NEXT Next

INVARIANTS
    CheckDecided

\* A task's checks end; the run stops when every symbol is done.
CHECK_DEADLOCK FALSE
