SPECIFICATION Spec
CONSTANTS
    Tasks = {a, b}
    Traces = {t1, t2, t3}
    Scopes = {s1}
    NoScope = no_scope
    NoCall = no_call
    MaxTraces = 2
    MaxUsage = 2
    Budget = 2
    MaxRecords = 4
INVARIANTS
    TypeOK
    BoundedMemory
    TotalsAreExact
    OvershootIsInFlight
PROPERTIES
    EvictsLeastRecent
SYMMETRY Symmetry
CHECK_DEADLOCK FALSE
