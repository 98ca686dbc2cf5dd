SPECIFICATION Spec
CONSTANTS
    t1 = t1
    t2 = t2
    e1 = e1
    e2 = e2
    Texts = {t1, t2}
    EntityLists = {e1, e2}
    Splits = {t1, t2}
    Compiles <- MCCompiles
    Reloaders = {watch}
    Forced = {watch}
    Pollers = {poll}
    Evaluators = {ev}
    Reporters = {heartbeat}
    Missing = missing
    Free = free
    MaxGeneration = 3
INVARIANTS
    TypeOK
    SnapshotCoherent
    ReportCoherent
    ServedAlwaysCompiles
PROPERTIES
    ImplementsRegister
    GenerationsNeverGoBack
