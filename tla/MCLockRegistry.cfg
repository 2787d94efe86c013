SPECIFICATION FairSpec
CONSTANTS
    p = p
    q = q
    a = a
    b = b
    c = c
    Proc = {p, q}
    Caller = {a, b, c}
    Home <- HomeDef
    Key = {k}
    None = None
    Budgets <- AllBudgets
INVARIANTS
    TypeOK
    LeasesSound
PROPERTIES
    ImplementsReadWriteLock
    WaitsEnd
