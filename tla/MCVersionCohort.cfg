SPECIFICATION FairSpec
CONSTANTS
    p = p
    q = q
    a = a
    b = b
    c = c
    v1 = v1
    v2 = v2
    Proc = {p, q}
    Caller = {a, b, c}
    Home <- HomeDef
    Build = {v1, v2}
    None = None
    Torn = Torn
    Budgets <- AllBudgets
INVARIANTS
    TypeOK
    CohortSound
PROPERTIES
    ConflictIsReal
    ImplementsCohort
    EveryCallEnds
