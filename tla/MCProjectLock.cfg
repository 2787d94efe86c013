SPECIFICATION FairSpec
CONSTANTS
    daemon = daemon
    cli = cli
    d = d
    e = e
    c = c
    app = app
    zeta = zeta
    Zeta = Zeta
    A = A
    Z = Z
    Process = {daemon, cli}
    Daemon = daemon
    Thread = {d, e, c}
    Home <- HomeDef
    Name = {app, zeta, Zeta}
    Wild = wild
    Project = {A, Z}
    Fold <- FoldDef
    Rank <- RankDef
    Raw <- RawDef
    Requests <- Operations
    Budgets <- AllBudgets
INVARIANTS
    TypeOK
    LeasesWhole
PROPERTIES
    ImplementsGate
    OperationsEnd
