SPECIFICATION FairSpec
CONSTANTS
    Budgets <- AllBudgets
INVARIANTS
    OutcomesTrue
PROPERTIES
    RivalKept
    CloseSucceedsOrWedged
