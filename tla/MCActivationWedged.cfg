SPECIFICATION FairSpec
CONSTANTS
    Budgets <- AllBudgets
PROPERTIES
    CloseSucceeds
