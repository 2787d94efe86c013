SPECIFICATION FairSpec
CONSTANTS
    Capacity = 2
    MaxClients = 3
    Budgets <- AllBudgets
INVARIANTS
    ConnectionsSound
PROPERTIES
    AckMeansDraining
    ImplementsGeneration
    EveryoneIsReleased
