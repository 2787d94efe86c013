SPECIFICATION FairGeneration
CONSTANTS
    c1 = c1
    c2 = c2
    d1 = d1
    d2 = d2
    l1 = l1
    a1 = a1
    a2 = a2
    Clients = {c1, c2}
    Daemons = {d1, d2}
    Locals = {l1}
    Activations = {a1, a2}
    NoOne = NoOne
    Stale = Stale
    Remnant = Remnant
    Casts <- AllCasts
INVARIANTS
    GenerationSound
PROPERTIES
    RefusedOnlyIfDisturbed
    EveryoneEnds
