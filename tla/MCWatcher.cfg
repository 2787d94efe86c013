SPECIFICATION Spec
CONSTANTS
  p1 = p1
  s1 = s1
  s2 = s2
  q1 = q1
  q2 = q2
  none = none
  nobody = nobody
  Projects = {p1}
  Sessions = {s1}
  Home <- HomeP1
  States = {q1, q2}
  NoState = none
  NoOne = nobody
  MissingRootDeleteAfter = 2
  Budgets <- AllBudgets
INVARIANTS
  WatchesSound
  OwnIndexIsCommitted
PROPERTIES
  ChangesAreIndexed
  GoneIsPruned
CHECK_DEADLOCK FALSE
