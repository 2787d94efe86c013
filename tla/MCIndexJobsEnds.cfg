SPECIFICATION FairSpec
CONSTANTS
  s = s
  t = t
  u = u
  p = p
  q = q
  watcher = watcher
  ui = ui
  Sessions = {s, t}
  Home <- TwoHomes
  Callers = {ui}
  Watcher = watcher
  Projects = {p, q}
  Wild = wild
  Jobs = {1, 2}
  NoJob = NoJob
  None = None
  Options = {full}
  Default = full
  Plans <- Matches
  Rank <- ByName
  Limit = 1
  MaxRestarts = 2
  AutoIndex = TRUE
  Permanent = FALSE
  Mixes <- QueueingOrLeaving
INVARIANTS
  TypeOK
  CancelledRightly
PROPERTIES
  ImplementsGate
  RequestsEnd
  PartingEnds
CHECK_DEADLOCK FALSE
