SPECIFICATION Spec
CONSTANTS
  s = s
  t = t
  u = u
  p = p
  q = q
  watcher = watcher
  ui = ui
  Sessions = {s, t}
  Home <- OneHome
  Callers = {watcher, ui}
  Watcher = watcher
  Projects = {p}
  Wild = wild
  Jobs = {1, 2}
  NoJob = NoJob
  None = None
  Options = {full, fast}
  Default = full
  Plans <- OnePlan
  Rank <- ByName
  Limit = 1
  MaxRestarts = 0
  AutoIndex = TRUE
  Permanent = FALSE
  Mixes <- Sharing
SYMMETRY Alike
INVARIANTS
  JobsSound
PROPERTIES
  WatchersOwn
CHECK_DEADLOCK FALSE
