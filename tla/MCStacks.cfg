\* The view of a stack, jobs, schedules, updates, Docker objects, Git and
\* terminals, each by itself.
SPECIFICATION SuiteSpec
CONSTANTS
  x1 = x1
  x2 = x2
  y1 = y1
  y2 = y2
  NoJob = NoJob
  Terms = {1, 2}
  Atts = {1, 2}
  Conns = {1, 2}
  Owners = {1}
  None = None
  MaxSessionsPerOwner = 1
  Buffer = 1
SYMMETRY Symmetry
INVARIANTS
  ViewIsTruthful
  
  OccurrencesAreExact
  
  RemovalsAreSafe
  TerminalsAreSound
PROPERTIES
  
  
  ReviewedIsDestroyed
CHECK_DEADLOCK FALSE
