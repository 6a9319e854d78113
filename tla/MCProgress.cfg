\* Closed sessions and missed backups, under fairness, each part by itself.
SPECIFICATION Spec
CONSTANTS
  None = None
PROPERTIES
  RevokedIsClosed
  CaughtUp
CHECK_DEADLOCK FALSE
