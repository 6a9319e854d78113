\* The process stops beside two jobs, a background loop, a WebSocket, an expiry
\* timer and a terminal.
SPECIFICATION ShutdownSpec
CONSTANTS
  Jobs = {i, j}
  Loops = {l}
  Sockets = {s}
  Timers = {t}
  Terms = {p}
PROPERTIES
  ShutdownIsOrderly
CHECK_DEADLOCK FALSE
