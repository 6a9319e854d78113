\* Alerts, notices, host metrics and the Docker daemon, each part by itself.
SPECIFICATION SuiteSpec
CONSTANTS
  Contents <- DaemonFiles
  Requests <- DaemonRequests
  Stamps = {1, 2}
  MaxJobs = 2
  MaxEdits = 2
INVARIANTS
  
  
  SamplesAreSound
  ReadingsMatchHost
PROPERTIES
  
  ResultIsExact
CHECK_DEADLOCK FALSE
