\* A cancel after the artifact was validated but its cleanup failed.
SPECIFICATION Spec
CONSTANTS
  Traces = {t1}
  Devices = {d1}
  Journeys = {}
  MaxReserved = 4
  MaxMonitorFailures = 3
  MaxQueue = 1
INVARIANT RetrievedStays
CHECK_DEADLOCK FALSE
