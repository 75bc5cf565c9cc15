\* One trace with a linked journey, its recorder and the server's shutdown.
SPECIFICATION Spec
CONSTANTS
  Traces = {t1}
  Devices = {d1}
  Journeys = {j1}
  MaxReserved = 4
  MaxMonitorFailures = 3
  MaxQueue = 1
INVARIANTS
  ReleasedWhenComplete
  CompletedIsSound
  NothingUnreported
PROPERTIES
  RecordingEnds
CHECK_DEADLOCK FALSE
