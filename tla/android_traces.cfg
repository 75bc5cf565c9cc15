\* One trace with a linked journey, its perfetto and the server's shutdown.
SPECIFICATION Spec
CONSTANTS
  Traces = {t1}
  Devices = {d1}
  Journeys = {j1}
  MaxReserved = 4
  MaxQueue = 1
INVARIANTS
  CompleteMeansGone
PROPERTIES
  CoverageIsHonest
  OutcomeIsFinal
  RecordingEnds
CHECK_DEADLOCK FALSE
