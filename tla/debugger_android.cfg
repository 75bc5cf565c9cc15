\* One Android session with the fairness the timers and the event loop give.
SPECIFICATION FairSpec
CONSTANTS
  Devices = {d1}
  Platform = "android"
  Ids = {s1}
  MaxOwned = 1
  MaxTerminal = 1
  OfferedOps = {"state", "resume", "detach"}
  MaxStops = 2
  MaxQueue = 1
PROPERTIES
  CompleteIsFinal
  PauseEnds
  LossIsCleaned
  ShutdownEnds
