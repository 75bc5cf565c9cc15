\* Two Android sessions that compete for two devices, and shutdown.
SPECIFICATION Spec
CONSTANTS
  Devices = {d1, d2}
  Platform = "android"
  Ids = {s1, s2}
  MaxOwned = 2
  MaxTerminal = 1
  OfferedOps = {"detach"}
  MaxStops = 0
  MaxQueue = 1
SYMMETRY IdSymmetry
INVARIANT NothingLeftBehind
PROPERTY ReservesDevices
