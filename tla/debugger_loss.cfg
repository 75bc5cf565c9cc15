\* A lost iOS session, with commands in flight.
SPECIFICATION Spec
CONSTANTS
  Devices = {d1}
  Platform = "ios"
  Ids = {s1}
  MaxOwned = 1
  MaxTerminal = 1
  OfferedOps = {"resume", "detach"}
  MaxStops = 1
  MaxQueue = 1
PROPERTY LossNeverPauses
