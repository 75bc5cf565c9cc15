\* An Android stop of two event sets, and a resume in flight.
SPECIFICATION Spec
CONSTANTS
  Devices = {d1}
  Platform = "android"
  Ids = {s1}
  MaxOwned = 1
  MaxTerminal = 1
  OfferedOps = {"resume"}
  MaxStops = 1
  MaxQueue = 1
PROPERTY ResumeExpires
