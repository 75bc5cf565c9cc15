\* One iOS session and its LLDB worker; one command of each kind that differs in effect.
SPECIFICATION Spec
CONSTANTS
  Devices = {d1}
  Platform = "ios"
  Ids = {s1}
  MaxOwned = 1
  MaxTerminal = 1
  OfferedOps = {"state", "stack", "resume", "set", "detach"}
  MaxStops = 2
  MaxQueue = 2
INVARIANTS
  ReleasedWhenComplete
  PauseIsBacked
