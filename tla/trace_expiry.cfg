\* One device, one call of start and a backend that forgets old traces.
SPECIFICATION Spec
CONSTANTS
  Traces = {t1, t2}
  AndroidKeys = {a1}
  IosKeys = {}
  Debuggers = {r1}
  Calls = {c1}
  MaxReserved = 2
  MaxTerminal = 1
INVARIANT
  ReservesUntilResolved
CHECK_DEADLOCK FALSE
