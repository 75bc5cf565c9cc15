\* Two devices compete for one place, with two starts and a shutdown under way.
SPECIFICATION Spec
CONSTANTS
  Traces = {t1, t2}
  AndroidKeys = {a1}
  IosKeys = {i1}
  Debuggers = {r1}
  Calls = {c1, c2}
  MaxReserved = 1
  MaxTerminal = 1
INVARIANTS
  ExitIsHonest
PROPERTIES
  RouterReserves
CHECK_DEADLOCK FALSE
