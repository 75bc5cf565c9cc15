\* Two breakpoints of one class that two loaders load, one of them without the line.
\* The worker ends and stays ended.
SPECIFICATION FairSpec
CONSTANTS
  Breaks = {b1, b2}
  Types = {t1, t2}
  HasLine = {t1}
  MaxSets = 3
  MaxStops = 3
INVARIANTS
  NoLostSuspension
  EndReleases
  StepIsOneShot
  NoTypeMissed
PROPERTIES
  PrintsInOrder
  SuspensionEnds
CHECK_DEADLOCK FALSE
