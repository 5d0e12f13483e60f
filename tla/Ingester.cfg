CONSTANTS
  Loop = Loop
  Contents = {e1, e2, e3}
  HecContents = {e3}
  HighRisk = {e1}
  RawCallers = {r1, r2}
  HecCallers = {h1}
  BatchSize = 2
  Window = 2
  HecLines = 2
  MaxEvents = 5
SPECIFICATION FairSpec
INVARIANTS EventsAccounted TakenOncePerWindow
PROPERTY BatchDrains
CHECK_DEADLOCK FALSE
