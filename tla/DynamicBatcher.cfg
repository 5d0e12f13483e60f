CONSTANTS
  None = None
  Requests = {r1, r2, r3, r4}
  Loops = {l1, l2}
  MaxBatch = 2
SPECIFICATION FairSpec
INVARIANTS QueueSound
PROPERTIES AnswersOwnCall EveryCallEnds
