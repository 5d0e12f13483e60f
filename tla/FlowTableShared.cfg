CONSTANTS
  f1 = f1
  f2 = f2
  f3 = f3
  w1 = w1
  w2 = w2
  Flows <- TwoFlows
  Workers <- MCWorkers
  Serves <- ServesShared
  MaxFlows = 1
  Timeout = 1
  MaxLag = 2
  MirrorEvery = 2
SPECIFICATION FairSpec
INVARIANTS CounterSound
PROPERTIES IdleReclaimed SuspiciousSampled
