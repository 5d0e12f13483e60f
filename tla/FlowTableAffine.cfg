CONSTANTS
  f1 = f1
  f2 = f2
  f3 = f3
  w1 = w1
  w2 = w2
  Flows <- MCFlows
  Workers <- MCWorkers
  Serves <- ServesAffine
  MaxFlows = 1
  Timeout = 1
  MaxLag = 1
  MirrorEvery = 2
SPECIFICATION Spec
INVARIANTS TableBounded CountExact
PROPERTY VerdictKept
