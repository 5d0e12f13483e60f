CONSTANTS
  Consumers = {c1, c2}
  BatchSize = 2
  MaxLen = 2
  MaxEntries = 4
SPECIFICATION FairSpec
PROPERTY FailedIsRetried
