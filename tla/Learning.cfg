CONSTANTS
  Calls <- MCCalls
  FlowIds = {"f1", "f2", "f3"}
  Src <- MCSrc
  Dst <- MCDst
  Pattern <- MCPattern
  Signs <- MCSigns
  Requests <- MCRequests
  MarlRisks = {207}
  BehaviorRisks = {29}
  ZeroDayRisks = {29}
  HorizonOf = 2
  TtlClean = 2
  TtlThreat = 1
  MinSamples = 0
  MaxEntities = 1
  KeepEntities = 1
  EvictEvery = 2
  Warmup = 2
  ForestAt = 2
  WindowSize = 3
  MinEvents = 1
  MaxChains = 1
  ChainWindow = 1
  ActiveFor = 1

  FedClients = {"a", "b"}
  Datasets = {0, 1}
  MinClients = 2
  MaxRounds = 2
  MaxOnWire = 1
  MaxLoads = 1

  Threads = {"t1", "t2"}
  Paths = {"hf", "torch"}
  Hashed <- MCHashed
  Devices = {"cuda", "cpu"}
  Sizes <- MCSizes
  Budget <- MCBudget
  MaxModels = 3
  MaxModelLoads = 3
  MaxChanges = 1

  Vectors <- MCVectors
  AgentLen = 50
  BatchSizes = {0, 2}
  Probs = {100}
  Signals <- MCSignals

  Feedback <- MCFeedback
  QueueMax = 1
  DrainMax = 1
  Capacity = 2
  DropDivisor = 2
  MinBuffer = 2
  EvalBuffer = 1
  SampleMax = 2
  UpdateFreq = 2
  EvalFreq = 2
  Accuracies = {1, 2}
  MaxRestarts = 1
  MaxLearnSteps = 4

  RiskValues = {0, 2}
  AdwinMin = 4
  AdwinCut = 3454
  DdmMin = 4
  MaxFlows = 7

  BufferSize = 2
  RetrainAt = 3
  TrainEvery = 2
  MiniBatch = 2
  SaveEvery = 2
  MetricsMax = 4
  MaxSamples = 4
  MaxSeconds = 1
  MaxTrainSteps = 7
  MaxCrashes = 1

  Agents = {1, 2}
  Trainers = {"thor", "flow", "ray"}
  Taken = {"allow", "throttle"}
  MaxSteps = 2
  BatchSize = 2
  MaxLate = 1
  Scores = {0, 1}
  MaxWeights = 3
SPECIFICATION Spec
INVARIANTS DecisionsSound FederationSound ServingSound LearnersSound PoliciesSound
CHECK_DEADLOCK FALSE
