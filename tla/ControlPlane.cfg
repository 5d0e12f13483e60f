CONSTANTS
  Executions = {"e1", "e2"}
  Alerts <- MCAlerts
  CustomPlan <- MCPlan
  Raising = {"look", "act"}
  Critical = {"act"}
  Broken = {"create_jira_p1", "create_hr_ticket"}
  NoRow = NoRow

  Incidents = {"i1", "i2"}
  Recommended <- MCRecommended
  Configured = {"slack", "siem", "misp", "ticket"}
  DryRuns = {TRUE, FALSE}
  RuleIds = {"r1"}
  AuditMax = 1

  Clients = {"c1", "c2", "c3"}
  Published = 2

  Ips = {pub, lan}
  LocalIps = {lan}
  Lookups = {l1st, l2nd}
  Counts <- MCCounts
  FeedScore <- MCFeedScore
  ThreatFox = {"threatfox"}
  Threshold = 50
  Nothing = Nothing

  Loaders = {"feodo_tracker", "otx"}
  Usable = {"feodo_tracker", "otx"}
  Lists <- MCLists
  Addresses = {"a", "b", "v6"}
  Covers <- MCCovers
  Updates = {"loop", "direct"}
  MaxIocs = 2

  Keys = {"a", "b"}
  Limiters = {"window", "bucket", "seconds"}
  TicksPerSecond = 2
  Window = 1
  MaxCount = 2
  Stale = 1
  CleanupEvery = 1
  Capacity = 2
  Rate = 1
  LastTick = 4

  AuthCalls = {"a1", "a2", "a3"}
  Tokens <- MCTokens
  Internal = {"offline_access"}
  Rights = {"w"}
  InitialPolicy <- MCPolicy

  Flow <- MCFlow
  Threat <- MCThreat
  FlowTtl = 2
  ThreatTtl = 9
  StatsTtl = 2
  MaxRange = 3
  PageQueries <- MCPageQueries
  HuntRequests <- MCHuntRequests
  Hosts = {"a", "b"}
  Nets = {"net"}
  DaysBack = 3
  HighCount = 3
  MediumCount = 2
  LastDay = 2

  Row <- MCRow
  Queries <- MCQueries
  Connected = {TRUE, FALSE}
  MaxLimit = 3
  LastQueryMinute = 2

  Paths = {"p", "q"}
  Contents = {"filtered", "inside", "all", "listed", "bad"}
  RuleIn <- MCRule
  Events <- MCEvents
  Fits <- MCFits
  Occurs <- MCOccurs
  LowerCase = {"selection", "filter", "sel", "sel_b"}
  ReloadAfter = 1
  MaxLoad = 1
  LastSecond = 5
  StatsCap = 1

  YaraFiles = {"f", "g"}
  NamespaceOf <- MCNamespaceOf
  Texts <- MCTexts
  Builtin <- MCBuiltin
  Payloads <- MCPayloads
  Scanners = {"s1"}

  Entities = {"a", "b"}
  RiskEvents <- MCRiskEvents
  TypeCap = 50
  AlertAt = 75
  CriticalAt = 150
  HighAt = 100
  Day = 2
  Anomalies <- MCAnomalies
  EntityTypes = {"user", "host"}
  MaxScore = 200
  Week = 2
  MaxEvents = 500
  TopN = 1
  LastScoreHour = 2
  MaxPosts = 2

  EventSources = {"a"}
  Phase <- MCPhase
  NoPhase = 99
  ChainWindow = 2
  RawEvents <- MCRawEvents
  Windows <- MCWindows
  MaxLate = 2
  LastMinute = 2
  MaxEventsIn = 3

  CloudLog <- MCCloudLog
  Detectors <- MCDetectors
  Lookbacks = {0, 2}
  PageSize = 2
  MaxItems = 2
  TokenLife = 2
  TokenMargin = 0
  Messages = {"m1", "m2", "m3"}
  Files <- MCFiles
  BadBody <- MCBadBody
  Records <- MCRecords
  BatchMax = 2
  LastHour = 3
  MaxJobs = 2
  MaxReceives = 2
SPECIFICATION Spec
INVARIANTS
  OutcomeIsReal SoarReportsAreReal OrderedOnce IntelSound AccessSound
  RequestsSound SigmaSound YaraSound FeedsSound RiskSound XdrSound CloudSound
PROPERTIES AlertsAreListed JobsEnd
CHECK_DEADLOCK FALSE
