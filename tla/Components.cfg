SPECIFICATION ComponentsSpec
CONSTANTS
  MaxFaults = 1
  NumTxn = 2
  NumRows = 2
  Drainer = {relay, caller}
  Relay = relay
  BatchSize = 2
  Interval = 2
  MaxInterval = 3
  MaxSeq = 3
  QueueSize = 2
  ReplayLimit = 3
  Symbol = {a, b}
  NumSnapshots = 1
  NumScorings = 1
  NumBackfills = 2
  MaxTries = 2
  Tab = {t1, t2}
  Param = {p0, p1}
  Start = p0
  MaxCalls = 2
  adm = adm
  usr = usr
  ip1 = ip1
  User = {adm, usr, new}
  Admin = {adm}
  Known = {adm, usr}
  Open <- MCOpen
  WrongLogins <- MCWrongLogins
  Ip = {ip1}
  NoIp = noip
  Idle = 2
  Absolute = 3
  TouchEvery = 1
  MaxFailures = 2
  Window = 1
  MaxTime = 3
  MaxRequests = 2
  Overlap = 1
  MaxDay = 6
  MaxFetches = 2
  Size = 2
  OtherRuns = {"scored", "reported", "failed"}
  NumStocks = 3
  ValueFactor = {"pb", "sy"}
  QualityFactor = {"roic"}
  Low = {"pb"}
  Lines <- MCLines
  Missing = Missing
  ValueWeight = 3
  QualityWeight = 2
  MinCount = 1
  ValueTrap = 50
  QualityTrap = 21
  Whole = 72
  Orders <- MCOrders
  NumRuns = 2
  NumListed = 2
  Symbols = {"a", "b"}
  Isins = {1, 2}
  Expected <- MCExpected
  Csv <- MCCsv
  MaxRows = 2
  NumLoads = 3
  Statements <- MCStatements
  Markets <- MCMarkets
  Rates <- MCRates
  Units = {2, 5}
  DefaultTaxRate <- MCTaxRate
  Revisions = {5, 10, 11, 14, 16}
  Watched <- MCWatched
INVARIANTS
  ComponentsTypeOK
  SentAsCommitted
  TabFollows
  PagesAreTrue
  AnswersAreTrue
  FormIsOfItsVersion
  SessionsEndAsSet
  LockedForReason
  NoGap
  StoredSplitIsApplied
  EndIsTrue
  ConsensusIsTrue
  UniverseFromOneSource
  UnitsDoNotMatter
  RightsAreAsDocumented
  StoredStays
PROPERTIES
  RankingIsFair
  IsinsStay
  EventuallySent
  SessionEndsConnection
CHECK_DEADLOCK FALSE
VIEW Moving
