SPECIFICATION ComponentsSpec
CONSTANTS
  Window = 2
  MaxTime = 5
  Worker = {w1, w2}
  User = {"u1"}
  Member = {"u1", "u2"}
  Ip = {"ip"}
  ShortTime = 2
  LongTime = 3
  Code = {"c1"}
  MonthlyCap = 1
  LastMonth = 1
  MaxReferrals = 2
  MaxGrants = 3
  Short = 2
  Long = 3
  GapHours = 36
  Hours = {0, 3, 23}
  StreakDays = 3
  Device = {}
  GeoRow <- Geo
  RiskWindow <- Windows
  RiskTtl <- Ttls
  RiskThreshold <- Thresholds
  HistoryTtl = 1
  MaxCount = 3
  Party = {p, q}
  StructuringDay = 1
  StructuringThreshold = 2
  StructuringLimit = 2
  MaxPayments = 3
  Tx = {"t1"}
  Nit = {"n1"}
  NitTtl = 1
  NitDelay = 1
  Starts <- DaysOf2026
  Terms = {10, 15}
  ReportLimit = 1
  MaxMonth = 7
  MaxComplaints = 2
  Slot = {"s1"}
  Token = {"k1", "k2"}
  Dpo = {"u1"}
  Expiry = {1}
  RATE_LIMITS <- Limits
  RateWindow = 1
  Amount = {1, 2}
  CreditKey = {"k1", "k2"}
  MaxUpdates = 3
  MaxBalance = 3
  Operator = {o1, o2}
  Instance = {"i1"}
  MaxKey = 2
  Px2 <- Proxies
  IpTtl = 1
  Lag = 1
  Span = 0
SYMMETRY Symmetry
INVARIANTS
  TypesOK
  ReleaseIsProven
  ReferralsAreEarned
  SuspicionIsFounded
  CancelledByCreator
  
  CachesAreFresh
  CalendarIsRight
  DraftIsComplete
  WayInHolds
  LedgerTellsBalance
  KeysAreAccounted
  RankingFollowsScores
PROPERTIES
  WindowNeverRestarts
  PromotionIsEarned
  AccountSpec
CHECK_DEADLOCK FALSE
