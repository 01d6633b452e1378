SPECIFICATION Spec
CONSTANTS
  None = None
  firstRow = firstRow
  prefAccounts = {"ana", "ben"}
  prefCatalog <- MCPrefCatalog
  prefRetired = {"old"}
  prefLayouts0 <- MCPrefLayouts0
  prefFeatures = {"f1"}
  prefSwitches = {"s1"}
  prefMaxChoices = 2
  formRows <- MCFormRows
  formMaxDrafts = 2
  formMaxSends = 2
  feedRows = {1, 2}
  feedFilters = {"all", "some"}
  feedMatches <- MCMatches
  feedMaxLoads = 3
  bulkRows = {1, 3}
  bulkKinds = {"outcome", "split"}
  bulkKindOf <- MCKindOf
  bulkMany = 1
  bulkMaxAsked = 2
  bulkMaxApplied = 2
  impFiles = {"f1", "f2"}
  impRowNumbers = {1, 2}
  impRecords = {"x", "y"}
  impRowsOf <- MCRowsOf
  impMaxChoices = 2
  impMaxCalls = 2
  secRows = {"a", "b"}
  secMaxCalls = 2
  secMaxVisits = 2
  tradeAssets = {"a", "b"}
  tradeWithTicker = {"a", "b"}
  tradeDates = {1, 2}
  tradeSaved <- MCSaved
  tradeMaxOpenings = 2
  tradeMaxTyped = 4
  accAccounts = {"a", "b"}
  accInvestments = {1}
  accMaxClicks = 3
  accMaxOthers = 1
  splitMe = "me"
  splitOthers = {"ben", "cat"}
  splitGroups = {"g1"}
  splitMembersOf <- MCMembersOf
  splitFirstOf <- MCFirstOf
  splitExpenses = {"x1", "x2"}
  splitExpenseOf <- MCExpenseOf
  splitMaxOpenings = 2
  tmplMe = "me"
  tmplOthers = {"ben"}
  tmplTemplates = {"r1", "r2"}
  tmplExpired = {"r2"}
  tmplMaxOpenings = 1
  tmplMaxOps = 2
  tmplMaxLoads = 1
  groupGroups = {"g1", "g2"}
  groupMaxChanges = 1
  groupMaxReads = 3
  settleMe = "me"
  settleOthers = {"ben", "cat"}
  settleAccounts = {"a1", "a2"}
  settleBooks <- MCBooks
  settleMaxDebt = 1
  settleMaxOpenings = 2
  listRows = {"a", "b"}
  listLinked = "a"
  listMaxOps = 2
  listMaxRefreshes = 1
  listMaxOpenings = 1
  cacheQueries = {"assets", "monthlyOverview", "expSummary"}
  cachePages <- MCCachePages
  cacheReasons = {"EXPENSE", "CATEGORY_DELETED", "CSV_IMPORTED"}
  cacheScopes = {"me", "her"}
  cacheMaxSteps = 2
INVARIANTS
  TypeOK
  
  
  DoneOnce
  NothingLost
  SentIsAcceptable
PROPERTIES
  NeverBackwards
  EverythingEnds
CHECK_DEADLOCK FALSE
