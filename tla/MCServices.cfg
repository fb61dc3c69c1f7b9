SPECIFICATION Spec
CONSTANTS
  Writers = {"w1", "w2"}
  Contents <- MCContents
  Batches <- MCBatches
  Chains <- MCChains
  MaxEvents = 3
  Unread = 99
  RoomEvents = {"m1"}
  Observations = 1
  Servers = {"s1", "s2"}
  Calls = {"c1", "c2"}
  TraceOf <- MCTraceOf
  Unfit <- MCUnfit
  Risky = {"c1"}
  Contextual = {}
  Leased = {"c1"}
  Promoted = {"c1"}
  Outputs = {"done"}
  Changing = {"goal", "lease"}
  MaxCalls = 2
  MaxChanges = 1
  Agents = {"a1", "a2"}
  Archives <- MCArchives
  Settings <- MCSettings
  Principals = {"p", "q"}
  Owners = {"owner"}
  People = {"owner", "lead"}
  Bases = {"b1", "b2"}
  Entries = {"x", "y"}
  Provable = {"x", "y"}
  MaxTime = 1
  MaxGoal = 2
  MaxBindings = 2
  MaxImports = 2
  MaxApprovals = 1
  Handlers = {"h1", "h2"}
  Requests <- MCRequests
  Projects = {"P"}
  MaxRoom = 2
  Processes = {"d1", "d2"}
  MaxKeys = 3
  Clients = {"k1", "k2"}
  Commits = {"o1"}
  Missions = {"m0", "m2"}
  Risk <- MCRisk
  Covers <- MCCovers
  MaxProposals = 2
  Syncers = {"k1", "k2"}
  Heads = {"o1", "o2"}
  MaxMoves = 1
  MaxPull = 2
  Views = {"v1", "v2"}
  MaxVersions = 2
  MaxFetches = 2
  Bridges = {"b1", "b2"}
  Humans = {"b1"}
  Runtimes <- MCRuntimes
  Identities = {"i2"}
  IdentityOf <- MCIdentityOf
  MaxRemovals = 1
INVARIANTS AnswersStay OnlyTornAppendsSpoil RanAsDecided ImportAsConfirmed ReturnAsApproved MissionsFounded EvidenceStays CoreIsKnown CursorFollowsLog HistoryCurrent LastAnswerCatchesUp
PROPERTIES SupersededTakesBindings StopNotOverwritten
CHECK_DEADLOCK FALSE
