SPECIFICATION Spec
CONSTANTS
  Stories = {"a", "b", "c", "d"}
  NoStory = NoStory
  Sizes = {"m", "l"}
  SizeOf <- PartSizes
  Broken = {"b"}
  Silent = {"c"}
  Signal = {"a"}
  Tall = {"d"}
  Late = {"d"}
  Forced = {}
  RefreshEvery = 2
  MaxFaults = 1
  Requests = {1, 2, 3}
  MaxProjects = 2
  Scenarios <- PartScenarios
  MaxTries = 2
  Providers = {"gitlab", "github"}
  Handlers = {"ann", "bob"}
  Bounds <- PartBounds
  MaxRequests = 3
  AskKinds <- PartAsks
  Lines = {"l"}
  Scripts = {"s"}
  NoScript = NoScript
  MaxPending = 2
  MaxEntries = 1
  MaxReported = 1
  MaxBreaks = 1
  MaxBuilds = 3
  Commits = {"c", "d"}
  Histories <- PartHistories
  Sweepers = {"w"}
  KeepLastN = 1
  MaxPerSweep = 2
  MaxReapFaults = 1
  UploadIds = {"a", "b"}
  ArchiveOf <- PartArchives
  MaxFiles = 2
  MaxEntryBytes = 2
  MaxTotalBytes = 2
  MaxDiskFaults = 2
  Runners = {"v", "w"}
  NoShot = NoShot
  Shots <- PartShots
  Area = 100
  MinPixels = 2
  MinPercent = 3
  MaxCaptures = 2
  MaxErrors = 2
  StoriesOwed = 1
  MaxRefreshes = 3
  MaxChanges = 4
  MaxOutages = 1
  Tabs = {1, 2}
  People = {"ann", "bob"}
  Pages = {"p", "q"}
  Home = "home"
  Elsewhere = "else"
  MaxLogins = 3
  MaxAccounts = 2
  MaxSignFaults = 2
  Users = {1, 2}
  Installs = {1, 2}
  Personal = {2}
  Syncs = {1, 2}
  MaxRows = 2
  MaxSyncFaults = 1
  StoriesDue = 1
  StallAfter = 1
  OnlineFor = 2
  MaxTime = 3
  MaxTasks = 1
  MaxReads = 3
  StoryNames = {1, 2}
  NoResult = NoResult
  ResultLooks <- ShownLooks
  BadImages <- PartBadImages
  MaxPolls = 3
  PageSize = 1
  MaxUploads = 5
  MaxResets = 1
  MaxPageFaults = 1
  NoOrg = NoOrg
  Orgs <- BothOrgs
  MaxOpens = 2
  MaxAsks = 2
  MaxPosts = 2
  MaxAddFaults = 1
INVARIANTS
  TypeOK CapturesAreOwn GivesUpLast UploadsAreWhole CommitShowsReview StillKnown
  ReapsWholly ServesWhole RowMatchesImages PagesKeepUp LoginIsOwn
  ListedAreLinked
PROPERTIES UndoneOnlyByStaleCopy Contained AnswersNeverGoBack
CHECK_DEADLOCK FALSE
VIEW View
