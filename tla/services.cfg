SPECIFICATION ServicesSpec
SYMMETRY MCSymmetry
CONSTANTS
  DbNames = {"my_db"}
  SafeName <- MCSafeName
  Engines = {"database", "postgres", "mariadb", "rabbitmq", "custom"}
  MaxCreates = 2
  Deleters = {c1, c2}
  Faults = {"refused", "commit", "secret", "insert", "drop", "crash"}
  StoreProjects = {"p1", "p2"}
  BucketName <- MCBucketName
  ObjectKeys = {"k"}
  MaxBodies = 3
  Storers = {c1, c2}
  StorageMode = "minio"
  StorageFaults = {"metadata", "remove", "unreachable", "restart"}
  Hosts = {"a.b"}
  Bare = {}
  Sanitize <- MCSanitize
  Previews = {"pr1"}
  MaxDomains = 2
  MaxCerts = 1
  Callers = {c1, c2}
  SimulateACME = TRUE
  DomainFaults = {"file", "certificate", "row", "crash"}
  MaxSchedules = 2
  Exprs <- MCExprs
  Times = {0, 60, 120}
  MaxTriggers = 2
  CronFaults = {"publish", "mark", "start", "crash"}
  NodeIds = {"n1", "n2"}
  LocalNode = "n1"
  NodeLabels <- MCLabels
  Loads = {"app"}
  MaxUnits = 2
  MaxRegisters = 2
  RepoOrgs = {"o1", "o2"}
  GitHubIds = {"g1"}
  RepoNames = {"a"}
  RepoCallers = {c1, c2}
  MaxKeys = 2
  AppConfigured = TRUE
  ImageProjects = {"p1"}
  ImageTags = {"x", "y"}
  MaxImages = 2
  Cleaners = {"scheduler", "operator"}
  Hours = {0, 1}
  DefaultHours = 2
  MaxImageClock = 3
  MaxCleanups = 1
  MaxEntries = 3
  BatchSize = 2
  PlanIds = {"free", "pro"}
  LogRequests = {"l1"}
  MaxLines = 2
  MaxApiUsage = 1
  MaxSamples = 4
  MaxTargets = 1
  Simulate = TRUE
  MeteringFaults = {"insert", "crash"}
  Tabs = {"t1", "t2"}
  PageRequests = {1, 2, 3}
  TabOf <- MCTabOf
  Processes = {c1, c2}
  MaxPairs = 2
  ConsoleFaults = {"network", "upstream"}
INVARIANTS ServicesTypesOK  NothingLeftBehind 
           RoutesMatchDomains RenewalIsKept OncePerDueTime DeletedIsSilent
            ShownKeysWork TokensOutliveCalls MeteredAtMostOnce
PROPERTIES NewestImageStays 
CHECK_DEADLOCK FALSE
