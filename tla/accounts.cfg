SPECIFICATION AccountsSpec
SYMMETRY MCSymmetry
CONSTANTS
  MaxTokens = 3
  MaxPats = 1
  Handlers = {r1, r2}
  Unreliable = {"redis", "db"}
  MaxOverlaps = 1
  Emails = {"ann"}
  Addresses = {"home"}
  Visitors = {r1, r2}
  MaxSecrets = 1
  MaxCodes = 2
  SignInKinds = {"register", "login", "mfa", "bootstrap"}
  Orgs = {"acme"}
  People = {"ann", "bob"}
  MaxInvites = 2
  MaxProjects = 1
  Slugs = {"web"}
  Manifests <- MCManifests
  Clients = {r1, r2}
  SecretNames = {"A", "B"}
  MaxSecretIds = 2
  MaxValues = 3
  Requests = {r1, r2}
  MasterKeys = {"default", "set"}
  Environments = {"production"}
INVARIANTS AccountsTypesOK RefreshesReplace  
           RolesAreGranted ManifestIsLastApplied SecretIsWhole ReadsAreSnapshots
PROPERTIES SpentTokensStayDead
CHECK_DEADLOCK FALSE
