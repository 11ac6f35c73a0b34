SPECIFICATION FairSpec
CONSTANTS
    MaxDeploys = 2
    MaxBuilds = 2
    Triggers = {"create", "rollback", "close"}
    Workers = {w1}
    Concurrency = 1
    Tags = {latest}
    PRs = {pr1}
    Main = main
    NoImage = noimage
    Faults = {}
CHECK_DEADLOCK FALSE
INVARIANTS ReadyIsRegistered
PROPERTIES PostedIsFinal DeploysSettle CloseReachesRuntime
