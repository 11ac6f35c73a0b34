SPECIFICATION Spec
CONSTANTS
    MaxDeploys = 3
    MaxBuilds = 2
    Triggers = {"create", "rollback"}
    Workers = {w1}
    Concurrency = 1
    Tags = {latest}
    PRs = {}
    Main = main
    NoImage = noimage
    Faults = {}
CHECK_DEADLOCK FALSE
PROPERTIES RollbackGoesBack
