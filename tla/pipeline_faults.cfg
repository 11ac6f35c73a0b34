SPECIFICATION Spec
CONSTANTS
    MaxDeploys = 2
    MaxBuilds = 1
    Triggers = {"create", "rollback", "close", "expire"}
    Workers = {w1}
    Concurrency = 1
    Tags = {latest}
    PRs = {pr1}
    Main = main
    NoImage = noimage
    Faults = {"worker_crash", "dep_crash", "db", "http", "redis"}
CHECK_DEADLOCK FALSE
SYMMETRY Symmetry
INVARIANTS TypeOK 
PROPERTIES  RollbackStaysReady
