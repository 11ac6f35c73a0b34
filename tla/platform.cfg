SPECIFICATION PlatformSpec
CONSTANTS
    MaxDeploys = 2
    MaxBuilds = 2
    Triggers = {"create", "rollback", "close"}
    Workers = {w1, w2}
    Concurrency = 2
    Tags = {latest}
    PRs = {pr1}
    Main = main
    NoImage = noimage
    Faults = {"worker_crash"}
    MaxInstances = 2
    MaxStarts = 2
    MaxRequests = 0
    Strategies = {"rolling"}
    PreviewStrategies = {"rolling"}
    Callers = {"deploy", "teardown"}
    RuntimeFaults = {}
CHECK_DEADLOCK FALSE
SYMMETRY Symmetry
INVARIANTS BuildsAtMostOnce 
