SPECIFICATION FairSpec
CONSTANTS
    MaxDeploys = 2
    MaxBuilds = 2
    Triggers = {"create"}
    Workers = {w1}
    Concurrency = 1
    Tags = {latest}
    PRs = {}
    Main = main
    NoImage = noimage
    Faults = {}
CHECK_DEADLOCK FALSE
PROPERTIES BuiltIsReleased
