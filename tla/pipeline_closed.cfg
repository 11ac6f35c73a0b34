SPECIFICATION Spec
CONSTANTS
    MaxDeploys = 1
    MaxBuilds = 1
    Triggers = {"create", "close"}
    Workers = {w1}
    Concurrency = 1
    Tags = {latest}
    PRs = {pr1}
    Main = main
    NoImage = noimage
    Faults = {}
CHECK_DEADLOCK FALSE
PROPERTIES ClosedStaysClosed
