SPECIFICATION FairSpec
CONSTANTS
    MaxDeploys = 3
    MaxInstances = 3
    MaxStarts = 3
    MaxRequests = 0
    Kinds = {FALSE, TRUE}
    Strategies = {"rolling", "blue_green"}
    PreviewStrategies = {"rolling"}
    Callers = {"deploy", "teardown"}
    Faults = {"engine_start"}
CHECK_DEADLOCK FALSE
INVARIANTS OneProduction 
PROPERTIES PreviewNeverStopsProduction EveryReleaseIsTried
