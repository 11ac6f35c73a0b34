SPECIFICATION Spec
CONSTANTS
    MaxDeploys = 1
    MaxInstances = 2
    MaxStarts = 2
    MaxRequests = 1
    Kinds = {FALSE, TRUE}
    Strategies = {"rolling"}
    PreviewStrategies = {"rolling"}
    Callers = {"deploy", "health", "cron", "teardown", "user"}
    Faults = {"engine_start", "engine_stop", "timeout", "exit"}
CHECK_DEADLOCK FALSE
INVARIANTS TypeOK OnlyReleasesRun 
