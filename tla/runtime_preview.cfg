SPECIFICATION Spec
CONSTANTS
    MaxDeploys = 2
    MaxInstances = 3
    MaxStarts = 3
    MaxRequests = 0
    Kinds = {FALSE, TRUE}
    Strategies = {"rolling", "blue_green"}
    PreviewStrategies = {"rolling", "blue_green"}
    Callers = {"deploy"}
    Faults = {}
CHECK_DEADLOCK FALSE
PROPERTIES PreviewNeverStopsProduction
