SPECIFICATION ImportSpec
CONSTANTS
    Workers = {w1}
    Clients = {r1}
    Settings = {}
    Queues <- ImportQueues
    MaxStamp = 6
    MaxRequests = 1
    MaxFaults = 1
PROPERTIES FailureIsFinal
CHECK_DEADLOCK FALSE
