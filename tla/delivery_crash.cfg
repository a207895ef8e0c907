SPECIFICATION DeliverySpec
CONSTANTS
    w1 = w1
    w2 = w2
    Watch = {w1, w2}
    Provider = {"publicmetadb"}
    Day = {1, 2}
    MaxPlays = 6
    MaxAttempts = 2
    MaxEvents = 1
INVARIANTS RetrySkipsDuplicate
CHECK_DEADLOCK FALSE
