SPECIFICATION EvSpec
CONSTANTS
    Events = {1, 2}
    LastDay = 3
    Retention = 1
    Batch = 2
    MaxFaults = 0
    MaxLogs = 2
    Rewrites = {"replace"}
    Missing = Missing
PROPERTY IndexOutlives

