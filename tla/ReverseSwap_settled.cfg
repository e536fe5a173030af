SPECIFICATION RevSpec
CONSTANTS
    Worlds = { {} }
    MaxQueue = 2
    MaxPaid = 1
    MaxFailures = 0
PROPERTY SettledIsFinal
CHECK_DEADLOCK FALSE
