SPECIFICATION LiveSpec
CONSTANTS
    MaxRequests = 2
    MaxReceived = 3
CHECK_DEADLOCK FALSE
PROPERTIES
    NobodyWaitsForTheDead
