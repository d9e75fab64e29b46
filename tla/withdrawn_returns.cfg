SPECIFICATION Spec
CONSTANTS
    q1 = q1
    Request = {q1}
    MaxRequests = 5
    MaxCrashes = 0
    MaxFailures = 0
PROPERTIES
    OnlyTheReader
CHECK_DEADLOCK FALSE
