SPECIFICATION Spec
CONSTANTS
    q1 = q1
    q2 = q2
    Request = {q1, q2}
    MaxRequests = 7
    MaxCrashes = 1
    MaxFailures = 1
SYMMETRY RequestSymmetry
INVARIANTS
    ConsentGiven
    NeverRevived
    WithdrawnStays
    LinkHeld
    Confirmable
CHECK_DEADLOCK FALSE
