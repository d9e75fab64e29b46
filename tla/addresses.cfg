SPECIFICATION Spec
CONSTANTS
    Article = {n1, n2}
    Locale = {en, de}
    Default = en
    FallsBack = {de}
    Name = {x, y, z}
    Copy = copy
    Request = {r1, r2}
    MaxRequests = 4
    MaxCrashes = 1
SYMMETRY Alike
INVARIANTS  LinksLead
CHECK_DEADLOCK FALSE
