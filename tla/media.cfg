SPECIFICATION Spec
CONSTANTS
    Asset = {m1}
    Article = {n1, n2}
    Brand = logo
    None = none
    Request = {r1, r2}
    MaxObjects = 3
    MaxPicks = 3
    MaxCrashes = 1
SYMMETRY Alike
INVARIANTS TypeOK RowIsStored UseIsCounted NothingLeaks UsedIsKept
CHECK_DEADLOCK FALSE
