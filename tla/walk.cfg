SPECIFICATION FairSpec
CONSTANTS
    Locale = {l1, l2}
    Runner = {r1, r2}
    Nobody = Nobody
    Pages = 3
    PagesPerTick = 2
    MaxAttempts = 2
    Worlds <- Three
INVARIANTS CursorIsHonest OneWalker SyncWalksAll
PROPERTIES SyncIsWalked
