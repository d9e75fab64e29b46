SPECIFICATION FairSpec
CONSTANTS
    Entity = {e1}
    Locale = {l1}
    Runner = {r1, r2}
    Cron = {r1}
    Editor = {p1}
    Person = {q1}
    Nobody = Nobody
    MaxAttempts = 2
    ClaimLimit = 2
    MaxEdits = 2
    Worlds <- Both
INVARIANTS TypeOK OneRunner DoneIsCurrent
PROPERTIES PersonWins SavesAreTranslated
