SPECIFICATION Spec
CONSTANTS
    c1 = c1  c2 = c2  a1 = a1  a2 = a2
    Campaign = {c1}
    Address = {a1, a2}
    Account = {}
    Kind <- CourseOne
    Audience <- Both
    MaxAttempts = 2
    BatchSize = 2
    DueLimit = 1
    CreatedAt <- DraftedOne
    Drain = {d1, d2}
    Admin = {p1}
    Ops = {"queue", "cancel", "schedule", "unschedule", "delete"}
    Nobody = Nobody
    Events = {"crash", "late", "slowSend", "refusal", "email.enabled", "template", "optOut", "target", "purge", "kick"}
    MaxUpsets = 3
SYMMETRY DrainAddressSymmetry
INVARIANTS OneHolder TriesBounded ReportIsTrue
PROPERTIES SentIsFinal KeepsPromise FailedComesBackUnsent
