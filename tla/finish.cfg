SPECIFICATION FairSpec
CONSTANTS
    c1 = c1  c2 = c2  a1 = a1  a2 = a2
    Campaign = {c1, c2}
    Address = {a1}
    Account = {}
    Kind <- CourseAndCustom
    Audience <- OneEach
    MaxAttempts = 2
    BatchSize = 2
    DueLimit = 1
    CreatedAt <- DraftedInOrder
    Drain = {d1, d2}
    Admin = {p1}
    Ops = {"queue", "schedule"}
    Nobody = Nobody
    Events = {"crash", "email.enabled", "template", "late", "refusal", "slowSend", "target"}
    MaxUpsets = 2
PROPERTIES SendingEnds DueStarts
