SPECIFICATION Spec
CONSTANTS
    c1 = c1  c2 = c2  a1 = a1  a2 = a2
    Campaign = {c1, c2}
    Address = {a1}
    Account = {}
    Kind <- CustomTwo
    Audience <- OneEach
    MaxAttempts = 2
    BatchSize = 2
    DueLimit = 1
    CreatedAt <- DraftedInOrder
    Drain = {d1}
    Admin = {p1}
    Ops = {"queue"}
    Nobody = Nobody
    Events = {"email.enabled"}
    MaxUpsets = 4
INVARIANTS NoRowStranded
