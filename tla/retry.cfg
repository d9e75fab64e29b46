SPECIFICATION Spec
CONSTANTS
    c1 = c1  c2 = c2  a1 = a1  a2 = a2
    Campaign = {c1, c2}
    Address = {a1}
    Account = {a1}
    Kind <- CustomAndDirect
    Audience <- OneEach
    MaxAttempts = 2
    BatchSize = 2
    DueLimit = 1
    CreatedAt <- DraftedInOrder
    Drain = {d1, d2}
    Admin = {p1}
    Ops = {"queue", "direct", "retry"}
    Nobody = Nobody
    Events = {"late", "refusal", "kick"}
    MaxUpsets = 4
SYMMETRY DrainSymmetry
INVARIANTS AtMostOnce SentIsClosed
