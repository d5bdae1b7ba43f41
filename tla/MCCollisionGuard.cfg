SPECIFICATION GuardSpec
CONSTANTS
    a1 = a1
    a2 = a2
    a3 = a3
    c1 = c1
    c2 = c2
    Agents = {a1, a2, a3}
    Conversations = {c1, c2}
    NoAgent = NoAgent
    LockTTL = 4
    PromptCalls = TRUE
    RedisFaults = TRUE
SYMMETRY GuardSymmetry
INVARIANTS
    GuardTypeOK
    HeldLockExpires
    LeaseExclusive
PROPERTY OwnerOnlyReleases
