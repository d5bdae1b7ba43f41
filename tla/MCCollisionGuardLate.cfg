SPECIFICATION GuardSpec
CONSTANTS
    a1 = a1
    a2 = a2
    c1 = c1
    Agents = {a1, a2}
    Conversations = {c1}
    NoAgent = NoAgent
    LockTTL = 2
    PromptCalls = FALSE
    RedisFaults = FALSE
SYMMETRY GuardSymmetry
PROPERTY OwnerOnlyReleases
