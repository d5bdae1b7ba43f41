SPECIFICATION FairSpec
CONSTANTS
    j1 = j1
    j2 = j2
    c1 = c1
    c2 = c2
    u1 = u1
    a1 = a1
    Jobs = {j1, j2}
    Conversations = {c1}
    Agents = {a1}
    NoAgent = NoAgent
    LockTTL = 1
    PromptCalls = FALSE
    RedisFaults = FALSE
    NoConv = NoConv
    CustomerOf <- SoleRow
    ConvOf <- TwoConv
    KindsOf <- TwoKinds
    Accounts = {1}
    Preferred <- TwoPreferred
    Attempts = 2
    BackoffTicks = 1
    FollowUpTicks = 1
    Concurrency = 1
    MaxStalled = 1
    MaxCrashes = 1
PROPERTY KeepsPromise
