SPECIFICATION Spec
CONSTANTS
    j1 = j1
    j2 = j2
    c1 = c1
    c2 = c2
    u1 = u1
    a1 = a1
    Jobs = {j1}
    Conversations = {c1}
    Agents = {a1}
    NoAgent = NoAgent
    LockTTL = 15
    PromptCalls = FALSE
    RedisFaults = FALSE
    NoConv = NoConv
    CustomerOf <- SoleRow
    ConvOf <- OneConv
    KindsOf <- AllKinds
    Accounts = {1}
    Preferred <- OnlyFirst
    Attempts = 4
    BackoffTicks = 1
    FollowUpTicks = 1
    Concurrency = 5
    MaxStalled = 1
    MaxCrashes = 0
PROPERTY LockOnlyDelays
