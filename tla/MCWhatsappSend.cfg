SPECIFICATION Spec
CONSTANTS
    j1 = j1
    j2 = j2
    c1 = c1
    c2 = c2
    u1 = u1
    a1 = a1
    Jobs = {j1}
    Conversations = {c1, c2}
    Agents = {a1}
    NoAgent = NoAgent
    LockTTL = 1
    PromptCalls = FALSE
    RedisFaults = TRUE
    NoConv = NoConv
    CustomerOf <- OneCustomer
    ConvOf <- OneConv
    KindsOf <- AllKinds
    Accounts = {1, 2}
    Preferred <- OnePreferred
    Attempts = 3
    BackoffTicks = 1
    FollowUpTicks = 1
    Concurrency = 5
    MaxStalled = 1
    MaxCrashes = 2
INVARIANTS
    SendTypeOK
    DuplicatesExplained
    CompletedMeansDelivered
    RunBudget
    LockShieldsConversation
    NoFollowUpAfterReply
