SPECIFICATION Spec
CONSTANTS
    m1 = m1
    m2 = m2
    c1 = c1
    Messages = {m1, m2}
    Customers = {c1}
    From <- OneCustomer
    NoRow = NoRow
    Day = 1
    MaxClock = 1
    RedisFaults = TRUE
SYMMETRY MessageSymmetry
CHECK_DEADLOCK FALSE
INVARIANTS
    ConversationTypeOK
    NoLateDuplicateRow
    NoLateWelcome
    FollowUpsSpaced
PROPERTIES
    LanguageSettles
    HotStaysHot
