SPECIFICATION Spec
CONSTANTS
    ann = ann
    mia = mia
    Employees <- MCEmployees
    Unknown = Unknown
    NoEmployee = NoEmployee
    Days <- MCDays
    BadDay = BadDay
    NoDay = NoDay
    NewYear = 7
    ReviewEnd <- MCReviewEnd
    NoRow = NoRow
    Unread = Unread
    NoBalance = NoBalance
    DefaultThreshold = 30
    Threads = {t1}
    Queries <- MCQueries
    EmptyQuery <- Texts
    Tables <- MCTables
    FirstDay = 2
    LastDay = 3
    MaxCalls = 4
    MaxChanges = 0
    MaxEvents = 4
    NoProposal = NoProposal
    AuditFails = TRUE
    Crashes = FALSE
INVARIANTS
    OwnerIsServed
CHECK_DEADLOCK FALSE
