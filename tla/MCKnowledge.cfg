SPECIFICATION Spec
CONSTANTS
    i1 = i1
    i2 = i2
    m1 = m1
    m2 = m2
    ChunkSize = 3
    Overlap = 1
    Paths <- MCPaths
    Contents <- MCContents
    Indexers <- MCIndexers
    Models = {m1, m2}
    Model <- MCModel
    MaxBytes = 1
    MaxPages = 1
    MaxCharacters = 9
    MaxChunks = 3
    MaxRuns = 2
    MaxEvents = 1
    NoSpan = NoSpan
    NoRow = NoRow
    Questions <- MCQuestions
    EvidenceLimit = 1
    MaxQuestions = 1
    Tracing = TRUE
    Invented = Invented
SYMMETRY Symmetry
INVARIANTS
    TypeOK
    AnswersAreGrounded
    NothingUnsafeIsSent
    ResultsAreTrue
    TracedOnce
    RejectionsAreRecorded
PROPERTIES
    ImplementsShelf
CHECK_DEADLOCK FALSE
