CONSTANTS
    NumLimit = 100
    conformedDepth = 3
    maxSolvePasses = 6
    maxInlineTasks = 2
    MaxRevivals = 1
    MaxPauses = 1
    MaxPlans = 1
    RetriesOwn = FALSE
    Lib <- MCLib
    Gate <- gate
    Started <- startInstance
    Advanced <- advance
    Accepted <- buildOutcome
    Called <- childTarget
    Moved <- moved
    Overwrote <- OverwroteInbound
    Fits <- FitsEntry
    Published <- FitsPublished
    Predicted <- TakenWhereClean
    Budget <- budgetOf
    Slots <- MCSlots
    Documents <- MCDocuments
    Answers <- MCAnswers
    Submissions <- MCSubmissions
    Environs <- MCEnvirons
    Large <- MCLarge
SPECIFICATION Spec
CHECK_DEADLOCK FALSE
INVARIANTS
    TypeOK
    NoTypeDefect
    EntryHolds
    OutputPublished
    UpgradePredicted
    ChildrenFollow
    AttemptsBounded
PROPERTIES
    Invisible
